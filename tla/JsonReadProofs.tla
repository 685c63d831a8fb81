---------------------------- MODULE JsonReadProofs ----------------------------
(***************************************************************************)
(* Proofs about JsonRead for every data tree and every path.               *)
(***************************************************************************)
EXTENDS JsonRead, ExtremaProofs, FiniteSetTheorems

-----------------------------------------------------------------------------
(***************************************************************************)
(* Document order.                                                         *)
(***************************************************************************)

\* How many elements of S are less than n.
Before(S, n) == Cardinality({m \in S : m < n})

LEMMA Finite ==
    ASSUME NEW N \in Nat, NEW S \in SUBSET (0 .. N)
    PROVE  IsFiniteSet(S) /\ Cardinality(S) \in Nat
  <1>1. IsFiniteSet(0 .. N)
    BY FS_Interval
  <1>2. IsFiniteSet(S)
    BY <1>1, FS_Subset
  <1> QED
    BY <1>2, FS_CardinalityType

\* It counts on with every element, and never up to all of them.
LEMMA BeforeCounts ==
    ASSUME NEW N \in Nat, NEW S \in SUBSET (0 .. N), NEW n \in S
    PROVE  /\ Before(S, n) \in 0 .. Cardinality(S) - 1
           /\ \A k \in S : n < k => Before(S, n) < Before(S, k)
  <1> DEFINE L(k) == {m \in S : m < k}
  <1>1. \A k : IsFiniteSet(L(k)) /\ Cardinality(L(k)) \in Nat
    <2> TAKE k
    <2>1. L(k) \in SUBSET (0 .. N)
      OBVIOUS
    <2> HIDE DEF L
    <2> QED
      BY <2>1, Finite
  <1>2. IsFiniteSet(S) /\ Cardinality(S) \in Nat
    BY Finite
  <1>3. n \notin L(n)
    OBVIOUS
  <1> DEFINE U == L(n) \cup {n}
  <1>4. IsFiniteSet(U) /\ Cardinality(U) = Cardinality(L(n)) + 1
    <2> HIDE DEF L
    <2> QED
      BY <1>1, <1>3, FS_AddElement
  <1>5. U \in SUBSET S
    OBVIOUS
  <1>6. Cardinality(U) <= Cardinality(S)
    <2> HIDE DEF U
    <2> QED
      BY <1>2, <1>5, FS_Subset
  <1>7. ASSUME NEW k \in S, n < k PROVE Cardinality(U) <= Cardinality(L(k))
    <2>1. U \in SUBSET L(k)
      <3>1. \A m \in S : m \in Nat
        OBVIOUS
      <3>2. \A m \in S : m < n => m < k
        BY <1>7, <3>1
      <3> QED
        BY <1>7, <3>2
    <2> HIDE DEF U, L
    <2> QED
      BY <1>1, <2>1, FS_Subset
  <1>8. \A k : Before(S, k) = Cardinality(L(k))
    BY DEF Before
  <1> HIDE DEF U, L
  <1> QED
    BY <1>1, <1>2, <1>4, <1>6, <1>7, <1>8

\* InOrder lists all of S, in ascending order.
LEMMA Ordered ==
    ASSUME NEW N \in Nat, NEW S \in SUBSET (0 .. N)
    PROVE  /\ InOrder(S) \in Seq(S) /\ Len(InOrder(S)) = Cardinality(S)
           /\ DOMAIN InOrder(S) = 1 .. Cardinality(S)
           /\ \A i \in 1 .. Cardinality(S) :
                InOrder(S)[i] \in S /\ Before(S, InOrder(S)[i]) = i - 1
           /\ \A n \in S : Before(S, n) + 1 \in 1 .. Cardinality(S)
                           /\ InOrder(S)[Before(S, n) + 1] = n
  <1> DEFINE k == Cardinality(S)
             R == 0 .. k - 1
             f == [n \in S |-> Before(S, n)]
  <1>1. IsFiniteSet(S) /\ k \in Nat
    BY Finite
  <1>2. \A n \in S : Before(S, n) \in R
    BY BeforeCounts
  <1>3. \A n, m \in S : Before(S, n) = Before(S, m) => n = m
    <2> SUFFICES ASSUME NEW n \in S, NEW m \in S, n # m
                 PROVE  Before(S, n) # Before(S, m)
      OBVIOUS
    <2>1. n < m \/ m < n
      OBVIOUS
    <2>2. n < m => Before(S, n) < Before(S, m)
      BY BeforeCounts
    <2>3. m < n => Before(S, m) < Before(S, n)
      BY BeforeCounts
    <2> QED
      BY <1>1, <1>2, <2>1, <2>2, <2>3
  <1>4. f \in Injection(S, R)
    BY <1>2, <1>3 DEF Injection, IsInjective
  <1>5. IsFiniteSet(R) /\ Cardinality(R) = k
    BY <1>1, FS_Interval
  <1>6. f \in Surjection(S, R)
    <2> HIDE DEF R, f
    <2> QED
      BY <1>4, <1>5, FS_Injection
  <1>7. \A i \in R : \E n \in S : Before(S, n) = i
    BY <1>6 DEF Surjection
  <1>8. \A i \in 1 .. k : InOrder(S)[i] \in S /\ Before(S, InOrder(S)[i]) = i - 1
    <2> TAKE i \in 1 .. k
    <2>1. i - 1 \in R
      BY <1>1
    <2>2. InOrder(S)[i] = CHOOSE n \in S : Before(S, n) = i - 1
      BY DEF InOrder, Before
    <2> QED
      BY <1>7, <2>1, <2>2
  <1>9. InOrder(S) \in Seq(S) /\ Len(InOrder(S)) = k /\ DOMAIN InOrder(S) = 1 .. k
    <2>1. InOrder(S) = [i \in 1 .. k |-> InOrder(S)[i]]
      BY DEF InOrder
    <2> QED
      BY <1>1, <1>8, <2>1
  <1>10. ASSUME NEW n \in S
         PROVE  Before(S, n) + 1 \in 1 .. k /\ InOrder(S)[Before(S, n) + 1] = n
    <2>1. Before(S, n) + 1 \in 1 .. k /\ (Before(S, n) + 1) - 1 = Before(S, n)
      BY <1>1, <1>2
    <2> QED
      BY <1>3, <1>8, <2>1
  <1> QED
    BY <1>8, <1>9, <1>10

-----------------------------------------------------------------------------
(***************************************************************************)
(* The recursive functions are what their equations say.  Each proof takes *)
(* the first place up to which there is no such function, and extends the  *)
(* one that there is for the places before it.                             *)
(***************************************************************************)

\* Filled: the value of a node after each of its children was put into it.
LEMMA FilledUnfolds ==
    ASSUME NEW d, NEW n, NEW json, Len(Children(d, n)) \in Nat
    PROVE  LET c == Children(d, n) IN
           \E val : /\ val[0] = Null
                    /\ \A i \in 1 .. Len(c) :
                           val[i] = Put(val[i - 1], d[c[i]], json[c[i]])
                    /\ Filled(d, n, json) = val[Len(c)]
  <1> DEFINE c == Children(d, n)
             k == Len(c)
             N(i, v) == Put(v, d[c[i]], json[c[i]])
             Upto(f, j) == \A i \in 0 .. j :
                               f[i] = IF i = 0 THEN Null ELSE N(i, f[i - 1])
             Is(f) == f = [i \in 0 .. k |-> IF i = 0 THEN Null ELSE N(i, f[i - 1])]
  <1>1. Filled(d, n, json) = (CHOOSE f : Is(f))[k]
    BY DEF Filled
  <1> HIDE DEF N, c
  <1>2. \A j \in 0 .. k : \E f : Upto(f, j)
    <2> DEFINE Bad == {j \in 0 .. k : ~\E f : Upto(f, j)}
    <2> SUFFICES ASSUME Bad # {} PROVE FALSE
      OBVIOUS
    <2>1. PICK j \in Bad : \A b \in Bad : j <= b
      <3>1. Bad \in SUBSET Nat
        OBVIOUS
      <3> HIDE DEF Bad
      <3> QED
        BY <3>1, LeastExists
    <2>2. CASE j = 0
      <3>1. Upto([i \in 0 .. 0 |-> Null], 0)
        OBVIOUS
      <3> QED
        BY <3>1, <2>1, <2>2
    <2>3. CASE j # 0
      <3>1. j \in Nat /\ j - 1 \in 0 .. k /\ j - 1 \notin Bad
        <4>1. j \in 0 .. k /\ j - 1 \in 0 .. k /\ ~(j <= j - 1)
          BY <2>1, <2>3
        <4> HIDE DEF Bad
        <4> QED
          BY <4>1, <2>1
      <3>2. PICK f : Upto(f, j - 1)
        BY <3>1
      <3> DEFINE g == [i \in 0 .. j |-> IF i = j THEN N(j, f[j - 1]) ELSE f[i]]
      <3>3. \A i \in 0 .. j - 1 : g[i] = f[i]
        BY <3>1
      <3>4. g[j] = N(j, f[j - 1])
        BY <3>1
      <3> HIDE DEF g
      <3>5. \A i \in 1 .. j : g[i - 1] = f[i - 1]
        BY <3>1, <3>3
      <3>6. Upto(g, j)
        <4> TAKE i \in 0 .. j
        <4>1. CASE i = j
          BY <4>1, <3>1, <3>4, <3>5, <2>3
        <4>2. CASE i \in 0 .. j - 1
          BY <4>2, <3>1, <3>2, <3>3, <3>5
        <4> QED
          BY <4>1, <4>2, <3>1
      <3> QED
        BY <3>6, <2>1
    <2> QED
      BY <2>2, <2>3
  <1>3. \E f : Is(f)
    <2>1. PICK f : Upto(f, k)
      BY <1>2
    <2> DEFINE g == [i \in 0 .. k |-> f[i]]
    <2>2. \A i \in 0 .. k : g[i] = IF i = 0 THEN Null ELSE N(i, g[i - 1])
      BY <2>1
    <2> HIDE DEF N
    <2>3. g = [i \in 0 .. k |-> IF i = 0 THEN Null ELSE N(i, g[i - 1])]
      <3> DEFINE h == [i \in 0 .. k |-> IF i = 0 THEN Null ELSE N(i, g[i - 1])]
      <3>1. DOMAIN g = 0 .. k /\ DOMAIN h = 0 .. k
            /\ \A i \in 0 .. k : g[i] = h[i]
        BY <2>2
      <3>2. g = [i \in DOMAIN g |-> g[i]] /\ h = [i \in DOMAIN h |-> h[i]]
        OBVIOUS
      <3>3. g = h
        <4> HIDE DEF g, h
        <4> QED
          BY <3>1, <3>2
      <3> QED
        BY <3>3 DEF h
    <2> QED
      BY <2>3
  <1> DEFINE v == CHOOSE f : Is(f)
  <1>4. Is(v)
    BY <1>3
  <1> HIDE DEF v
  <1>5. /\ v[0] = Null /\ \A i \in 1 .. k : v[i] = N(i, v[i - 1])
    BY <1>4
  <1> QED
    BY <1>1, <1>5 DEF v, N, c

\* A data tree: its nodes are numbered, and the children of a node come after it.
LEMMA Numbered ==
    ASSUME NEW d, WellFormed(d)
    PROVE  /\ Len(d) \in Nat /\ DOMAIN d = 1 .. Len(d)
           /\ \A n \in DOMAIN d : d[n].parent \in 0 .. n - 1
           /\ \A n \in DOMAIN d : d[n].parent # 0 => d[n].parent \in DOMAIN d
           /\ \A n : Below(d, n) \in SUBSET DOMAIN d
           /\ \A n \in DOMAIN d : \A c \in Below(d, n) : n < c
  <1>1. d \in Seq({d[i] : i \in DOMAIN d})
    BY DEF WellFormed, IsSequence
  <1>2. Len(d) \in Nat /\ DOMAIN d = 1 .. Len(d)
    BY <1>1
  <1>3. \A n \in DOMAIN d : d[n].parent \in 0 .. n - 1
    BY DEF WellFormed
  <1>4. \A n \in DOMAIN d : d[n].parent # 0 => d[n].parent \in DOMAIN d
    BY <1>2, <1>3
  <1>5. \A n \in DOMAIN d : \A c \in Below(d, n) : n < c
    BY <1>2, <1>3 DEF Below
  <1> QED
    BY <1>2, <1>3, <1>4, <1>5 DEF Below

\* json_tree: a node's value is made of its children's.
LEMMA JsonUnfolds ==
    ASSUME NEW d, WellFormed(d), NEW n \in DOMAIN d
    PROVE  JsonTree(d, n) =
               Filled(d, n, [c \in Below(d, n) |-> JsonTree(d, c)])
  <1> DEFINE L == Len(d)
             V(i, f) == Filled(d, i, [c \in Below(d, i) |-> f[c]])
             From(f, j) == \A i \in j .. L : f[i] = V(i, f)
             Is(f) == f = [i \in DOMAIN d |-> V(i, f)]
             v == CHOOSE f : Is(f)
  <1>1. \A i : JsonTree(d, i) = v[i]
    BY DEF JsonTree
  <1>2. /\ L \in Nat /\ DOMAIN d = 1 .. L
        /\ \A i \in 1 .. L : \A c \in Below(d, i) : c \in i + 1 .. L
    BY Numbered
  <1>3. ASSUME NEW i \in 1 .. L, NEW f, NEW g, \A c \in i + 1 .. L : f[c] = g[c]
        PROVE  V(i, f) = V(i, g)
    <2>1. [c \in Below(d, i) |-> f[c]] = [c \in Below(d, i) |-> g[c]]
      BY <1>2, <1>3
    <2> QED
      BY <2>1
  <1> HIDE DEF V
  <1>4. \A j \in 1 .. L + 1 : \E f : From(f, j)
    <2> DEFINE Bad == {j \in 1 .. L + 1 : ~\E f : From(f, j)}
    <2> SUFFICES ASSUME Bad # {} PROVE FALSE
      OBVIOUS
    <2>1. PICK j \in Bad : \A b \in Bad : b <= j
      <3>1. Bad \in SUBSET (0 .. L + 1) /\ L + 1 \in Nat
        BY <1>2
      <3> HIDE DEF Bad
      <3> QED
        BY <3>1, GreatestExists
    <2>2. CASE j = L + 1
      <3>1. L + 1 .. L = {}
        BY <1>2
      <3>2. From(<<>>, L + 1)
        BY <3>1
      <3> QED
        BY <3>2, <2>1, <2>2
    <2>3. CASE j # L + 1
      <3>1. j \in 1 .. L /\ j + 1 \in 1 .. L + 1 /\ j + 1 \notin Bad
        <4>1. j \in 1 .. L /\ j + 1 \in 1 .. L + 1 /\ ~(j + 1 <= j)
          BY <1>2, <2>1, <2>3
        <4> HIDE DEF Bad
        <4> QED
          BY <4>1, <2>1
      <3>2. PICK f : From(f, j + 1)
        BY <3>1
      <3> DEFINE g == [i \in j .. L |-> IF i = j THEN V(j, f) ELSE f[i]]
      <3>3. g[j] = V(j, f) /\ \A i \in j + 1 .. L : g[i] = f[i]
        BY <1>2, <3>1
      <3> HIDE DEF g
      <3>4. ASSUME NEW i \in j .. L PROVE g[i] = V(i, g)
        <4>1. i \in 1 .. L /\ i + 1 .. L \subseteq j + 1 .. L
          BY <1>2, <3>1
        <4>2. V(i, f) = V(i, g)
          BY <1>3, <3>3, <4>1
        <4>3. i = j \/ i \in j + 1 .. L
          BY <1>2, <3>1
        <4> QED
          BY <3>2, <3>3, <4>2, <4>3
      <3> QED
        BY <3>4, <2>1
    <2> QED
      BY <2>2, <2>3
  <1>5. \E f : Is(f)
    <2>1. PICK f : From(f, 1)
      <3>1. 1 \in 1 .. L + 1
        BY <1>2
      <3> QED
        BY <3>1, <1>4
    <2> DEFINE g == [i \in DOMAIN d |-> V(i, f)]
    <2>2. \A i \in 1 .. L : g[i] = f[i]
      BY <1>2, <2>1
    <2>3. \A i \in 1 .. L : V(i, f) = V(i, g)
      <3> HIDE DEF g
      <3> TAKE i \in 1 .. L
      <3>1. i + 1 .. L \subseteq 1 .. L
        BY <1>2
      <3> QED
        BY <1>3, <2>2, <3>1
    <2>4. g = [i \in DOMAIN d |-> V(i, g)]
      <3> DEFINE h == [i \in DOMAIN d |-> V(i, g)]
      <3>1. g = h
        BY <1>2, <2>3
      <3> QED
        BY <3>1
    <2> QED
      BY <2>4
  <1>6. Is(v)
    BY <1>5
  <1> HIDE DEF v
  <1>7. v[n] = V(n, v)
    BY <1>6
  <1>8. [c \in Below(d, n) |-> v[c]] = [c \in Below(d, n) |-> JsonTree(d, c)]
    BY <1>1
  <1> QED
    BY <1>1, <1>7, <1>8 DEF V

\* Way: the way to a node is that to its parent and one step more.
LEMMA WayUnfolds ==
    ASSUME NEW d, WellFormed(d), NEW t, NEW n \in DOMAIN d
    PROVE  LET p == d[n].parent IN
           Way(d, t, n) = IF n = t THEN <<n>>
                          ELSE IF p = 0 THEN <<>>
                          ELSE IF Way(d, t, p) = <<>> THEN <<>>
                          ELSE Append(Way(d, t, p), n)
  <1> DEFINE L == Len(d)
             V(i, f) == IF i = t THEN <<i>>
                        ELSE IF d[i].parent = 0 THEN <<>>
                        ELSE IF f[d[i].parent] = <<>> THEN <<>>
                        ELSE Append(f[d[i].parent], i)
             Upto(f, j) == \A i \in 1 .. j : f[i] = V(i, f)
             Is(f) == f = [i \in DOMAIN d |-> V(i, f)]
             v == CHOOSE f : Is(f)
  <1>1. \A i : Way(d, t, i) = v[i]
    BY DEF Way
  <1>2. /\ L \in Nat /\ DOMAIN d = 1 .. L
        /\ \A i \in 1 .. L : d[i].parent \in 0 .. i - 1
    BY Numbered
  <1>3. ASSUME NEW i \in 1 .. L, NEW f, NEW g, \A p \in 1 .. i - 1 : f[p] = g[p]
        PROVE  V(i, f) = V(i, g)
    <2>1. d[i].parent # 0 => d[i].parent \in 1 .. i - 1
      BY <1>2
    <2> QED
      BY <1>3, <2>1
  <1> HIDE DEF V
  <1>4. \A j \in 0 .. L : \E f : Upto(f, j)
    <2> DEFINE Bad == {j \in 0 .. L : ~\E f : Upto(f, j)}
    <2> SUFFICES ASSUME Bad # {} PROVE FALSE
      OBVIOUS
    <2>1. PICK j \in Bad : \A b \in Bad : j <= b
      <3>1. Bad \in SUBSET Nat
        OBVIOUS
      <3> HIDE DEF Bad
      <3> QED
        BY <3>1, LeastExists
    <2>2. CASE j = 0
      <3>1. Upto(<<>>, 0)
        OBVIOUS
      <3> QED
        BY <3>1, <2>1, <2>2
    <2>3. CASE j # 0
      <3>1. j \in 1 .. L /\ j - 1 \in 0 .. L /\ j - 1 \notin Bad
        <4>1. j \in 1 .. L /\ j - 1 \in 0 .. L /\ ~(j <= j - 1)
          BY <1>2, <2>1, <2>3
        <4> HIDE DEF Bad
        <4> QED
          BY <4>1, <2>1
      <3>2. PICK f : Upto(f, j - 1)
        BY <3>1
      <3> DEFINE g == [i \in 1 .. j |-> IF i = j THEN V(j, f) ELSE f[i]]
      <3>3. g[j] = V(j, f) /\ \A i \in 1 .. j - 1 : g[i] = f[i]
        BY <1>2, <3>1
      <3> HIDE DEF g
      <3>4. ASSUME NEW i \in 1 .. j PROVE g[i] = V(i, g)
        <4>1. i \in 1 .. L /\ 1 .. i - 1 \subseteq 1 .. j - 1
          BY <1>2, <3>1
        <4>2. V(i, f) = V(i, g)
          BY <1>3, <3>3, <4>1
        <4>3. i = j \/ i \in 1 .. j - 1
          BY <1>2, <3>1
        <4> QED
          BY <3>2, <3>3, <4>2, <4>3
      <3> QED
        BY <3>4, <2>1
    <2> QED
      BY <2>2, <2>3
  <1>5. \E f : Is(f)
    <2>1. PICK f : Upto(f, L)
      <3>1. L \in 0 .. L
        BY <1>2
      <3> QED
        BY <3>1, <1>4
    <2> DEFINE g == [i \in DOMAIN d |-> V(i, f)]
    <2>2. \A i \in 1 .. L : g[i] = f[i]
      BY <1>2, <2>1
    <2>3. \A i \in 1 .. L : V(i, f) = V(i, g)
      <3> HIDE DEF g
      <3> TAKE i \in 1 .. L
      <3>1. 1 .. i - 1 \subseteq 1 .. L
        BY <1>2
      <3> QED
        BY <1>3, <2>2, <3>1
    <2>4. g = [i \in DOMAIN d |-> V(i, g)]
      <3> DEFINE h == [i \in DOMAIN d |-> V(i, g)]
      <3>1. g = h
        BY <1>2, <2>3
      <3> QED
        BY <3>1
    <2> QED
      BY <2>4
  <1>6. Is(v)
    BY <1>5
  <1> HIDE DEF v
  <1>7. v[n] = V(n, v)
    BY <1>6
  <1> QED
    BY <1>1, <1>7 DEF V

\* Reached: a step of the path leads to the children that it matches.
LEMMA ReachedUnfolds ==
    ASSUME NEW d, NEW xpath, Len(xpath) \in Nat
    PROVE  /\ Reached(d, xpath, 0) = {0}
           /\ \A i \in 1 .. Len(xpath) : \A n :
                n \in Reached(d, xpath, i) <=>
                    /\ n \in DOMAIN d /\ d[n].parent \in Reached(d, xpath, i - 1)
                    /\ Matches(d, n, xpath[i])
  <1> DEFINE k == Len(xpath)
             N(i, s) == {n \in DOMAIN d : d[n].parent \in s /\
                                          Matches(d, n, xpath[i])}
             Upto(f, j) == \A i \in 0 .. j :
                               f[i] = IF i = 0 THEN {0} ELSE N(i, f[i - 1])
             Is(f) == f = [i \in 0 .. k |-> IF i = 0 THEN {0} ELSE N(i, f[i - 1])]
             v == CHOOSE f : Is(f)
  <1>1. \A i : Reached(d, xpath, i) = v[i]
    BY DEF Reached
  <1> HIDE DEF N
  <1>2. \A j \in 0 .. k : \E f : Upto(f, j)
    <2> DEFINE Bad == {j \in 0 .. k : ~\E f : Upto(f, j)}
    <2> SUFFICES ASSUME Bad # {} PROVE FALSE
      OBVIOUS
    <2>1. PICK j \in Bad : \A b \in Bad : j <= b
      <3>1. Bad \in SUBSET Nat
        OBVIOUS
      <3> HIDE DEF Bad
      <3> QED
        BY <3>1, LeastExists
    <2>2. CASE j = 0
      <3>1. Upto([i \in 0 .. 0 |-> {0}], 0)
        OBVIOUS
      <3> QED
        BY <3>1, <2>1, <2>2
    <2>3. CASE j # 0
      <3>1. j \in Nat /\ j - 1 \in 0 .. k /\ j - 1 \notin Bad
        <4>1. j \in 0 .. k /\ j - 1 \in 0 .. k /\ ~(j <= j - 1)
          BY <2>1, <2>3
        <4> HIDE DEF Bad
        <4> QED
          BY <4>1, <2>1
      <3>2. PICK f : Upto(f, j - 1)
        BY <3>1
      <3> DEFINE g == [i \in 0 .. j |-> IF i = j THEN N(j, f[j - 1]) ELSE f[i]]
      <3>3. \A i \in 0 .. j - 1 : g[i] = f[i]
        BY <3>1
      <3>4. g[j] = N(j, f[j - 1])
        BY <3>1
      <3> HIDE DEF g
      <3>5. \A i \in 1 .. j : g[i - 1] = f[i - 1]
        BY <3>1, <3>3
      <3>6. Upto(g, j)
        <4> TAKE i \in 0 .. j
        <4>1. CASE i = j
          BY <4>1, <3>1, <3>4, <3>5, <2>3
        <4>2. CASE i \in 0 .. j - 1
          BY <4>2, <3>1, <3>2, <3>3, <3>5
        <4> QED
          BY <4>1, <4>2, <3>1
      <3> QED
        BY <3>6, <2>1
    <2> QED
      BY <2>2, <2>3
  <1>3. \E f : Is(f)
    <2>1. PICK f : Upto(f, k)
      BY <1>2
    <2> DEFINE g == [i \in 0 .. k |-> f[i]]
    <2>2. \A i \in 0 .. k : g[i] = IF i = 0 THEN {0} ELSE N(i, g[i - 1])
      BY <2>1
    <2>3. g = [i \in 0 .. k |-> IF i = 0 THEN {0} ELSE N(i, g[i - 1])]
      <3> DEFINE h == [i \in 0 .. k |-> IF i = 0 THEN {0} ELSE N(i, g[i - 1])]
      <3>1. DOMAIN g = 0 .. k /\ DOMAIN h = 0 .. k
            /\ \A i \in 0 .. k : g[i] = h[i]
        BY <2>2
      <3>2. g = [i \in DOMAIN g |-> g[i]] /\ h = [i \in DOMAIN h |-> h[i]]
        OBVIOUS
      <3>3. g = h
        <4> HIDE DEF g, h
        <4> QED
          BY <3>1, <3>2
      <3> QED
        BY <3>3 DEF h
    <2> QED
      BY <2>3
  <1>4. Is(v)
    BY <1>3
  <1> HIDE DEF v
  <1>5. \A i \in 0 .. k : v[i] = IF i = 0 THEN {0} ELSE N(i, v[i - 1])
    <2> TAKE i \in 0 .. k
    <2> QED
      BY <1>4, Zenon
  <1>6. v[0] = {0}
    BY <1>5
  <1>7. \A i \in 1 .. k : v[i] = N(i, v[i - 1])
    BY <1>5
  <1> QED
    BY <1>1, <1>6, <1>7 DEF N

\* The nodes that a path selects are listed in document order.
LEMMA SelectedOrdered ==
    ASSUME NEW d, WellFormed(d), NEW xpath, Len(xpath) \in Nat
    PROVE  LET S == Reached(d, xpath, Len(xpath)) \ {0} IN
           /\ S \in SUBSET DOMAIN d /\ S \in SUBSET (0 .. Len(d))
           /\ Len(d) \in Nat
           /\ Selected(d, xpath) = InOrder(S)
           /\ Selected(d, xpath) \in Seq(DOMAIN d)
  <1> DEFINE S == Reached(d, xpath, Len(xpath)) \ {0}
  <1>1. S \in SUBSET DOMAIN d
    <2>1. CASE Len(xpath) = 0
      BY <2>1, ReachedUnfolds
    <2>2. CASE Len(xpath) # 0
      <3>1. Len(xpath) \in 1 .. Len(xpath)
        BY <2>2
      <3> QED
        BY <3>1, ReachedUnfolds
    <2> QED
      BY <2>1, <2>2
  <1>2. S \in SUBSET (0 .. Len(d)) /\ Len(d) \in Nat
    BY <1>1, Numbered
  <1>3. Selected(d, xpath) = InOrder(S)
    BY DEF Selected
  <1>4. InOrder(S) \in Seq(DOMAIN d)
    <2> HIDE DEF S
    <2>1. InOrder(S) \in Seq(S)
      BY <1>2, Ordered
    <2> QED
      BY <1>1, <2>1
  <1> QED
    BY <1>1, <1>2, <1>3, <1>4

-----------------------------------------------------------------------------
(***************************************************************************)
(* The nodes within a tree, the ways to them, and their places.            *)
(***************************************************************************)

\* A way starts at the top of the tree, and goes on in document order.
LEMMA WayTyped ==
    ASSUME NEW d, WellFormed(d), NEW t \in DOMAIN d, NEW n \in DOMAIN d
    PROVE  /\ Way(d, t, n) \in Seq(DOMAIN d)
           /\ Way(d, t, n) # <<>> => Way(d, t, n)[1] = t /\ t <= n
  <1> DEFINE Good(i) == /\ Way(d, t, i) \in Seq(DOMAIN d)
                        /\ Way(d, t, i) # <<>> => Way(d, t, i)[1] = t /\ t <= i
             Bad == {i \in DOMAIN d : ~Good(i)}
  <1>1. /\ Len(d) \in Nat /\ DOMAIN d = 1 .. Len(d)
        /\ \A i \in DOMAIN d : d[i].parent \in 0 .. i - 1
        /\ \A i \in DOMAIN d : d[i].parent # 0 => d[i].parent \in DOMAIN d
    BY Numbered
  <1>2. SUFFICES ASSUME Bad # {} PROVE FALSE
    OBVIOUS
  <1>3. PICK i \in Bad : \A b \in Bad : i <= b
    <2>1. Bad \in SUBSET Nat
      BY <1>1
    <2> HIDE DEF Bad
    <2> QED
      BY <1>2, <2>1, LeastExists
  <1> DEFINE p == d[i].parent
  <1>4. i \in DOMAIN d /\ ~Good(i)
    BY <1>3
  <1>5. p # 0 => p \in DOMAIN d /\ p < i /\ Good(p)
    <2> SUFFICES ASSUME p # 0 PROVE p \in DOMAIN d /\ p < i /\ Good(p)
      OBVIOUS
    <2>1. p \in DOMAIN d /\ p < i /\ ~(i <= p)
      BY <1>1, <1>4
    <2>2. p \notin Bad
      <3> HIDE DEF Bad, p
      <3> QED
        BY <1>3, <2>1
    <2> QED
      BY <2>1, <2>2
  <1>6. Way(d, t, i) = IF i = t THEN <<i>>
                       ELSE IF p = 0 THEN <<>>
                       ELSE IF Way(d, t, p) = <<>> THEN <<>>
                       ELSE Append(Way(d, t, p), i)
    BY <1>4, WayUnfolds
  <1>7. CASE i = t
    BY <1>1, <1>4, <1>6, <1>7
  <1>8. CASE i # t /\ (p = 0 \/ Way(d, t, p) = <<>>)
    <2>1. Way(d, t, i) = <<>>
      BY <1>6, <1>8
    <2>2. <<>> \in Seq(DOMAIN d)
      OBVIOUS
    <2> QED
      BY <1>4, <2>1, <2>2
  <1>9. CASE i # t /\ p # 0 /\ Way(d, t, p) # <<>>
    <2>1. /\ Way(d, t, p) \in Seq(DOMAIN d) /\ Way(d, t, p)[1] = t
          /\ t <= p /\ p < i /\ p \in DOMAIN d
      BY <1>5, <1>9
    <2>2. Way(d, t, i) = Append(Way(d, t, p), i)
      BY <1>6, <1>9
    <2>3. Way(d, t, i) \in Seq(DOMAIN d)
      BY <1>4, <2>1, <2>2
    <2>4. Way(d, t, i)[1] = t
      BY <1>9, <2>1, <2>2
    <2>5. t <= i
      BY <1>1, <1>4, <2>1
    <2> QED
      BY <1>4, <2>3, <2>4, <2>5
  <1> QED
    BY <1>7, <1>8, <1>9

\* A tree is its top and the trees below it.
LEMMA WithinUnfolds ==
    ASSUME NEW d, WellFormed(d), NEW t \in DOMAIN d, NEW n \in DOMAIN d
    PROVE  n \in Within(d, t) <=>
               n = t \/ (d[n].parent # 0 /\ d[n].parent \in Within(d, t))
  <1> DEFINE p == d[n].parent
  <1>1. p # 0 => p \in DOMAIN d
    BY Numbered
  <1>2. Way(d, t, n) = IF n = t THEN <<n>>
                       ELSE IF p = 0 THEN <<>>
                       ELSE IF Way(d, t, p) = <<>> THEN <<>>
                       ELSE Append(Way(d, t, p), n)
    BY WayUnfolds
  <1>3. p # 0 => Append(Way(d, t, p), n) # <<>>
    <2> SUFFICES ASSUME p # 0 PROVE Append(Way(d, t, p), n) # <<>>
      OBVIOUS
    <2>1. Way(d, t, p) \in Seq(DOMAIN d)
      BY <1>1, WayTyped
    <2> QED
      BY <2>1
  <1>4. <<n>> # <<>>
    OBVIOUS
  <1> QED
    BY <1>1, <1>2, <1>3, <1>4 DEF Within

LEMMA WithinChild ==
    ASSUME NEW d, WellFormed(d), NEW t \in DOMAIN d,
           NEW n \in Within(d, t), n # t
    PROVE  \E c \in Below(d, t) : n \in Within(d, c)
  <1> DEFINE Good(i) == i \in Within(d, t) /\ i # t =>
                            \E c \in Below(d, t) : i \in Within(d, c)
             Bad == {i \in DOMAIN d : ~Good(i)}
  <1>1. /\ Len(d) \in Nat /\ DOMAIN d = 1 .. Len(d)
        /\ \A i \in DOMAIN d : d[i].parent \in 0 .. i - 1
        /\ Below(d, t) \in SUBSET DOMAIN d
    BY Numbered
  <1>2. SUFFICES ASSUME Bad # {} PROVE FALSE
    BY DEF Within
  <1>3. PICK i \in Bad : \A b \in Bad : i <= b
    <2>1. Bad \in SUBSET Nat
      BY <1>1
    <2> HIDE DEF Bad
    <2> QED
      BY <1>2, <2>1, LeastExists
  <1> DEFINE p == d[i].parent
  <1>4. i \in DOMAIN d /\ i \in Within(d, t) /\ i # t
        /\ \A c \in Below(d, t) : i \notin Within(d, c)
    BY <1>3
  <1>5. p # 0 /\ p \in Within(d, t) /\ p \in DOMAIN d
    BY <1>4, WithinUnfolds, Numbered
  <1>6. CASE p = t
    <2>1. i \in Below(d, t)
      BY <1>4, <1>6 DEF Below
    <2>2. i \in Within(d, i)
      BY <1>4, WithinUnfolds
    <2> QED
      BY <1>4, <2>1, <2>2
  <1>7. CASE p # t
    <2>1. p \notin Bad
      <3>1. ~(i <= p)
        BY <1>1, <1>4, <1>5
      <3> HIDE DEF Bad, p
      <3> QED
        BY <1>3, <3>1
    <2>2. PICK c \in Below(d, t) : p \in Within(d, c)
      BY <2>1, <1>5, <1>7
    <2>3. i \in Within(d, c)
      BY <1>1, <1>4, <1>5, <2>2, WithinUnfolds
    <2> QED
      BY <1>4, <2>3
  <1> QED
    BY <1>6, <1>7

\* The way to a node in the tree of a child goes through the child.
LEMMA WayDown ==
    ASSUME NEW d, WellFormed(d), NEW t \in DOMAIN d, NEW c \in Below(d, t),
           NEW n \in Within(d, c)
    PROVE  /\ Way(d, t, n) = <<t>> \o Way(d, c, n)
           /\ n \in Within(d, t) /\ n # t
  <1> DEFINE Good(i) == i \in Within(d, c) =>
                            Way(d, t, i) = <<t>> \o Way(d, c, i)
             Bad == {i \in DOMAIN d : ~Good(i)}
  <1>1. /\ Len(d) \in Nat /\ DOMAIN d = 1 .. Len(d)
        /\ \A i \in DOMAIN d : d[i].parent \in 0 .. i - 1
        /\ c \in DOMAIN d /\ t < c /\ d[c].parent = t
    BY Numbered DEF Below
  <1>2. \A i \in Within(d, c) : i \in DOMAIN d /\ c <= i /\ i # t
                                /\ Way(d, c, i) \in Seq(DOMAIN d)
                                /\ Way(d, c, i) # <<>>
    <2> TAKE i \in Within(d, c)
    <2>1. i \in DOMAIN d /\ Way(d, c, i) # <<>>
      BY DEF Within
    <2>2. c <= i /\ Way(d, c, i) \in Seq(DOMAIN d)
      BY <1>1, <2>1, WayTyped
    <2> QED
      BY <1>1, <2>1, <2>2
  <1>3. Bad = {}
    <2> SUFFICES ASSUME Bad # {} PROVE FALSE
      OBVIOUS
    <2>1. PICK i \in Bad : \A b \in Bad : i <= b
      <3>1. Bad \in SUBSET Nat
        BY <1>1
      <3> HIDE DEF Bad
      <3> QED
        BY <3>1, LeastExists
    <2> DEFINE p == d[i].parent
    <2>2. i \in DOMAIN d /\ i \in Within(d, c) /\ ~Good(i)
      BY <2>1
    <2>3. i # t /\ Way(d, c, i) \in Seq(DOMAIN d)
      BY <1>2, <2>2
    <2>4. CASE i = c
      <3>1. Way(d, t, t) = <<t>> /\ Way(d, c, c) = <<c>>
        BY <1>1, WayUnfolds
      <3>2. t # 0 /\ <<t>> # <<>>
        BY <1>1
      <3>3. Way(d, t, c) = Append(<<t>>, c)
        <4>1. Way(d, t, c) = IF c = t THEN <<c>>
                             ELSE IF t = 0 THEN <<>>
                             ELSE IF Way(d, t, t) = <<>> THEN <<>>
                             ELSE Append(Way(d, t, t), c)
          BY <1>1, WayUnfolds
        <4> QED
          BY <2>3, <2>4, <3>1, <3>2, <4>1
      <3>4. Append(<<t>>, c) = <<t>> \o <<c>>
        OBVIOUS
      <3> QED
        BY <2>2, <2>4, <3>1, <3>3, <3>4
    <2>5. CASE i # c
      <3>1. p # 0 /\ p \in Within(d, c) /\ p \in DOMAIN d
        BY <1>1, <2>2, <2>5, WithinUnfolds, Numbered
      <3>2. p \notin Bad
        <4>1. ~(i <= p)
          BY <1>1, <2>2, <3>1
        <4> HIDE DEF Bad, p
        <4> QED
          BY <2>1, <4>1
      <3> DEFINE w == Way(d, c, p)
      <3>3. Way(d, t, p) = <<t>> \o w
        BY <3>1, <3>2
      <3>4. w \in Seq(DOMAIN d) /\ w # <<>>
        BY <1>2, <3>1
      <3>5. Way(d, c, i) = Append(w, i)
        BY <1>1, <2>2, <2>5, <3>1, <3>4, WayUnfolds
      <3> HIDE DEF w
      <3>6. <<t>> \o w # <<>>
        BY <3>4
      <3>7. Way(d, t, i) = Append(<<t>> \o w, i)
        BY <2>2, <2>3, <3>1, <3>3, <3>6, WayUnfolds
      <3>8. Append(<<t>> \o w, i) = <<t>> \o Append(w, i)
        BY <2>2, <3>4
      <3> QED
        BY <2>2, <3>5, <3>7, <3>8
    <2> QED
      BY <2>4, <2>5
  <1>4. Way(d, t, n) = <<t>> \o Way(d, c, n)
    BY <1>2, <1>3
  <1>5. Way(d, t, n) # <<>>
    BY <1>2, <1>4
  <1> QED
    BY <1>2, <1>4, <1>5 DEF Within

\* Only inner nodes have anything below them.
LEMMA LeafAlone ==
    ASSUME NEW d, WellFormed(d), NEW n \in DOMAIN d, d[n].kind \notin Inner
    PROVE  Below(d, n) = {} /\ Within(d, n) = {n}
  <1>1. Below(d, n) = {}
    <2> SUFFICES ASSUME NEW c \in Below(d, n) PROVE FALSE
      OBVIOUS
    <2>1. c \in DOMAIN d /\ d[c].parent = n /\ n # 0
      BY Numbered DEF Below
    <2>2. d[d[c].parent].kind \in Inner
      BY <2>1 DEF WellFormed
    <2> QED
      BY <2>1, <2>2
  <1>2. n \in Within(d, n)
    BY WithinUnfolds
  <1>3. \A m \in Within(d, n) : m = n
    BY <1>1, WithinChild
  <1> QED
    BY <1>1, <1>2, <1>3

Steps(d) == {Step(d, n) : n \in DOMAIN d}

\* The place of a node in a tree: the step to a child, and its place in that.
LEMMA PlaceDown ==
    ASSUME NEW d, WellFormed(d), NEW t \in DOMAIN d, NEW c \in Below(d, t),
           NEW n \in Within(d, c)
    PROVE  Place(d, t, n) = <<Step(d, c)>> \o Place(d, c, n)
  <1> DEFINE w == Way(d, c, n)
             k == Len(w)
             p == Place(d, c, n)
  <1>1. c \in DOMAIN d /\ n \in DOMAIN d /\ w # <<>>
    BY Numbered DEF Within
  <1>2. w \in Seq(DOMAIN d) /\ w[1] = c
    BY <1>1, WayTyped
  <1>3. Way(d, t, n) = <<t>> \o w
    BY WayDown
  <1>4. Place(d, t, n) =
            [i \in 1 .. Len(<<t>> \o w) - 1 |-> Step(d, (<<t>> \o w)[i + 1])]
    BY <1>3 DEF Place
  <1>5. p = [i \in 1 .. k - 1 |-> Step(d, w[i + 1])]
    BY DEF Place
  <1> HIDE DEF w, p
  <1>6. /\ k \in Nat \ {0} /\ Len(<<t>> \o w) - 1 = k
        /\ \A i \in 1 .. k : (<<t>> \o w)[i + 1] = w[i]
        /\ \A i \in 1 .. k : w[i] \in DOMAIN d
    BY <1>1, <1>2
  <1>7. Place(d, t, n) = [i \in 1 .. k |-> Step(d, w[i])]
    BY <1>4, <1>6
  <1>8. \A i \in 1 .. k - 1 : p[i] = Step(d, w[i + 1])
    BY <1>5, <1>6
  <1>9. p \in Seq(Steps(d)) /\ Len(p) = k - 1
    <2>1. ASSUME NEW i \in 1 .. k - 1 PROVE Step(d, w[i + 1]) \in Steps(d)
      <3>1. w[i + 1] \in DOMAIN d
        BY <1>6
      <3> QED
        BY <3>1 DEF Steps
    <2> QED
      BY <1>5, <1>6, <2>1
  <1> DEFINE q == <<Step(d, c)>> \o p
  <1>10. q = [i \in 1 .. k |-> q[i]]
         /\ q[1] = Step(d, c) /\ \A i \in 2 .. k : q[i] = p[i - 1]
    <2>1. q \in Seq(Steps(d)) /\ Len(q) = k
      BY <1>1, <1>6, <1>9 DEF Steps
    <2> QED
      BY <1>6, <1>9, <2>1
  <1> HIDE DEF q
  <1>11. \A i \in 1 .. k : q[i] = Step(d, w[i])
    <2> TAKE i \in 1 .. k
    <2>1. CASE i = 1
      BY <1>2, <1>10, <2>1
    <2>2. CASE i \in 2 .. k
      <3>1. i - 1 \in 1 .. k - 1 /\ (i - 1) + 1 = i
        BY <1>6, <2>2
      <3>2. p[i - 1] = Step(d, w[i])
        BY <1>8, <3>1
      <3> QED
        BY <1>10, <2>2, <3>2
    <2> QED
      BY <1>6, <2>1, <2>2
  <1>12. q = [i \in 1 .. k |-> Step(d, w[i])]
    BY <1>10, <1>11
  <1> QED
    BY <1>7, <1>12 DEF q, p

LEMMA PlaceTyped ==
    ASSUME NEW d, WellFormed(d), NEW t \in DOMAIN d, NEW n \in Within(d, t)
    PROVE  Place(d, t, n) \in Seq(Steps(d))
  <1> DEFINE w == Way(d, t, n)
  <1>1. w \in Seq(DOMAIN d) /\ w # <<>>
    BY WayTyped DEF Within
  <1>2. Place(d, t, n) = [i \in 1 .. Len(w) - 1 |-> Step(d, w[i + 1])]
    BY DEF Place
  <1> HIDE DEF w
  <1>3. Len(w) - 1 \in Nat
        /\ \A i \in 1 .. Len(w) - 1 : Step(d, w[i + 1]) \in Steps(d)
    BY <1>1 DEF Steps
  <1> QED
    BY <1>2, <1>3

-----------------------------------------------------------------------------
(***************************************************************************)
(* What a tree should be shown as.                                         *)
(***************************************************************************)
Leaves(d, t) == {m \in Within(d, t) : d[m].kind \notin Inner}

Shown(d, t) ==
    {<<Place(d, t, n), <<Rfc7951[d[n].kind], d[n].value>>>> : n \in Leaves(d, t)}

\* An inner node is shown as its children, each below the step to it.
LEMMA ShownDown ==
    ASSUME NEW d, WellFormed(d), NEW t \in DOMAIN d, d[t].kind \in Inner
    PROVE  Shown(d, t) = UNION {At(Step(d, c), Shown(d, c)) : c \in Below(d, t)}
  <1> DEFINE v(n) == <<Rfc7951[d[n].kind], d[n].value>>
  <1>1. ASSUME NEW n \in Leaves(d, t)
        PROVE  \E c \in Below(d, t) :
                   <<Place(d, t, n), v(n)>> \in At(Step(d, c), Shown(d, c))
    <2>1. n \in Within(d, t) /\ n # t
      BY <1>1 DEF Leaves
    <2>2. PICK c \in Below(d, t) : n \in Within(d, c)
      BY <2>1, WithinChild
    <2>3. <<Place(d, c, n), v(n)>> \in Shown(d, c)
      BY <1>1, <2>2 DEF Shown, Leaves
    <2>4. Place(d, t, n) = <<Step(d, c)>> \o Place(d, c, n)
      BY <2>2, PlaceDown
    <2> HIDE DEF v
    <2>5. <<<<Step(d, c)>> \o Place(d, c, n), v(n)>> \in At(Step(d, c), Shown(d, c))
      BY <2>3 DEF At
    <2> QED
      BY <2>4, <2>5
  <1>2. ASSUME NEW c \in Below(d, t), NEW n \in Leaves(d, c)
        PROVE  <<<<Step(d, c)>> \o Place(d, c, n), v(n)>> \in Shown(d, t)
    <2>1. n \in Within(d, c)
      BY <1>2 DEF Leaves
    <2>2. Place(d, t, n) = <<Step(d, c)>> \o Place(d, c, n)
      BY <2>1, PlaceDown
    <2>3. n \in Leaves(d, t)
      BY <1>2, <2>1, WayDown DEF Leaves
    <2> QED
      BY <2>2, <2>3 DEF Shown
  <1>3. ASSUME NEW c \in Below(d, t), NEW e \in At(Step(d, c), Shown(d, c))
        PROVE  e \in Shown(d, t)
    <2>1. PICK f \in Shown(d, c) : e = <<<<Step(d, c)>> \o f[1], f[2]>>
      BY <1>3 DEF At
    <2>2. PICK n \in Leaves(d, c) : f = <<Place(d, c, n), v(n)>>
      BY <2>1 DEF Shown
    <2> QED
      BY <1>2, <2>1, <2>2
  <1>4. ASSUME NEW e \in Shown(d, t)
        PROVE  \E c \in Below(d, t) : e \in At(Step(d, c), Shown(d, c))
    <2>1. PICK n \in Leaves(d, t) : e = <<Place(d, t, n), v(n)>>
      BY <1>4 DEF Shown
    <2> QED
      BY <1>1, <2>1
  <1> QED
    BY <1>3, <1>4

LEMMA ShownLeaf ==
    ASSUME NEW d, WellFormed(d), NEW n \in DOMAIN d, d[n].kind \notin Inner
    PROVE  Shown(d, n) = {<<<<>>, <<Rfc7951[d[n].kind], d[n].value>>>>}
  <1>1. Leaves(d, n) = {n}
    BY LeafAlone DEF Leaves
  <1>2. Way(d, n, n) = <<n>>
    BY WayUnfolds
  <1>3. Place(d, n, n) = <<>>
    <2>1. Len(<<n>>) - 1 = 0 /\ 1 .. 0 = {}
      OBVIOUS
    <2> QED
      BY <1>2, <2>1 DEF Place
  <1> QED
    BY <1>1, <1>3 DEF Shown

\* Whatever is put below a step is at a place that begins with it.
LEMMA AtPlaces ==
    ASSUME NEW d, WellFormed(d), NEW c \in DOMAIN d, NEW s,
           NEW e \in At(s, Shown(d, c))
    PROVE  e[1][1] = s /\ e[1] # <<>> /\ e \notin Null
  <1>1. PICK f \in Shown(d, c) : e = <<<<s>> \o f[1], f[2]>>
    BY DEF At
  <1>2. PICK n \in Leaves(d, c) : f[1] = Place(d, c, n)
    BY <1>1 DEF Shown
  <1>3. f[1] \in Seq(Steps(d))
    BY <1>2, PlaceTyped DEF Leaves
  <1> DEFINE p == f[1]
  <1>4. p \in Seq(Steps(d)) /\ e[1] = <<s>> \o p
    BY <1>1, <1>3
  <1> HIDE DEF p
  <1>5. e[1][1] = s /\ e[1] # <<>>
    BY <1>4
  <1>6. e \in Null => e[1] = <<>>
    <2>1. \A x, y : <<x, y>>[1] = x
      OBVIOUS
    <2>2. e \in Null => e = <<<<>>, <<"null", "">>>>
      BY DEF Null
    <2> QED
      BY <2>1, <2>2
  <1> QED
    BY <1>5, <1>6

-----------------------------------------------------------------------------
(***************************************************************************)
(* What is put into the value of a node, child by child.                   *)
(***************************************************************************)

\* The children of t that are called what x is, and those before x.
Namesakes(d, t, x) == {c \in Below(d, t) : d[c].name = d[x].name}

Ahead(d, t, x) == {c \in Below(d, t) : c < x}

\* What the children before x are shown as.
Above(d, t, x) == UNION {At(Step(d, c), Shown(d, c)) : c \in Ahead(d, t, x)}

\* Every child holds a leaf.
AllShown(d, t) == \A c \in Below(d, t) : Shown(d, c) # {}

LEMMA PositionCounts ==
    ASSUME NEW d, WellFormed(d), NEW t \in DOMAIN d, NEW x \in Below(d, t)
    PROVE  Position(d, x) = Before(Namesakes(d, t, x), x) + 1
  <1> DEFINE S == Namesakes(d, t, x)
             T == {c \in S : c < x}
  <1>1. /\ Len(d) \in Nat /\ Below(d, t) \in SUBSET (0 .. Len(d))
        /\ d[x].parent = t /\ x \in Nat
    BY Numbered DEF Below
  <1>2. T \in SUBSET (0 .. Len(d)) /\ x \notin T
    BY <1>1 DEF Namesakes
  <1>3. IsFiniteSet(T)
    <2> HIDE DEF T
    <2> QED
      BY <1>1, <1>2, Finite
  <1>4. \A c \in Below(d, t) : c <= x <=> c < x \/ c = x
    BY <1>1
  <1>5. {c \in Below(d, d[x].parent) : d[c].name = d[x].name /\ c <= x} = T \cup {x}
    BY <1>1, <1>4 DEF Namesakes
  <1>6. Cardinality(T \cup {x}) = Cardinality(T) + 1
    <2> HIDE DEF T
    <2> QED
      BY <1>2, <1>3, FS_AddElement
  <1> QED
    BY <1>5, <1>6 DEF Position, Before

LEMMA AboveValues ==
    ASSUME NEW d, WellFormed(d), NEW t \in DOMAIN d, NEW x \in Below(d, t),
           NEW e \in Above(d, t, x)
    PROVE  /\ e \notin Null
           /\ \E c \in Ahead(d, t, x) :
                  e \in At(Step(d, c), Shown(d, c)) /\ e[1][1] = Step(d, c)
  <1>1. PICK c \in Ahead(d, t, x) : e \in At(Step(d, c), Shown(d, c))
    BY DEF Above
  <1>2. c \in DOMAIN d
    BY Numbered DEF Ahead
  <1> QED
    BY <1>1, <1>2, AtPlaces

\* The entries of a list are appended at their positions.
LEMMA AppendedAtPosition ==
    ASSUME NEW d, WellFormed(d), NEW t \in DOMAIN d, Followed(d, t),
           NEW x \in Below(d, t), d[x].kind = "list",
           AllShown(d, t),
           NEW val, val \ Null = Above(d, t, x)
    PROVE  Length(val, d[x].name) + 1 = Position(d, x)
  <1> DEFINE name == d[x].name
             S == Namesakes(d, t, x)
             T == {c \in S : c < x}
             E == {e[1][1] : e \in (val \ Null) \ Without(val, name)}
             f == [c \in T |-> Step(d, c)]
  <1>1. /\ Len(d) \in Nat /\ Below(d, t) \in SUBSET (0 .. Len(d))
        /\ Below(d, t) \subseteq DOMAIN d
    BY Numbered
  <1>2. S \in SUBSET (0 .. Len(d)) /\ T \in SUBSET (0 .. Len(d)) /\ T \subseteq S
        /\ T \subseteq Ahead(d, t, x) /\ S \subseteq Below(d, t)
    BY <1>1 DEF Namesakes, Ahead
  <1>3. \A c \in T : Step(d, c) = <<name, Before(S, c) + 1>>
    <2> TAKE c \in T
    <2>1. c \in Below(d, t) /\ d[c].name = name /\ c # x
      BY <1>1 DEF Namesakes
    <2>2. t \in Within(d, t)
      BY WithinUnfolds
    <2>3. d[c].kind = "list"
      BY <2>1, <2>2 DEF Followed
    <2>4. Namesakes(d, t, c) = S
      BY <2>1 DEF Namesakes
    <2>5. Position(d, c) = Before(S, c) + 1
      BY <2>1, <2>4, PositionCounts
    <2> QED
      BY <2>1, <2>3, <2>5 DEF Step
  <1>4. \A a, b \in T : Step(d, a) = Step(d, b) => a = b
    <2> HIDE DEF S, T
    <2> SUFFICES ASSUME NEW a \in T, NEW b \in T, a # b
                 PROVE  Step(d, a) # Step(d, b)
      OBVIOUS
    <2>1. a \in S /\ b \in S /\ (a < b \/ b < a)
      BY <1>1, <1>2
    <2>2. Before(S, a) \in Int /\ Before(S, b) \in Int
      <3>1. Cardinality(S) \in Nat
        BY <1>1, <1>2, Finite
      <3>2. /\ Before(S, a) \in 0 .. Cardinality(S) - 1
            /\ Before(S, b) \in 0 .. Cardinality(S) - 1
        BY <1>1, <1>2, <2>1, BeforeCounts
      <3> QED
        BY <3>1, <3>2
    <2>3. a < b => Before(S, a) < Before(S, b)
      BY <1>1, <1>2, <2>1, BeforeCounts
    <2>4. b < a => Before(S, b) < Before(S, a)
      BY <1>1, <1>2, <2>1, BeforeCounts
    <2>5. Before(S, a) + 1 # Before(S, b) + 1
      BY <2>1, <2>2, <2>3, <2>4
    <2> QED
      BY <1>3, <2>5
  <1>5. E = {Step(d, c) : c \in T}
    <2>1. ASSUME NEW e \in (val \ Null) \ Without(val, name)
          PROVE  \E c \in T : e[1][1] = Step(d, c)
      <3>1. e \in Above(d, t, x) /\ e[1][1][1] = name
        BY <2>1 DEF Without
      <3>2. PICK c \in Ahead(d, t, x) : e[1][1] = Step(d, c)
        BY <3>1, AboveValues
      <3>3. d[c].name = name
        BY <3>1, <3>2 DEF Step
      <3> QED
        BY <3>2, <3>3 DEF Ahead, Namesakes
    <2>2. ASSUME NEW c \in T
          PROVE  \E e \in (val \ Null) \ Without(val, name) : e[1][1] = Step(d, c)
      <3>1. c \in Ahead(d, t, x) /\ c \in Below(d, t) /\ c \in DOMAIN d
        BY <1>1, <1>2
      <3>2. PICK g : g \in Shown(d, c)
        BY <3>1 DEF AllShown
      <3> DEFINE e == <<<<Step(d, c)>> \o g[1], g[2]>>
      <3>3. e \in At(Step(d, c), Shown(d, c))
        BY <3>2 DEF At
      <3> HIDE DEF e
      <3>4. e \in Above(d, t, x) /\ e[1][1] = Step(d, c)
        BY <3>1, <3>3, AtPlaces DEF Above
      <3>5. e[1][1][1] = name
        BY <1>3, <3>4
      <3>6. e \in (val \ Null) \ Without(val, name)
        BY <3>4, <3>5 DEF Without
      <3> QED
        BY <3>4, <3>6
    <2> QED
      BY <2>1, <2>2
  <1>6. f \in Bijection(T, E)
    <2> HIDE DEF T, E
    <2>1. f \in [T -> E] /\ \A a, b \in T : f[a] = f[b] => a = b
      BY <1>4, <1>5
    <2>2. \A e \in E : \E c \in T : f[c] = e
      BY <1>5
    <2> QED
      BY <2>1, <2>2 DEF Bijection, Injection, Surjection, IsInjective
  <1>7. Cardinality(E) = Cardinality(T)
    <2>1. IsFiniteSet(T)
      <3> HIDE DEF T
      <3> QED
        BY <1>1, <1>2, Finite
    <2>2. ExistsBijection(T, E)
      BY <1>6 DEF ExistsBijection
    <2> HIDE DEF T, E
    <2> QED
      BY <2>1, <2>2, FS_Bijection
  <1>8. Length(val, name) = Cardinality(E) /\ Before(S, x) = Cardinality(T)
    BY DEF Length, Before
  <1> QED
    BY <1>7, <1>8, PositionCounts

\* The kinds that json_tree writes as RFC 7951 has them.
LEMMA FollowedKinds ==
    ASSUME NEW k
    PROVE  /\ k \in DOMAIN Rfc7951 =>
                 /\ k \in Scalar /\ k \notin Inner /\ k # "decimal64"
                 /\ Rfc7951[k] = JsonType(k)
           /\ k \in Inner => k \notin Scalar /\ k # "empty"
  BY DEF Rfc7951, Scalar, Inner, JsonType

\* One child more is put where RFC 7951 has it.
LEMMA PutNext ==
    ASSUME NEW d, WellFormed(d), NEW t \in DOMAIN d, Followed(d, t),
           AllShown(d, t), NEW x \in Below(d, t)
    PROVE  \A val, sub :
               /\ val \ Null = Above(d, t, x)
               /\ d[x].kind \in Inner => sub = Shown(d, x)
               => Put(val, d[x], sub) =
                      Above(d, t, x) \cup At(Step(d, x), Shown(d, x))
  <1> SUFFICES ASSUME NEW val, val \ Null = Above(d, t, x),
                      NEW sub, d[x].kind \in Inner => sub = Shown(d, x)
               PROVE  Put(val, d[x], sub) =
                          Above(d, t, x) \cup At(Step(d, x), Shown(d, x))
    OBVIOUS
  <1> DEFINE name == d[x].name
             kind == d[x].kind
  <1>1. x \in DOMAIN d /\ x \in Within(d, t) /\ x \in Nat
    <2>1. x \in DOMAIN d /\ d[x].parent = t /\ t # 0
      BY Numbered DEF Below
    <2>2. t \in Within(d, t)
      BY WithinUnfolds
    <2>3. x \in Within(d, t)
      BY <2>1, <2>2, WithinUnfolds
    <2> QED
      BY <2>1, <2>3, Numbered
  <1>2. kind \in DOMAIN Rfc7951 \/ kind \in Inner
    BY <1>1 DEF Followed
  <1>3. kind # "list" => Without(val, name) = Above(d, t, x)
    <2> SUFFICES ASSUME kind # "list", NEW e \in Above(d, t, x)
                 PROVE  e[1][1][1] # name
      BY DEF Without
    <2>1. PICK c \in Ahead(d, t, x) : e[1][1] = Step(d, c)
      BY AboveValues
    <2>2. c \in Below(d, t) /\ c # x
      BY <1>1 DEF Ahead
    <2>3. t \in Within(d, t)
      BY WithinUnfolds
    <2>4. d[c].name # name
      BY <2>2, <2>3 DEF Followed
    <2> QED
      BY <2>1, <2>4 DEF Step
  <1>4. CASE kind \in DOMAIN Rfc7951
    <2>1. /\ kind \in Scalar /\ kind \notin Inner
          /\ Rfc7951[kind] = JsonType(kind) /\ Text(d[x]) = d[x].value
      BY <1>4, FollowedKinds DEF Text
    <2>2. Shown(d, x) = {<<<<>>, <<JsonType(kind), d[x].value>>>>}
      BY <1>1, <2>1, ShownLeaf
    <2>3. Put(val, d[x], sub) =
              Assign(val, name, {<<<<>>, <<JsonType(kind), d[x].value>>>>})
      <3>1. kind # "empty" /\ kind # "list" /\ kind # "container"
        BY <2>1 DEF Scalar, Inner
      <3> QED
        BY <2>1, <3>1 DEF Put
    <2>4. kind # "list" /\ Step(d, x) = <<name, 0>>
      BY <2>1 DEF Step, Inner
    <2> QED
      BY <1>3, <2>2, <2>3, <2>4 DEF Assign
  <1>5. CASE kind = "container"
    <2>1. Put(val, d[x], sub) = Assign(val, name, sub)
      BY <1>5 DEF Put, Scalar
    <2>2. sub = Shown(d, x) /\ Step(d, x) = <<name, 0>>
      BY <1>5 DEF Inner, Step
    <2> QED
      BY <1>3, <1>5, <2>1, <2>2 DEF Assign
  <1>6. CASE kind = "list"
    <2>1. Put(val, d[x], sub) = AppendTo(val, name, sub)
      BY <1>6 DEF Put, Scalar
    <2>2. sub = Shown(d, x) /\ Step(d, x) = <<name, Position(d, x)>>
      BY <1>6 DEF Inner, Step
    <2>3. Length(val, name) + 1 = Position(d, x)
      BY <1>6, AppendedAtPosition
    <2> QED
      BY <2>1, <2>2, <2>3 DEF AppendTo
  <1> QED
    BY <1>2, <1>4, <1>5, <1>6 DEF Inner

\* All children put into a value make what the node should be shown as.
LEMMA FilledShows ==
    ASSUME NEW d, WellFormed(d), NEW t \in DOMAIN d, Followed(d, t),
           AllShown(d, t),
           NEW f, \A c \in Below(d, t) : d[c].kind \in Inner => f[c] = Shown(d, c)
    PROVE  Filled(d, t, f) = Shown(d, t) /\ Shown(d, t) # {}
  <1> DEFINE S == Below(d, t)
             c == Children(d, t)
             k == Len(c)
             V(i) == UNION {At(Step(d, c[j]), Shown(d, c[j])) : j \in 1 .. i}
  <1>1. Len(d) \in Nat /\ S \in SUBSET (0 .. Len(d)) /\ S \subseteq DOMAIN d
    BY Numbered
  <1>2. /\ k \in Nat /\ k = Cardinality(S)
        /\ \A i \in 1 .. k : c[i] \in S /\ Before(S, c[i]) = i - 1
        /\ \A n \in S : Before(S, n) + 1 \in 1 .. k /\ c[Before(S, n) + 1] = n
    <2>1. c = InOrder(S)
      BY DEF Children
    <2>2. Cardinality(S) \in Nat
      BY <1>1, Finite
    <2> HIDE DEF S, c
    <2> QED
      BY <1>1, <2>1, <2>2, Ordered
  <1>3. t \in Within(d, t) /\ d[t].kind \in Inner /\ S # {}
    <2>1. t \in Within(d, t)
      BY WithinUnfolds
    <2>2. d[t].kind \in Inner
      BY DEF Followed
    <2>3. d[t].kind \notin DOMAIN Rfc7951
      BY <2>2, FollowedKinds
    <2> QED
      BY <2>1, <2>2, <2>3 DEF Followed
  <1>4. k # 0
    BY <1>2, <1>3
  <1>5. \A i \in 1 .. k : Above(d, t, c[i]) = V(i - 1)
    <2> TAKE i \in 1 .. k
    <2>1. Ahead(d, t, c[i]) = {c[j] : j \in 1 .. i - 1}
      <3>1. ASSUME NEW j \in 1 .. i - 1 PROVE c[j] \in S /\ c[j] < c[i]
        <4>1. j \in 1 .. k /\ j - 1 < i - 1
          BY <1>2
        <4>2. /\ c[j] \in S /\ c[i] \in S
              /\ Before(S, c[j]) = j - 1 /\ Before(S, c[i]) = i - 1
          BY <1>2, <4>1
        <4>3. c[i] < c[j] => Before(S, c[i]) < Before(S, c[j])
          BY <1>1, <4>2, BeforeCounts
        <4>4. c[i] \in Nat /\ c[j] \in Nat
          BY <1>1, <4>2
        <4> QED
          BY <4>1, <4>2, <4>3, <4>4
      <3>2. ASSUME NEW n \in S, n < c[i] PROVE \E j \in 1 .. i - 1 : n = c[j]
        <4>1. Before(S, n) < Before(S, c[i]) /\ Before(S, c[i]) = i - 1
          BY <1>1, <1>2, <3>2, BeforeCounts
        <4>2. Before(S, n) + 1 \in 1 .. k /\ c[Before(S, n) + 1] = n
          BY <1>2
        <4>3. Before(S, n) \in Nat
          <5>1. Before(S, n) \in 0 .. Cardinality(S) - 1
            BY <1>1, BeforeCounts
          <5> QED
            BY <1>2, <5>1
        <4>4. Before(S, n) + 1 \in 1 .. i - 1
          BY <4>1, <4>3
        <4> QED
          BY <4>2, <4>4
      <3> QED
        BY <3>1, <3>2 DEF Ahead
    <2> QED
      BY <2>1 DEF Above
  <1>6. \A i \in 1 .. k : V(i) = V(i - 1) \cup At(Step(d, c[i]), Shown(d, c[i]))
    <2> TAKE i \in 1 .. k
    <2>1. 1 .. i = (1 .. i - 1) \cup {i}
      BY <1>2
    <2> QED
      BY <2>1
  <1>7. \A i \in 0 .. k : V(i) \ Null = V(i)
    <2> TAKE i \in 0 .. k
    <2> SUFFICES ASSUME NEW e \in V(i) PROVE e \notin Null
      OBVIOUS
    <2>1. PICK j \in 1 .. i : e \in At(Step(d, c[j]), Shown(d, c[j]))
      OBVIOUS
    <2>2. c[j] \in DOMAIN d
      BY <1>1, <1>2
    <2> QED
      BY <2>1, <2>2, AtPlaces
  <1>8. V(0) = {}
    OBVIOUS
  <1>9. V(k) = Shown(d, t)
    <2>1. {At(Step(d, c[j]), Shown(d, c[j])) : j \in 1 .. k} =
          {At(Step(d, n), Shown(d, n)) : n \in S}
      BY <1>2
    <2> QED
      BY <1>3, <2>1, ShownDown
  <1>10. PICK val : /\ val[0] = Null
                    /\ \A i \in 1 .. k :
                           val[i] = Put(val[i - 1], d[c[i]], f[c[i]])
                    /\ Filled(d, t, f) = val[k]
    <2>1. Len(Children(d, t)) \in Nat
      BY <1>2
    <2>2. LET c1 == Children(d, t) IN
          \E val : /\ val[0] = Null
                   /\ \A i \in 1 .. Len(c1) :
                          val[i] = Put(val[i - 1], d[c1[i]], f[c1[i]])
                   /\ Filled(d, t, f) = val[Len(c1)]
      BY <2>1, FilledUnfolds
    <2> QED
      BY <2>2
  <1> HIDE DEF V, c
  <1> DEFINE Good(i) == /\ val[i] \ Null = V(i)
                        /\ i # 0 => val[i] = V(i)
             Bad == {i \in 0 .. k : ~Good(i)}
  <1>11. Bad = {}
    <2> SUFFICES ASSUME Bad # {} PROVE FALSE
      OBVIOUS
    <2>1. PICK i \in Bad : \A b \in Bad : i <= b
      <3>1. Bad \in SUBSET Nat
        OBVIOUS
      <3> HIDE DEF Bad
      <3> QED
        BY <3>1, LeastExists
    <2>2. i \in 0 .. k /\ ~Good(i)
      BY <2>1
    <2>3. CASE i = 0
      BY <1>8, <1>10, <2>2, <2>3
    <2>4. CASE i # 0
      <3>1. i \in 1 .. k /\ i - 1 \in 0 .. k /\ ~(i <= i - 1)
        BY <1>2, <2>2, <2>4
      <3>2. i - 1 \notin Bad
        <4> HIDE DEF Bad
        <4> QED
          BY <2>1, <3>1
      <3>3. val[i - 1] \ Null = Above(d, t, c[i])
        BY <1>5, <3>1, <3>2
      <3>4. c[i] \in Below(d, t)
        BY <1>2, <3>1
      <3>5. Put(val[i - 1], d[c[i]], f[c[i]]) =
                Above(d, t, c[i]) \cup At(Step(d, c[i]), Shown(d, c[i]))
        <4>1. \A x \in Below(d, t) : \A v, g :
                  /\ v \ Null = Above(d, t, x)
                  /\ d[x].kind \in Inner => g = Shown(d, x)
                  => Put(v, d[x], g) =
                         Above(d, t, x) \cup At(Step(d, x), Shown(d, x))
          BY PutNext
        <4>2. d[c[i]].kind \in Inner => f[c[i]] = Shown(d, c[i])
          BY <3>4
        <4> QED
          BY <3>3, <3>4, <4>1, <4>2
      <3>6. val[i] = V(i)
        BY <1>5, <1>6, <1>10, <3>1, <3>5
      <3> QED
        BY <1>7, <2>2, <3>6
    <2> QED
      BY <2>3, <2>4
  <1>12. Filled(d, t, f) = Shown(d, t)
    BY <1>2, <1>4, <1>9, <1>10, <1>11
  <1>13. Shown(d, t) # {}
    <2>1. PICK n \in S : TRUE
      BY <1>3
    <2>2. PICK g : g \in Shown(d, n)
      BY <2>1 DEF AllShown
    <2>3. <<<<Step(d, n)>> \o g[1], g[2]>> \in At(Step(d, n), Shown(d, n))
      BY <2>2 DEF At
    <2>4. Shown(d, t) = UNION {At(Step(d, m), Shown(d, m)) : m \in S}
      BY <1>3, ShownDown
    <2> QED
      BY <2>1, <2>3, <2>4
  <1> QED
    BY <1>12, <1>13

LEMMA FollowedDown ==
    ASSUME NEW d, WellFormed(d), NEW t \in DOMAIN d, Followed(d, t),
           NEW c \in Below(d, t), d[c].kind \in Inner
    PROVE  Followed(d, c)
  <1>1. Within(d, c) \subseteq Within(d, t)
    BY WayDown
  <1> QED
    BY <1>1 DEF Followed

\* Every leaf has a place in a tree that json_tree writes as RFC 7951 has it.
LEMMA JsonShown ==
    ASSUME NEW d, WellFormed(d), NEW t \in DOMAIN d, Followed(d, t)
    PROVE  JsonTree(d, t) = Shown(d, t)
  <1> DEFINE Good(n) == Followed(d, n) => /\ JsonTree(d, n) = Shown(d, n)
                                          /\ Shown(d, n) # {}
             Bad == {n \in DOMAIN d : ~Good(n)}
  <1>1. Len(d) \in Nat /\ DOMAIN d = 1 .. Len(d)
    BY Numbered
  <1>2. Bad = {}
    <2> SUFFICES ASSUME Bad # {} PROVE FALSE
      OBVIOUS
    <2>1. PICK n \in Bad : \A b \in Bad : b <= n
      <3>1. Bad \in SUBSET (0 .. Len(d))
        BY <1>1
      <3> HIDE DEF Bad
      <3> QED
        BY <1>1, <3>1, GreatestExists
    <2>2. n \in DOMAIN d /\ Followed(d, n) /\ ~Good(n)
      BY <2>1
    <2>3. \A c \in Below(d, n) : c \in DOMAIN d /\ Good(c)
      <3> TAKE c \in Below(d, n)
      <3>1. c \in DOMAIN d /\ n < c /\ c \in Nat /\ n \in Nat
        BY <1>1, <2>2, Numbered
      <3>2. c \notin Bad
        <4> HIDE DEF Bad
        <4> QED
          BY <2>1, <3>1
      <3> QED
        BY <3>1, <3>2
    <2> DEFINE f == [c \in Below(d, n) |-> JsonTree(d, c)]
    <2>4. \A c \in Below(d, n) :
              d[c].kind \in Inner => f[c] = Shown(d, c) /\ Shown(d, c) # {}
      BY <2>2, <2>3, FollowedDown
    <2>5. AllShown(d, n)
      <3>1. ASSUME NEW c \in Below(d, n), d[c].kind \notin Inner
            PROVE  Shown(d, c) # {}
        <4>1. Shown(d, c) = {<<<<>>, <<Rfc7951[d[c].kind], d[c].value>>>>}
          BY <2>3, <3>1, ShownLeaf
        <4> QED
          BY <4>1
      <3> QED
        BY <2>4, <3>1 DEF AllShown
    <2>6. JsonTree(d, n) = Filled(d, n, f)
      BY <2>2, JsonUnfolds
    <2>7. Filled(d, n, f) = Shown(d, n) /\ Shown(d, n) # {}
      <3>1. \A c \in Below(d, n) : d[c].kind \in Inner => f[c] = Shown(d, c)
        BY <2>4
      <3> HIDE DEF f
      <3> QED
        BY <2>2, <2>5, <3>1, FilledShows
    <2> QED
      BY <2>2, <2>6, <2>7
  <1>3. Good(t)
    <2> HIDE DEF Good
    <2> QED
      BY <1>2
  <1> QED
    BY <1>3

-----------------------------------------------------------------------------
(***************************************************************************)
(* Reading: what is there at each point of a request.                      *)
(***************************************************************************)
Wanted == Selected(data, FullPath(request))

\* Every result is the JSON of its tree.
ResultsOK ==
    /\ IsSequence(json_vec) /\ Len(json_vec) <= Len(trees)
    /\ \A i \in 1 .. Len(json_vec) : json_vec[i].data = JsonTree(data, trees[i])

\* After those of Opened, every Update holds the result it was made from.
UpdatesOK ==
    /\ IsSequence(updates) /\ Len(updates) <= Len(json_vec) + Len(Opened)
    /\ \A i \in 1 .. Len(updates) : IsPath(updates[i].path)
    /\ \A i \in 1 .. Len(updates) - Len(Opened) :
           updates[i + Len(Opened)].value = json_vec[i].data

\* The steps are taken in turn.
PhaseOK ==
    /\ outcome \in {"select", "read", "update"} \cup Status
    /\ outcome = "select" => trees = <<>> /\ json_vec = <<>> /\ updates = <<>>
    /\ outcome # "select" => Len(updates) >= Len(Opened)
    /\ outcome \in {"read", "update", "OK"} => trees = Wanted
    /\ outcome \in {"update", "OK"} => Len(json_vec) = Len(trees)
    /\ outcome = "OK" => Len(updates) = Len(json_vec) + Len(Opened)

ReadInv ==
    /\ data \in Data /\ request \in Request
    /\ trees \in {<<>>, Wanted}
    /\ ResultsOK /\ UpdatesOK /\ PhaseOK

LEMMA MadeSequence ==
    ASSUME NEW n \in Nat, NEW s, s = [i \in 1 .. n |-> s[i]]
    PROVE  IsSequence(s) /\ Len(s) = n
  <1> DEFINE R == {s[i] : i \in DOMAIN s}
  <1>1. s \in [1 .. n -> R]
    <2>1. DOMAIN s = 1 .. n
      OBVIOUS
    <2>2. \A i \in 1 .. n : s[i] \in R
      BY <2>1
    <2> HIDE DEF R
    <2> QED
      BY <2>2
  <1>2. s \in Seq(R) /\ Len(s) = n
    <2> HIDE DEF R
    <2> QED
      BY <1>1
  <1> QED
    BY <1>2 DEF IsSequence

LEMMA Appended ==
    ASSUME NEW s, IsSequence(s), NEW e
    PROVE  /\ Len(s) \in Nat /\ DOMAIN s = 1 .. Len(s)
           /\ IsSequence(Append(s, e)) /\ Len(Append(s, e)) = Len(s) + 1
           /\ \A i \in 1 .. Len(s) : Append(s, e)[i] = s[i]
           /\ Append(s, e)[Len(s) + 1] = e
  <1> DEFINE R == {s[i] : i \in DOMAIN s}
             t == Append(s, e)
  <1>1. s \in Seq(R)
    BY DEF IsSequence
  <1>2. Len(s) \in Nat /\ DOMAIN s = 1 .. Len(s)
    <2> HIDE DEF R
    <2> QED
      BY <1>1
  <1>3. /\ t \in Seq(R \cup {e}) /\ Len(t) = Len(s) + 1
        /\ \A i \in 1 .. Len(s) : t[i] = s[i]
        /\ t[Len(s) + 1] = e
    <2>1. s \in Seq(R \cup {e}) /\ e \in R \cup {e}
      <3> HIDE DEF R
      <3> QED
        BY <1>1
    <2> HIDE DEF R
    <2> QED
      BY <2>1
  <1>4. t = [i \in 1 .. Len(s) + 1 |-> t[i]]
    <2> HIDE DEF R, t
    <2> QED
      BY <1>3
  <1>5. IsSequence(t)
    <2> HIDE DEF t
    <2> QED
      BY <1>2, <1>4, MadeSequence
  <1> QED
    BY <1>2, <1>3, <1>5

\* The parts of a path.
LEMMA PathTyped ==
    ASSUME NEW p, IsPath(p)
    PROVE  /\ Len(p.elem) \in Nat /\ DOMAIN p.elem = 1 .. Len(p.elem)
           /\ ToXPath(p) \in Seq({ToXPath(p)[i] : i \in 1 .. Len(p.elem)})
           /\ Len(ToXPath(p)) = Len(p.elem)
  <1>1. Len(p.elem) \in Nat /\ DOMAIN p.elem = 1 .. Len(p.elem)
    BY Appended DEF IsPath
  <1> DEFINE x == ToXPath(p)
  <1>2. /\ x = [i \in 1 .. Len(p.elem) |-> x[i]]
        /\ \A i \in 1 .. Len(p.elem) : x[i] \in {x[j] : j \in 1 .. Len(p.elem)}
    BY <1>1 DEF ToXPath
  <1>3. Len(x) = Len(p.elem)
    <2> HIDE DEF x
    <2> QED
      BY <1>1, <1>2
  <1>4. x \in Seq({x[i] : i \in 1 .. Len(p.elem)})
    <2> DEFINE R == {x[i] : i \in 1 .. Len(p.elem)}
    <2>1. x \in [1 .. Len(p.elem) -> R]
      BY <1>2
    <2> HIDE DEF x, R
    <2> QED
      BY <1>1, <2>1
  <1> QED
    BY <1>1, <1>3, <1>4

LEMMA FullPathTyped ==
    ASSUME NEW r \in Request
    PROVE  Len(FullPath(r)) \in Nat
  <1>1. IsPath(r.prefix) /\ IsPath(r.path)
    BY Inputs
  <1> DEFINE a == ToXPath(r.prefix)
             b == ToXPath(r.path)
             A == {a[i] : i \in 1 .. Len(r.prefix.elem)}
             B == {b[i] : i \in 1 .. Len(r.path.elem)}
  <1>2. /\ a \in Seq(A) /\ b \in Seq(B)
        /\ Len(a) \in Nat /\ Len(b) \in Nat
    BY <1>1, PathTyped
  <1>3. a \in Seq(A \cup B) /\ b \in Seq(A \cup B)
    <2> HIDE DEF a, b, A, B
    <2> QED
      BY <1>2
  <1>4. Len(a \o b) \in Nat
    <2> HIDE DEF a, b, A, B
    <2> QED
      BY <1>2, <1>3
  <1> QED
    BY <1>2, <1>4 DEF FullPath

LEMMA WantedTyped ==
    ASSUME data \in Data, request \in Request
    PROVE  /\ WellFormed(data) /\ Len(FullPath(request)) \in Nat
           /\ Wanted \in Seq(DOMAIN data)
           /\ Len(Wanted) \in Nat /\ DOMAIN Wanted = 1 .. Len(Wanted)
           /\ \A i \in DOMAIN Wanted : Wanted[i] \in DOMAIN data
  <1>1. WellFormed(data)
    BY Inputs
  <1>2. Len(FullPath(request)) \in Nat
    BY FullPathTyped
  <1>3. Wanted \in Seq(DOMAIN data)
    BY <1>1, <1>2, SelectedOrdered DEF Wanted
  <1> QED
    BY <1>1, <1>2, <1>3

\* The key goes into an element that is there.
LEMMA KeyedPath ==
    ASSUME NEW p, IsPath(p), NEW k
    PROVE  IsPath(Keyed(p, k))
  <1> SUFFICES ASSUME k[1] # "" PROVE IsPath(Keyed(p, k))
    BY DEF Keyed
  <1> DEFINE n == Len(p.elem)
             q == Keyed(p, k)
             v == WithKey(p.elem[n].key, k)
  <1>1. n \in Nat /\ DOMAIN p.elem = 1 .. n /\ DOMAIN p = {"origin", "elem"}
    BY PathTyped DEF IsPath
  <1>2. q = [p EXCEPT !.elem[n].key = v]
    BY DEF Keyed
  <1> HIDE DEF v, q
  <1>3. /\ DOMAIN q = DOMAIN p /\ DOMAIN q.elem = 1 .. n
        /\ \A i \in 1 .. n : DOMAIN q.elem[i] = {"name", "key"}
    <2>1. \A i \in 1 .. n : DOMAIN p.elem[i] = {"name", "key"}
      BY <1>1 DEF IsPath
    <2> HIDE DEF n
    <2> QED
      BY <1>1, <1>2, <2>1
  <1>4. q.elem = [i \in 1 .. n |-> q.elem[i]]
    <2>1. q.elem = [p.elem EXCEPT ![n].key = v]
      BY <1>1, <1>2
    <2> HIDE DEF n
    <2> QED
      BY <1>1, <2>1
  <1>5. IsSequence(q.elem)
    <2> HIDE DEF n
    <2> QED
      BY <1>1, <1>4, MadeSequence
  <1> QED
    BY <1>1, <1>3, <1>5 DEF IsPath, q

LEMMA OpenedTyped ==
    ASSUME request \in Request
    PROVE  /\ IsSequence(Opened) /\ Len(Opened) \in {0, 1}
           /\ \A i \in 1 .. Len(Opened) : IsPath(Opened[i].path)
  <1>1. IsPath(request.path)
    BY Inputs
  <1>2. CASE request.rpc = "Subscribe"
    <2> DEFINE u == Update(request.path, NoData)
    <2>1. Opened = <<u>> /\ u.path = request.path
      BY <1>2 DEF Opened, Update
    <2> HIDE DEF u
    <2>2. IsSequence(<<u>>) /\ Len(<<u>>) = 1
      <3>1. <<u>> = [i \in 1 .. 1 |-> <<u>>[i]]
        OBVIOUS
      <3> QED
        BY <3>1, MadeSequence
    <2>3. \A i \in 1 .. 1 : <<u>>[i] = u
      OBVIOUS
    <2> QED
      BY <1>1, <2>1, <2>2, <2>3
  <1>3. CASE request.rpc # "Subscribe"
    <2>1. Opened = <<>>
      BY <1>3 DEF Opened
    <2>2. IsSequence(<<>>) /\ Len(<<>>) = 0
      <3>1. <<>> = [i \in 1 .. 0 |-> <<>>[i]]
        OBVIOUS
      <3> QED
        BY <3>1, MadeSequence
    <2> QED
      BY <2>1, <2>2
  <1> QED
    BY <1>2, <1>3

LEMMA ReadStarts == Init => ReadInv
  <1> SUFFICES ASSUME Init PROVE ReadInv
    OBVIOUS
  <1>1. /\ data \in Data /\ request \in Request
        /\ trees = <<>> /\ json_vec = <<>> /\ updates = <<>>
        /\ outcome = "select"
    BY DEF Init
  <1>2. IsSequence(<<>>) /\ Len(<<>>) = 0
    <2>1. <<>> = [i \in 1 .. 0 |-> <<>>[i]]
      OBVIOUS
    <2> QED
      BY <2>1, MadeSequence
  <1>3. Len(Opened) \in {0, 1}
    BY <1>1, OpenedTyped
  <1>4. ResultsOK
    BY <1>1, <1>2 DEF ResultsOK
  <1>5. UpdatesOK
    BY <1>1, <1>2, <1>3 DEF UpdatesOK
  <1>6. PhaseOK
    BY <1>1 DEF PhaseOK
  <1> QED
    BY <1>1, <1>4, <1>5, <1>6 DEF ReadInv

\* A step that only settles the outcome.
LEMMA Settled ==
    ASSUME ReadInv, outcome # "select", NEW s, Return(s), updates' = updates,
           s \in {"update"} \cup Status,
           s \in {"update", "OK"} => trees = Wanted /\ Len(json_vec) = Len(trees),
           s = "OK" => Len(updates) = Len(json_vec) + Len(Opened)
    PROVE  ReadInv'
  <1>1. /\ outcome' = s /\ data' = data /\ request' = request
        /\ trees' = trees /\ json_vec' = json_vec
    BY DEF Return
  <1>2. Wanted' = Wanted /\ Opened' = Opened
    BY <1>1 DEF Wanted, Opened
  <1>3. ResultsOK' /\ UpdatesOK'
    BY <1>1, <1>2 DEF ReadInv, ResultsOK, UpdatesOK
  <1>4. s # "select" /\ s # "read"
    BY DEF Status
  <1>5. PhaseOK'
    BY <1>1, <1>2, <1>4 DEF ReadInv, PhaseOK
  <1> QED
    BY <1>1, <1>2, <1>3, <1>5 DEF ReadInv

LEMMA SelectKeeps ==
    ASSUME ReadInv, Select
    PROVE  ReadInv'
  <1>1. /\ data \in Data /\ request \in Request
        /\ trees = <<>> /\ json_vec = <<>> /\ updates' = Opened
    BY DEF ReadInv, PhaseOK, Select
  <1>2. data' = data /\ request' = request /\ json_vec' = json_vec
    BY DEF Select, Return
  <1>3. \/ trees' = trees /\ outcome' \in {"INVALID_ARGUMENT", "NOT_FOUND"}
        \/ trees' = Wanted /\ outcome' = "read"
    BY DEF Select, Return, Wanted
  <1>4. Wanted' = Wanted /\ Opened' = Opened
    BY <1>2 DEF Wanted, Opened
  <1>5. /\ IsSequence(Opened) /\ Len(Opened) \in {0, 1}
        /\ \A i \in 1 .. Len(Opened) : IsPath(Opened[i].path)
    BY <1>1, OpenedTyped
  <1>6. Len(json_vec) = 0 /\ Len(trees') \in Nat /\ IsSequence(json_vec)
    <2>1. Len(Wanted) \in Nat
      BY <1>1, WantedTyped
    <2> QED
      BY <1>1, <1>3, <2>1 DEF ReadInv, ResultsOK
  <1>7. ResultsOK'
    BY <1>2, <1>6 DEF ResultsOK
  <1>8. UpdatesOK'
    BY <1>1, <1>2, <1>4, <1>5, <1>6 DEF UpdatesOK
  <1>9. PhaseOK'
    BY <1>1, <1>3, <1>4, <1>5 DEF PhaseOK, Status
  <1> QED
    BY <1>1, <1>2, <1>3, <1>4, <1>7, <1>8, <1>9 DEF ReadInv

LEMMA ReadTreeKeeps ==
    ASSUME ReadInv, ReadTree
    PROVE  ReadInv'
  <1> DEFINE r == [data |-> JsonTree(data, Tree), key |-> key']
  <1>1. /\ outcome = "read" /\ outcome' = outcome /\ trees = Wanted
        /\ Len(json_vec) < Len(trees) /\ json_vec' = Append(json_vec, r)
        /\ data' = data /\ request' = request /\ trees' = trees
        /\ updates' = updates
    BY DEF ReadTree, Reading, ReadInv, PhaseOK
  <1>2. Wanted' = Wanted /\ Opened' = Opened
    BY <1>1 DEF Wanted, Opened
  <1>3. Len(trees) \in Nat
    BY <1>1, WantedTyped DEF ReadInv
  <1>4. r.data = JsonTree(data, trees[Len(json_vec) + 1])
    BY DEF Tree
  <1>5. /\ Len(json_vec) \in Nat
        /\ IsSequence(json_vec') /\ Len(json_vec') = Len(json_vec) + 1
        /\ \A i \in 1 .. Len(json_vec) : json_vec'[i] = json_vec[i]
        /\ json_vec'[Len(json_vec) + 1] = r
    <2> HIDE DEF r
    <2> QED
      BY <1>1, Appended DEF ReadInv, ResultsOK
  <1> HIDE DEF r
  <1>6. ResultsOK'
    <2>1. \A i \in 1 .. Len(json_vec) + 1 :
              i \in 1 .. Len(json_vec) \/ i = Len(json_vec) + 1
      BY <1>5
    <2>2. \A i \in 1 .. Len(json_vec) + 1 :
              json_vec'[i].data = JsonTree(data, trees[i])
      BY <1>4, <1>5, <2>1 DEF ReadInv, ResultsOK
    <2>3. Len(json_vec) + 1 <= Len(trees)
      BY <1>1, <1>3, <1>5
    <2> QED
      BY <1>1, <1>5, <2>2, <2>3 DEF ResultsOK
  <1>7. UpdatesOK'
    <2>1. Len(updates) \in Nat /\ Len(Opened) \in {0, 1}
      BY OpenedTyped, Appended DEF ReadInv, UpdatesOK
    <2>2. Len(updates) - Len(Opened) <= Len(json_vec)
      BY <1>5, <2>1 DEF ReadInv, UpdatesOK
    <2>3. \A i \in 1 .. Len(updates) - Len(Opened) : json_vec'[i] = json_vec[i]
      BY <1>5, <2>1, <2>2
    <2>4. Len(updates) <= Len(json_vec) + 1 + Len(Opened)
      BY <1>5, <2>1 DEF ReadInv, UpdatesOK
    <2> QED
      BY <1>1, <1>2, <1>5, <2>3, <2>4 DEF ReadInv, UpdatesOK
  <1>8. PhaseOK'
    BY <1>1, <1>2 DEF ReadInv, PhaseOK
  <1> QED
    BY <1>1, <1>2, <1>6, <1>7, <1>8 DEF ReadInv

LEMMA AddUpdateKeeps ==
    ASSUME ReadInv, AddUpdate
    PROVE  ReadInv'
  <1> DEFINE m == Len(updates) - Len(Opened)
             u == Update(Keyed(request.path, Next1.key), Next1.data)
  <1>1. /\ outcome = "update" /\ outcome' = outcome
        /\ Len(updates) < Len(json_vec) + Len(Opened)
        /\ updates' = Append(updates, u)
        /\ data' = data /\ request' = request /\ trees' = trees
        /\ json_vec' = json_vec
    BY DEF AddUpdate, Adding
  <1>2. Wanted' = Wanted /\ Opened' = Opened
    BY <1>1 DEF Wanted, Opened
  <1>3. Len(Opened) \in {0, 1}
    BY OpenedTyped DEF ReadInv
  <1>4. /\ IsPath(u.path) /\ u.value = json_vec[m + 1].data
    <2>1. IsPath(request.path)
      BY Inputs DEF ReadInv
    <2> QED
      BY <2>1, KeyedPath DEF Update, Next1
  <1> HIDE DEF u
  <1>5. /\ Len(updates) \in Nat
        /\ IsSequence(updates') /\ Len(updates') = Len(updates) + 1
        /\ \A i \in 1 .. Len(updates) : updates'[i] = updates[i]
        /\ updates'[Len(updates) + 1] = u
    BY <1>1, Appended DEF ReadInv, UpdatesOK
  <1>6. Len(json_vec) \in Nat
    BY Appended DEF ReadInv, ResultsOK
  <1>7. m \in Nat /\ Len(updates') - Len(Opened) = m + 1
    BY <1>1, <1>3, <1>5 DEF ReadInv, PhaseOK
  <1>8. UpdatesOK'
    <2>1. Len(updates') <= Len(json_vec) + Len(Opened)
      BY <1>1, <1>3, <1>5, <1>6
    <2>2. \A i \in 1 .. Len(updates') : IsPath(updates'[i].path)
      <3>1. \A i \in 1 .. Len(updates') :
                i \in 1 .. Len(updates) \/ i = Len(updates) + 1
        BY <1>5
      <3> QED
        BY <1>4, <1>5, <3>1 DEF ReadInv, UpdatesOK
    <2>3. ASSUME NEW i \in 1 .. m + 1
          PROVE  updates'[i + Len(Opened)].value = json_vec[i].data
      <3>1. CASE i = m + 1
        <4>1. i + Len(Opened) = Len(updates) + 1
          BY <1>3, <1>5, <3>1
        <4> QED
          BY <1>4, <1>5, <3>1, <4>1
      <3>2. CASE i # m + 1
        <4>1. i \in 1 .. m
          BY <1>7, <3>2
        <4>2. i + Len(Opened) \in 1 .. Len(updates)
          BY <1>3, <1>5, <4>1
        <4>3. updates[i + Len(Opened)].value = json_vec[i].data
          BY <4>1 DEF ReadInv, UpdatesOK
        <4> QED
          BY <1>5, <4>2, <4>3
      <3> QED
        BY <3>1, <3>2
    <2> HIDE DEF m
    <2> QED
      BY <1>1, <1>2, <1>5, <1>7, <2>1, <2>2, <2>3 DEF UpdatesOK
  <1>9. ResultsOK'
    BY <1>1 DEF ReadInv, ResultsOK
  <1>10. PhaseOK'
    BY <1>1, <1>2, <1>3, <1>5 DEF ReadInv, PhaseOK
  <1> QED
    BY <1>1, <1>2, <1>8, <1>9, <1>10 DEF ReadInv

LEMMA ReadStep ==
    ASSUME ReadInv, [Next]_vars
    PROVE  ReadInv'
  <1>1. CASE Select
    BY <1>1, SelectKeeps
  <1>2. CASE ReadTree
    BY <1>2, ReadTreeKeeps
  <1>3. CASE ReadThrows
    <2>1. PICK s \in {"INVALID_ARGUMENT", "NOT_FOUND", "UNKNOWN"} : Return(s)
      BY <1>3 DEF ReadThrows
    <2>2. outcome # "select" /\ updates' = updates
      BY <1>3 DEF ReadThrows, Reading
    <2> QED
      BY <2>1, <2>2, Settled DEF Status
  <1>4. CASE ReadCrashes
    BY <1>4, Settled DEF ReadCrashes, Reading, Status
  <1>5. CASE ReadDone
    <2>1. outcome = "read" /\ Len(json_vec) = Len(trees) /\ trees = Wanted
      BY <1>5 DEF ReadDone, ReadInv, PhaseOK
    <2> QED
      BY <1>5, <2>1, Settled DEF ReadDone
  <1>6. CASE AddUpdate
    BY <1>6, AddUpdateKeeps
  <1>7. CASE AddUndefined
    BY <1>7, Settled DEF AddUndefined, Adding, Status
  <1>8. CASE AddDone
    <2>1. /\ outcome = "update" /\ trees = Wanted /\ Len(json_vec) = Len(trees)
          /\ Len(updates) = Len(json_vec) + Len(Opened)
      BY <1>8 DEF AddDone, ReadInv, PhaseOK
    <2> QED
      BY <1>8, <2>1, Settled DEF AddDone, Status
  <1>9. CASE UNCHANGED vars
    BY <1>9 DEF vars, ReadInv, ResultsOK, UpdatesOK, PhaseOK, Wanted, Opened
  <1> QED
    BY <1>1, <1>2, <1>3, <1>4, <1>5, <1>6, <1>7, <1>8, <1>9 DEF Next

THEOREM ReadSound == Spec => []ReadInv
  BY ReadStarts, ReadStep, PTL DEF Spec

(***************************************************************************)
(* The results and the Updates stay what they say, whatever the data tree  *)
(* and the path: every tree is a node of the data, json_read has no more   *)
(* results than trees, and the path of every Update is a path              *)
(* (json_ietf.cpp:148-189, get.cpp:47-78, subscribe.cpp:52-88).            *)
(***************************************************************************)
THEOREM ReadTypeCorrect == Spec => []TypeOK
  <1>1. ReadInv => TypeOK
    <2> SUFFICES ASSUME ReadInv PROVE TypeOK
      OBVIOUS
    <2>1. \A i \in DOMAIN trees : trees[i] \in DOMAIN data
      BY WantedTyped DEF ReadInv
    <2>2. DOMAIN updates = 1 .. Len(updates)
      BY Appended DEF ReadInv, UpdatesOK
    <2> QED
      BY <2>1, <2>2 DEF TypeOK, ReadInv, ResultsOK, UpdatesOK, PhaseOK
  <1> QED
    BY <1>1, ReadSound, PTL

\* The answers are the Updates after the first o ones.
LEMMA AnswersListed ==
    ASSUME ReadInv, outcome = "OK"
    PROVE  LET n == Len(Wanted)
               o == Len(Opened)
           IN  /\ WellFormed(data) /\ n \in Nat /\ DOMAIN Wanted = 1 .. n
               /\ \A i \in 1 .. n : Wanted[i] \in DOMAIN data
               /\ trees = Wanted /\ Len(json_vec) = n /\ Len(updates) - o = n
               /\ Len(Answers) = n /\ DOMAIN Answers = 1 .. n
               /\ \A i \in 1 .. n : Answers[i] = updates[i + o]
  <1> DEFINE o == Len(Opened)
             n == Len(Wanted)
             R == {updates[i] : i \in DOMAIN updates}
             s == SubSeq(updates, o + 1, n + o)
  <1>1. /\ trees = Wanted /\ Len(json_vec) = n /\ Len(updates) = n + o
        /\ o \in {0, 1}
    BY OpenedTyped DEF ReadInv, PhaseOK
  <1>2. /\ WellFormed(data) /\ n \in Nat /\ DOMAIN Wanted = 1 .. n
        /\ \A i \in 1 .. n : Wanted[i] \in DOMAIN data
    BY WantedTyped DEF ReadInv
  <1>3. updates \in Seq(R)
    BY DEF ReadInv, UpdatesOK, IsSequence
  <1>4. Answers = s
    BY <1>1 DEF Answers
  <1>5. /\ Len(s) = n /\ DOMAIN s = 1 .. n
        /\ \A i \in 1 .. n : s[i] = updates[i + o]
    <2> HIDE DEF R, n, o
    <2> QED
      BY <1>1, <1>2, <1>3
  <1>6. Len(updates) - o = n
    BY <1>1, <1>2
  <1> QED
    BY <1>1, <1>2, <1>4, <1>5, <1>6

(***************************************************************************)
(* A path that is answered OK is answered with every node it selects, each *)
(* once and in order, and with all leaves of a tree at their places, for   *)
(* data trees and paths of any size (json_ietf.cpp:54-141, 162-183,        *)
(* get.cpp:61-76, subscribe.cpp:71-86).                                    *)
(***************************************************************************)
THEOREM AnswersAreTheTrees == Spec => []AnswersHoldTheTrees
  <1>1. ReadInv => AnswersHoldTheTrees
    <2> SUFFICES ASSUME ReadInv, outcome = "OK"
                 PROVE  /\ Len(Answers) = Len(Wanted)
                        /\ \A i \in DOMAIN Wanted :
                             Followed(data, Wanted[i]) =>
                                 Answers[i].value = Shown(data, Wanted[i])
      BY DEF AnswersHoldTheTrees, Wanted, Shown, Leaves
    <2>1. /\ WellFormed(data) /\ Len(Answers) = Len(Wanted)
          /\ DOMAIN Wanted = 1 .. Len(Wanted)
          /\ \A i \in 1 .. Len(Wanted) : Wanted[i] \in DOMAIN data
      BY AnswersListed
    <2>2. \A i \in 1 .. Len(Wanted) :
              Answers[i].value = json_vec[i].data /\
              json_vec[i].data = JsonTree(data, Wanted[i])
      BY AnswersListed DEF ReadInv, ResultsOK, UpdatesOK
    <2> QED
      BY <2>1, <2>2, JsonShown
  <1> QED
    BY <1>1, ReadSound, PTL

-----------------------------------------------------------------------------
(***************************************************************************)
(* The key of a list entry, as its JSON has it.                            *)
(***************************************************************************)
Places(val) == \A e \in val : IsSequence(e[1])

\* What val[name] is, unless it is an object or an array.
ValueAt(val, name) == {e \in val : e[1] = <<<<name, 0>>>>}

LEMMA NoPlace == IsSequence(<<>>) /\ Places(Null)
  <1>1. <<>> = [i \in 1 .. 0 |-> <<>>[i]]
    OBVIOUS
  <1>2. IsSequence(<<>>)
    BY <1>1, MadeSequence
  <1> QED
    BY <1>2 DEF Places, Null

LEMMA AtStep ==
    ASSUME NEW s, NEW val, Places(val), NEW e \in At(s, val)
    PROVE  IsSequence(e[1]) /\ e[1] # <<>> /\ e[1][1] = s
  <1>1. PICK g \in val : e = <<<<s>> \o g[1], g[2]>>
    BY DEF At
  <1> DEFINE p == g[1]
             q == <<s>> \o p
  <1>2. IsSequence(p) /\ e[1] = q
    BY <1>1 DEF Places
  <1>3. Len(p) \in Nat /\ p \in Seq({p[i] : i \in DOMAIN p})
    BY <1>2, Appended DEF IsSequence
  <1>4. /\ q = [i \in 1 .. Len(p) + 1 |-> q[i]] /\ q[1] = s /\ q # <<>>
    <2> DEFINE R == {p[i] : i \in DOMAIN p}
    <2>1. p \in Seq(R \cup {s}) /\ <<s>> \in Seq(R \cup {s})
      <3>1. p \in Seq(R)
        BY <1>3
      <3> HIDE DEF p, R
      <3> QED
        BY <3>1
    <2>2. q \in Seq(R \cup {s}) /\ Len(q) = Len(p) + 1 /\ q[1] = s
      <3> HIDE DEF p, R
      <3> QED
        BY <1>3, <2>1
    <2> HIDE DEF q, p, R
    <2> QED
      BY <1>3, <2>2
  <1>5. IsSequence(q)
    <2>1. Len(p) + 1 \in Nat
      BY <1>3
    <2> HIDE DEF q, p
    <2> QED
      BY <1>4, <2>1, MadeSequence
  <1> QED
    BY <1>2, <1>4, <1>5

\* Whatever is put into a value is put under the name of its node.
LEMMA PutUnder ==
    ASSUME NEW node, node.kind \in Kind, node.kind # "anydata", NEW val, NEW sub,
           node.kind \in Inner => Places(sub)
    PROVE  \E s : /\ Places(s)
                  /\ \/ Put(val, node, sub) = Assign(val, node.name, s)
                     \/ Put(val, node, sub) = AppendTo(val, node.name, s)
  <1>1. \A v : Places({<<<<>>, v>>})
    BY NoPlace DEF Places
  <1>2. CASE node.kind \in Scalar
    <2> DEFINE s == {<<<<>>, <<JsonType(node.kind), Text(node)>>>>}
    <2>1. node.kind # "empty" /\ node.kind # "list" /\ node.kind # "container"
      BY <1>2 DEF Scalar
    <2>2. Put(val, node, sub) = Assign(val, node.name, s)
      BY <1>2, <2>1 DEF Put
    <2> QED
      BY <1>1, <2>2
  <1>3. CASE node.kind = "empty"
    <2>1. Put(val, node, sub) =
              AppendTo(val, node.name, {<<<<>>, <<"string", "null">>>>})
      BY <1>3 DEF Put, Scalar
    <2> QED
      BY <1>1, <2>1
  <1>4. CASE node.kind = "list"
    <2>1. Put(val, node, sub) = AppendTo(val, node.name, sub)
      BY <1>4 DEF Put, Scalar
    <2> QED
      BY <1>4, <2>1 DEF Inner
  <1>5. CASE node.kind = "container"
    <2>1. Put(val, node, sub) = Assign(val, node.name, sub)
      BY <1>5 DEF Put, Scalar
    <2> QED
      BY <1>5, <2>1 DEF Inner
  <1> QED
    BY <1>2, <1>3, <1>4, <1>5 DEF Kind

LEMMA PutPlaces ==
    ASSUME NEW node, node.kind \in Kind, node.kind # "anydata",
           NEW val, Places(val), NEW sub, node.kind \in Inner => Places(sub)
    PROVE  /\ Places(Put(val, node, sub))
           /\ \A name : name # node.name =>
                  ValueAt(Put(val, node, sub), name) = ValueAt(val, name)
  <1> DEFINE new == Put(val, node, sub)
             step(k) == <<node.name, k>>
  <1>1. PICK s, k : /\ Places(s)
                    /\ \/ new = Without(val, node.name) \cup At(step(k), s)
                       \/ new = (val \ Null) \cup At(step(k), s)
    <2>1. PICK s : /\ Places(s)
                   /\ \/ new = Assign(val, node.name, s)
                      \/ new = AppendTo(val, node.name, s)
      BY PutUnder
    <2> HIDE DEF new
    <2> QED
      BY <2>1 DEF Assign, AppendTo
  <1>2. \A e \in At(step(k), s) :
            IsSequence(e[1]) /\ e[1] # <<>> /\ e[1][1] = step(k)
    BY <1>1, AtStep
  <1>3. \A e \in new : e \in val \/ e \in At(step(k), s)
    <2> HIDE DEF new
    <2> QED
      BY <1>1 DEF Without
  <1>4. Places(new)
    <2> HIDE DEF new
    <2> QED
      BY <1>2, <1>3 DEF Places
  <1>5. ASSUME NEW name, name # node.name
        PROVE  ValueAt(new, name) = ValueAt(val, name)
    <2>1. ASSUME NEW e \in val, e[1] = <<<<name, 0>>>> PROVE e \in new
      <3>1. e \notin Null /\ e[1][1][1] = name
        <4>1. <<<<name, 0>>>> # <<>> /\ <<<<name, 0>>>>[1][1] = name
          OBVIOUS
        <4>2. \A g \in Null : g[1] = <<>>
          <5> DEFINE z == <<<<>>, <<"null", "">>>>
          <5>1. z[1] = <<>> /\ Null = {z}
            BY DEF Null
          <5> HIDE DEF z
          <5> QED
            BY <5>1
        <4> QED
          BY <2>1, <4>1, <4>2
      <3>2. e \in Without(val, node.name)
        BY <1>5, <2>1, <3>1 DEF Without
      <3> HIDE DEF new
      <3> QED
        BY <1>1, <2>1, <3>1, <3>2
    <2>2. ASSUME NEW e \in new, e[1] = <<<<name, 0>>>> PROVE e \in val
      <3> SUFFICES ASSUME e \in At(step(k), s) PROVE FALSE
        BY <1>3
      <3>1. e[1][1] = <<name, 0>> /\ e[1][1] = <<node.name, k>>
        BY <1>2, <2>2
      <3> QED
        BY <1>5, <3>1
    <2> HIDE DEF new
    <2> QED
      BY <2>1, <2>2 DEF ValueAt
  <1> QED
    BY <1>4, <1>5

\* p is the first child of n, of a kind that json_tree assigns, and alone with
\* its name.
FirstKey(d, n, p) ==
    /\ p \in Below(d, n) /\ d[p].kind \in Scalar
    /\ \A e \in Below(d, n) : p <= e /\ (d[e].name = d[p].name => e = p)

LEMMA FilledPlaces ==
    ASSUME NEW d, WellFormed(d), NEW n \in DOMAIN d, NEW f,
           \A c \in Below(d, n) : /\ d[c].kind # "anydata"
                                  /\ d[c].kind \in Inner => Places(f[c]),
           NEW p
    PROVE  /\ Places(Filled(d, n, f))
           /\ FirstKey(d, n, p) =>
                /\ Children(d, n)[1] = p
                /\ ValueAt(Filled(d, n, f), d[p].name) =
                     {<<<<<<d[p].name, 0>>>>, <<JsonType(d[p].kind), Text(d[p])>>>>}
  <1> DEFINE S == Below(d, n)
             c == Children(d, n)
             k == Len(c)
             X == {<<<<<<d[p].name, 0>>>>, <<JsonType(d[p].kind), Text(d[p])>>>>}
  <1>1. Len(d) \in Nat /\ S \in SUBSET (0 .. Len(d)) /\ S \subseteq DOMAIN d
    BY Numbered
  <1>2. /\ k \in Nat /\ k = Cardinality(S)
        /\ \A i \in 1 .. k : c[i] \in S /\ Before(S, c[i]) = i - 1
        /\ \A m \in S : Before(S, m) + 1 \in 1 .. k /\ c[Before(S, m) + 1] = m
    <2>1. c = InOrder(S)
      BY DEF Children
    <2>2. Cardinality(S) \in Nat
      BY <1>1, Finite
    <2> HIDE DEF S, c
    <2> QED
      BY <1>1, <2>1, <2>2, Ordered
  <1>3. FirstKey(d, n, p) => k >= 1 /\ Before(S, p) = 0 /\ c[1] = p
    <2> SUFFICES ASSUME FirstKey(d, n, p)
                 PROVE  k >= 1 /\ Before(S, p) = 0 /\ c[1] = p
      OBVIOUS
    <2>1. p \in S /\ \A e \in S : p <= e
      BY DEF FirstKey
    <2>2. {m \in S : m < p} = {}
      <3>1. \A m \in S : m \in Nat
        BY <1>1
      <3> QED
        BY <2>1, <3>1
    <2>3. Before(S, p) = 0
      BY <2>2, FS_EmptySet DEF Before
    <2> HIDE DEF S, c
    <2> QED
      BY <1>2, <2>1, <2>3
  <1>4. PICK val : /\ val[0] = Null
                   /\ \A i \in 1 .. k :
                          val[i] = Put(val[i - 1], d[c[i]], f[c[i]])
                   /\ Filled(d, n, f) = val[k]
    <2>1. Len(Children(d, n)) \in Nat
      BY <1>2
    <2>2. LET c1 == Children(d, n) IN
          \E val : /\ val[0] = Null
                   /\ \A i \in 1 .. Len(c1) :
                          val[i] = Put(val[i - 1], d[c1[i]], f[c1[i]])
                   /\ Filled(d, n, f) = val[Len(c1)]
      BY <2>1, FilledUnfolds
    <2> QED
      BY <2>2
  <1> DEFINE Good(i) == /\ Places(val[i])
                        /\ i # 0 /\ FirstKey(d, n, p) =>
                               ValueAt(val[i], d[p].name) = X
             Bad == {i \in 0 .. k : ~Good(i)}
  <1>5. ASSUME NEW i \in 1 .. k, Good(i - 1) PROVE Good(i)
    <2> DEFINE x == c[i]
    <2>1. /\ x \in S /\ x \in DOMAIN d /\ Before(S, x) = i - 1
          /\ val[i] = Put(val[i - 1], d[x], f[x])
      BY <1>1, <1>2, <1>4
    <2>2. /\ d[x].kind \in Kind /\ d[x].kind # "anydata"
          /\ d[x].kind \in Inner => Places(f[x])
      BY <2>1 DEF WellFormed
    <2> HIDE DEF x, c
    <2>3. Places(val[i])
      BY <1>5, <2>1, <2>2, PutPlaces
    <2>4. ASSUME FirstKey(d, n, p), i = 1 PROVE ValueAt(val[i], d[p].name) = X
      <3>1. x = p /\ val[i - 1] = Null
        BY <1>3, <1>4, <2>4 DEF x
      <3>2. d[p].kind \in Scalar
        BY <2>4 DEF FirstKey
      <3>3. d[p].kind # "empty" /\ d[p].kind # "list" /\ d[p].kind # "container"
        BY <3>2 DEF Scalar
      <3> DEFINE v == <<JsonType(d[p].kind), Text(d[p])>>
                 s == <<d[p].name, 0>>
      <3>4. Put(val[i - 1], d[p], f[p]) = Assign(Null, d[p].name, {<<<<>>, v>>})
        BY <3>1, <3>2, <3>3 DEF Put
      <3>5. At(s, {<<<<>>, v>>}) = {<<<<s>>, v>>}
        <4> HIDE DEF s, v
        <4>1. <<s>> \o <<>> = <<s>>
          OBVIOUS
        <4> DEFINE e == <<<<>>, v>>
        <4>2. e[1] = <<>> /\ e[2] = v
          OBVIOUS
        <4>3. At(s, {e}) = {<<<<s>> \o e[1], e[2]>>}
          <5> HIDE DEF e
          <5> QED
            BY DEF At
        <4> QED
          BY <4>1, <4>2, <4>3
      <3>6. Without(Null, d[p].name) = {}
        BY DEF Without
      <3>7. val[i] = {<<<<s>>, v>>}
        BY <2>1, <3>1, <3>4, <3>5, <3>6 DEF Assign
      <3> QED
        BY <3>7 DEF ValueAt
    <2>5. ASSUME FirstKey(d, n, p), i # 1 PROVE ValueAt(val[i], d[p].name) = X
      <3>1. x # p
        BY <1>3, <2>1, <2>5
      <3>2. d[p].name # d[x].name
        BY <2>1, <2>5, <3>1 DEF FirstKey
      <3>3. ValueAt(val[i], d[p].name) = ValueAt(val[i - 1], d[p].name)
        BY <1>5, <2>1, <2>2, <3>2, PutPlaces
      <3> HIDE DEF X
      <3> QED
        BY <1>5, <2>5, <3>3
    <2> QED
      BY <2>3, <2>4, <2>5
  <1>6. Bad = {}
    <2> SUFFICES ASSUME Bad # {} PROVE FALSE
      OBVIOUS
    <2>1. PICK i \in Bad : \A b \in Bad : i <= b
      <3>1. Bad \in SUBSET Nat
        OBVIOUS
      <3> HIDE DEF Bad
      <3> QED
        BY <3>1, LeastExists
    <2>2. i \in 0 .. k /\ ~Good(i)
      BY <2>1
    <2>3. i # 0
      BY <1>4, <2>2, NoPlace
    <2>4. i \in 1 .. k /\ i - 1 \in 0 .. k /\ ~(i <= i - 1)
      <3> HIDE DEF c
      <3> QED
        BY <1>2, <2>2, <2>3
    <2>5. i - 1 \notin Bad
      <3> HIDE DEF Bad
      <3> QED
        BY <2>1, <2>4
    <2> QED
      BY <1>5, <2>2, <2>4, <2>5
  <1>7. Good(k)
    <2> HIDE DEF Good, c
    <2> QED
      BY <1>2, <1>6
  <1> QED
    BY <1>2, <1>3, <1>4, <1>7

LEMMA JsonPlaces ==
    ASSUME NEW d, WellFormed(d), NEW t \in DOMAIN d, ~Unsupported(d, t)
    PROVE  /\ Places(JsonTree(d, t))
           /\ \A c \in Below(d, t) : d[c].kind # "anydata" /\ ~Unsupported(d, c)
  <1>1. ASSUME NEW n \in DOMAIN d, ~Unsupported(d, n), NEW c \in Below(d, n)
        PROVE  c \in DOMAIN d /\ d[c].kind # "anydata" /\ ~Unsupported(d, c)
    <2>1. c \in DOMAIN d
      BY Numbered
    <2>2. \A m \in Within(d, c) : m \in Within(d, n) /\ m # n
      BY WayDown
    <2>3. c \in Within(d, c)
      BY <2>1, WithinUnfolds
    <2> QED
      BY <1>1, <2>1, <2>2, <2>3 DEF Unsupported
  <1> DEFINE Good(n) == ~Unsupported(d, n) => Places(JsonTree(d, n))
             Bad == {n \in DOMAIN d : ~Good(n)}
  <1>2. Len(d) \in Nat /\ DOMAIN d = 1 .. Len(d)
    BY Numbered
  <1>3. Bad = {}
    <2> SUFFICES ASSUME Bad # {} PROVE FALSE
      OBVIOUS
    <2>1. PICK n \in Bad : \A b \in Bad : b <= n
      <3>1. Bad \in SUBSET (0 .. Len(d))
        BY <1>2
      <3> HIDE DEF Bad
      <3> QED
        BY <1>2, <3>1, GreatestExists
    <2>2. n \in DOMAIN d /\ ~Unsupported(d, n) /\ ~Places(JsonTree(d, n))
      BY <2>1
    <2> DEFINE f == [c \in Below(d, n) |-> JsonTree(d, c)]
    <2>3. \A c \in Below(d, n) : d[c].kind # "anydata" /\ Places(f[c])
      <3> TAKE c \in Below(d, n)
      <3>1. c \in DOMAIN d /\ d[c].kind # "anydata" /\ ~Unsupported(d, c)
        BY <1>1, <2>2
      <3>2. n < c /\ c \in Nat /\ n \in Nat
        BY <1>2, <2>2, Numbered
      <3>3. c \notin Bad
        <4> HIDE DEF Bad
        <4> QED
          BY <2>1, <3>2
      <3> QED
        BY <3>1, <3>3
    <2>4. JsonTree(d, n) = Filled(d, n, f)
      BY <2>2, JsonUnfolds
    <2>5. Places(Filled(d, n, f))
      <3> HIDE DEF f
      <3> QED
        BY <2>2, <2>3, FilledPlaces
    <2> QED
      BY <2>2, <2>4, <2>5
  <1>4. Good(t)
    <2> HIDE DEF Good
    <2> QED
      BY <1>3
  <1> QED
    BY <1>1, <1>4

LEMMA KeyFound ==
    ASSUME WellFormed(data), NEW n \in DOMAIN data, ~Unsupported(data, n),
           NEW p, FirstKey(data, n, p)
    PROVE  KeyOf(n) = <<data[p].name, Text(data[p])>>
  <1> DEFINE f == [c \in Below(data, n) |-> JsonTree(data, c)]
             e == <<<<<<data[p].name, 0>>>>,
                    <<JsonType(data[p].kind), Text(data[p])>>>>
  <1>1. \A c \in Below(data, n) : /\ data[c].kind # "anydata"
                                  /\ data[c].kind \in Inner => Places(f[c])
    <2> TAKE c \in Below(data, n)
    <2>1. c \in DOMAIN data /\ data[c].kind # "anydata" /\ ~Unsupported(data, c)
      BY Numbered, JsonPlaces
    <2> QED
      BY <2>1, JsonPlaces
  <1>2. JsonTree(data, n) = Filled(data, n, f)
    BY JsonUnfolds
  <1>3. /\ Children(data, n)[1] = p
        /\ ValueAt(Filled(data, n, f), data[p].name) = {e}
    <2> HIDE DEF f
    <2> QED
      BY <1>1, FilledPlaces
  <1> HIDE DEF f
  <1>4. KeyNode(n) = p /\ KeyJson(n) = {e}
    BY <1>2, <1>3 DEF KeyNode, KeyJson, ValueAt
  <1>5. e[2][2] = Text(data[p])
    OBVIOUS
  <1>6. (CHOOSE g \in {e} : TRUE) = e
    <2> HIDE DEF e
    <2> QED
      OBVIOUS
  <1> HIDE DEF e
  <1> QED
    BY <1>4, <1>5, <1>6 DEF KeyOf

\* A key that is printed as it is, and has no quotes.
LEMMA PlainKeyFound ==
    ASSUME WellFormed(data), NEW n \in DOMAIN data, ~Unsupported(data, n),
           NEW p, FirstKey(data, n, p), data[n].kind = "list", PlainKey(n)
    PROVE  KeyOf(n) = <<data[p].name, data[p].value>> /\ KeyOf(n)[2] \notin Quoted
  <1>1. KeyOf(n) = <<data[p].name, Text(data[p])>>
    BY KeyFound
  <1>2. Children(data, n)[1] = p
    <2> DEFINE f == [c \in Below(data, n) |-> JsonTree(data, c)]
    <2>1. \A c \in Below(data, n) : /\ data[c].kind # "anydata"
                                    /\ data[c].kind \in Inner => Places(f[c])
      <3> TAKE c \in Below(data, n)
      <3>1. c \in DOMAIN data /\ data[c].kind # "anydata" /\ ~Unsupported(data, c)
        BY Numbered, JsonPlaces
      <3> QED
        BY <3>1, JsonPlaces
    <2> HIDE DEF f
    <2> QED
      BY <2>1, FilledPlaces
  <1>3. p \in KeyLeaves(n)
    BY <1>2 DEF FirstKey, KeyLeaves, KeyNode
  <1>4. data[p].kind # "decimal64" /\ data[p].value \notin Quoted
    BY <1>3 DEF PlainKey
  <1>5. Text(data[p]) = data[p].value
    BY <1>4 DEF Text
  <1> QED
    BY <1>1, <1>4, <1>5

-----------------------------------------------------------------------------
(***************************************************************************)
(* An XPath whose last step has a key more.                                *)
(***************************************************************************)
LEMMA ReachedAlike ==
    ASSUME NEW d, NEW x, NEW y, Len(x) \in Nat, Len(y) = Len(x),
           NEW k \in 0 .. Len(x), \A i \in 1 .. k : y[i] = x[i]
    PROVE  Reached(d, y, k) = Reached(d, x, k)
  <1> DEFINE Good(i) == Reached(d, y, i) = Reached(d, x, i)
             Bad == {i \in 0 .. k : ~Good(i)}
  <1>1. Bad = {}
    <2> SUFFICES ASSUME Bad # {} PROVE FALSE
      OBVIOUS
    <2>1. PICK i \in Bad : \A b \in Bad : i <= b
      <3>1. Bad \in SUBSET Nat
        OBVIOUS
      <3> HIDE DEF Bad
      <3> QED
        BY <3>1, LeastExists
    <2>2. i \in 0 .. k /\ ~Good(i)
      BY <2>1
    <2>3. Reached(d, y, 0) = {0} /\ Reached(d, x, 0) = {0}
      BY ReachedUnfolds
    <2>4. i # 0
      BY <2>2, <2>3
    <2>5. i \in 1 .. k /\ i \in 1 .. Len(x) /\ i - 1 \in 0 .. k /\ ~(i <= i - 1)
      BY <2>2, <2>4
    <2>6. i - 1 \notin Bad
      <3> HIDE DEF Bad
      <3> QED
        BY <2>1, <2>5
    <2>7. Reached(d, y, i - 1) = Reached(d, x, i - 1) /\ y[i] = x[i]
      BY <2>5, <2>6
    <2>8. \A n : n \in Reached(d, y, i) <=> n \in Reached(d, x, i)
      <3>1. \A n : n \in Reached(d, x, i) <=>
                /\ n \in DOMAIN d /\ d[n].parent \in Reached(d, x, i - 1)
                /\ Matches(d, n, x[i])
        BY <2>5, ReachedUnfolds
      <3>2. \A n : n \in Reached(d, y, i) <=>
                /\ n \in DOMAIN d /\ d[n].parent \in Reached(d, y, i - 1)
                /\ Matches(d, n, y[i])
        BY <2>5, ReachedUnfolds
      <3> QED
        BY <2>7, <3>1, <3>2
    <2> QED
      BY <2>2, <2>8, Zenon
  <1> QED
    BY <1>1

\* A child of n has a name and a value.
Held(d, n, name, value) ==
    \E c \in Below(d, n) : d[c].name = name /\ d[c].value = value

KeysHeld(d, n, keys) == \A name \in DOMAIN keys : Held(d, n, name, keys[name])

LEMMA MatchesHeld ==
    ASSUME NEW d, NEW n, NEW step
    PROVE  Matches(d, n, step) <=> /\ step.name \in {d[n].name, "*"}
                                   /\ step.module \in {d[n].module, ""}
                                   /\ KeysHeld(d, n, step.key)
  BY DEF Matches, KeysHeld, Held

LEMMA KeyAdded ==
    ASSUME NEW d, NEW n, NEW keys, NEW a, NEW b
    PROVE  KeysHeld(d, n, WithKey(keys, <<a, b>>)) <=>
               /\ Held(d, n, a, b)
               /\ \A name \in DOMAIN keys :
                      name = a \/ Held(d, n, name, keys[name])
  <1> DEFINE new == WithKey(keys, <<a, b>>)
  <1>1. /\ DOMAIN new = DOMAIN keys \cup {a} /\ new[a] = b
        /\ \A name \in DOMAIN keys : name # a => new[name] = keys[name]
    BY DEF WithKey
  <1> HIDE DEF new
  <1>2. KeysHeld(d, n, new) <=>
            \A name \in DOMAIN keys \cup {a} : Held(d, n, name, new[name])
    BY <1>1 DEF KeysHeld
  <1>3. (\A name \in DOMAIN keys \cup {a} : Held(d, n, name, new[name])) <=>
            /\ Held(d, n, a, b)
            /\ \A name \in DOMAIN keys : name = a \/ Held(d, n, name, keys[name])
    BY <1>1
  <1> QED
    BY <1>2, <1>3 DEF new

\* y is x with a key more in its last step.
Narrows(y, x, k) ==
    /\ Len(x) \in Nat /\ Len(x) >= 1 /\ Len(y) = Len(x)
    /\ \A i \in 1 .. Len(x) - 1 : y[i] = x[i]
    /\ y[Len(x)].name = x[Len(x)].name /\ y[Len(x)].module = x[Len(x)].module
    /\ y[Len(x)].key = WithKey(x[Len(x)].key, k)

\* Of the nodes of S only n has a child of this name and value, and n has
\* no other value of the name.
HeldByOne(d, S, n, a, b) ==
    /\ n \in S /\ Held(d, n, a, b)
    /\ \A v : Held(d, n, a, v) => v = b
    /\ \A m \in S : m # n => ~Held(d, m, a, b)

LEMMA Narrowed ==
    ASSUME NEW d, NEW x, NEW y, NEW a, NEW b, Narrows(y, x, <<a, b>>),
           NEW n, HeldByOne(d, Reached(d, x, Len(x)), n, a, b)
    PROVE  \A m : m \in Reached(d, y, Len(x)) <=> m = n
  <1> DEFINE L == Len(x)
             keys == x[L].key
             Top(m) == m \in DOMAIN d /\ d[m].parent \in Reached(d, x, L - 1)
             Named(m) == /\ x[L].name \in {d[m].name, "*"}
                         /\ x[L].module \in {d[m].module, ""}
  <1>1. Reached(d, y, L - 1) = Reached(d, x, L - 1)
    BY ReachedAlike DEF Narrows
  <1>2. L \in 1 .. Len(x) /\ L \in 1 .. Len(y) /\ Len(y) = L /\ L \in Nat
    BY DEF Narrows
  <1>3. \A m : m \in Reached(d, x, L) <=> Top(m) /\ Matches(d, m, x[L])
    BY <1>2, ReachedUnfolds
  <1>4. \A m : m \in Reached(d, y, L) <=> Top(m) /\ Matches(d, m, y[L])
    <2>1. \A m : m \in Reached(d, y, L) <=>
              /\ m \in DOMAIN d /\ d[m].parent \in Reached(d, y, L - 1)
              /\ Matches(d, m, y[L])
      BY <1>2, ReachedUnfolds
    <2> QED
      BY <1>1, <2>1
  <1>5. \A m : Matches(d, m, x[L]) <=> Named(m) /\ KeysHeld(d, m, keys)
    BY MatchesHeld
  <1>6. \A m : Matches(d, m, y[L]) <=>
            Named(m) /\ KeysHeld(d, m, WithKey(keys, <<a, b>>))
    <2>1. /\ y[L].name = x[L].name /\ y[L].module = x[L].module
          /\ y[L].key = WithKey(keys, <<a, b>>)
      BY DEF Narrows
    <2> QED
      BY <2>1, MatchesHeld
  <1> HIDE DEF L, keys, Top, Named
  <1>7. \A m : KeysHeld(d, m, WithKey(keys, <<a, b>>)) <=>
               /\ Held(d, m, a, b)
               /\ \A name \in DOMAIN keys :
                      name = a \/ Held(d, m, name, keys[name])
    BY KeyAdded
  <1>8. \A m : KeysHeld(d, m, keys) <=>
               \A name \in DOMAIN keys : Held(d, m, name, keys[name])
    BY DEF KeysHeld
  <1>9. Top(n) /\ Named(n) /\ KeysHeld(d, n, keys)
    BY <1>3, <1>5 DEF L, HeldByOne
  <1>10. a \in DOMAIN keys => keys[a] = b
    BY <1>8, <1>9 DEF HeldByOne
  <1>11. n \in Reached(d, y, L)
    BY <1>4, <1>6, <1>7, <1>8, <1>9 DEF HeldByOne
  <1>12. ASSUME NEW m \in Reached(d, y, L) PROVE m = n
    <2>1. Top(m) /\ Named(m) /\ Held(d, m, a, b)
      BY <1>4, <1>6, <1>7
    <2>2. KeysHeld(d, m, keys)
      BY <1>4, <1>6, <1>7, <1>8, <1>10
    <2>3. m \in Reached(d, x, L)
      BY <1>3, <1>5, <2>1, <2>2
    <2> QED
      BY <2>1, <2>3 DEF L, HeldByOne
  <1> QED
    BY <1>11, <1>12 DEF L

LEMMA SelectsOne ==
    ASSUME NEW d, WellFormed(d), NEW y, Len(y) \in Nat, NEW n \in DOMAIN d,
           \A m : m \in Reached(d, y, Len(y)) <=> m = n
    PROVE  Selected(d, y) = <<n>>
  <1>1. n \in Nat /\ n # 0
    BY Numbered
  <1>2. Reached(d, y, Len(y)) \ {0} = {n}
    <2>1. \A m : m \in Reached(d, y, Len(y)) \ {0} <=> m \in {n}
      BY <1>1
    <2> QED
      BY <2>1, Zenon
  <1>3. Selected(d, y) = InOrder({n})
    BY <1>2 DEF Selected
  <1>4. {n} \in SUBSET (0 .. n) /\ Cardinality({n}) = 1
    <2>1. Cardinality({n}) = 1
      BY FS_Singleton, Zenon
    <2>2. n \in 0 .. n
      BY <1>1
    <2> QED
      BY <2>1, <2>2
  <1>5. /\ InOrder({n}) \in Seq({n}) /\ Len(InOrder({n})) = 1
        /\ InOrder({n})[1] \in {n}
    <2> DEFINE S == {n}
    <2>1. /\ InOrder(S) \in Seq(S) /\ Len(InOrder(S)) = Cardinality(S)
          /\ \A i \in 1 .. Cardinality(S) : InOrder(S)[i] \in S
      <3>1. n \in Nat /\ S \in SUBSET (0 .. n)
        BY <1>1, <1>4
      <3> HIDE DEF S
      <3> QED
        BY <3>1, Ordered
    <2> QED
      BY <1>4, <2>1
  <1> QED
    BY <1>3, <1>5

-----------------------------------------------------------------------------
(***************************************************************************)
(* Paths with a key more.                                                  *)
(***************************************************************************)
LEMMA Joined ==
    ASSUME NEW s, IsSequence(s), NEW t, IsSequence(t)
    PROVE  /\ Len(s) \in Nat /\ Len(t) \in Nat /\ Len(s \o t) = Len(s) + Len(t)
           /\ DOMAIN (s \o t) = 1 .. Len(s) + Len(t)
           /\ \A i \in 1 .. Len(s) : (s \o t)[i] = s[i]
           /\ \A i \in 1 .. Len(t) : (s \o t)[Len(s) + i] = t[i]
           /\ s = <<>> => s \o t = t
  <1> DEFINE R == {s[i] : i \in DOMAIN s} \cup {t[i] : i \in DOMAIN t}
  <1>1. s \in Seq(R) /\ t \in Seq(R)
    <2> DEFINE A == {s[i] : i \in DOMAIN s}
               B == {t[i] : i \in DOMAIN t}
    <2>1. s \in Seq(A) /\ t \in Seq(B) /\ R = A \cup B
      BY DEF IsSequence
    <2> HIDE DEF A, B, R
    <2> QED
      BY <2>1
  <1> HIDE DEF R
  <1> QED
    BY <1>1

LEMMA XPathTyped ==
    ASSUME NEW p, IsPath(p)
    PROVE  /\ IsSequence(ToXPath(p)) /\ Len(ToXPath(p)) = Len(p.elem)
           /\ \A i \in 1 .. Len(p.elem) :
                  ToXPath(p)[i] = [module |-> IF i = 1 THEN p.origin ELSE "",
                                   name |-> p.elem[i].name, key |-> p.elem[i].key]
  <1>1. Len(p.elem) \in Nat /\ DOMAIN p.elem = 1 .. Len(p.elem)
    BY PathTyped
  <1> DEFINE x == ToXPath(p)
             n == Len(p.elem)
  <1>2. x = [i \in 1 .. n |-> x[i]]
    BY <1>1 DEF ToXPath
  <1>3. IsSequence(x) /\ Len(x) = n
    <2> HIDE DEF x, n
    <2> QED
      BY <1>1, <1>2, MadeSequence DEF n
  <1> QED
    BY <1>1, <1>3 DEF ToXPath

Elements(p) == Len(p.elem)

HasKey(k) == k[1] # ""

LEMMA StepParts ==
    ASSUME NEW s, NEW a, NEW b, NEW c, s = [module |-> a, name |-> b, key |-> c]
    PROVE  s.module = a /\ s.name = b /\ s.key = c
  OBVIOUS

LEMMA KeyedXPath ==
    ASSUME NEW p, IsPath(p), NEW k, HasKey(k), Elements(p) >= 1
    PROVE  LET n == Elements(p)
               x == ToXPath(p)
               y == ToXPath(Keyed(p, k))
           IN  /\ n \in Nat /\ n >= 1 /\ Len(y) = n
               /\ \A i \in 1 .. n - 1 : y[i] = x[i]
               /\ y[n].name = x[n].name /\ y[n].module = x[n].module
               /\ y[n].key = WithKey(x[n].key, k)
  <1> DEFINE n == Elements(p)
             q == Keyed(p, k)
             v == WithKey(p.elem[n].key, k)
  <1>1. /\ n \in Nat /\ DOMAIN p.elem = 1 .. n /\ DOMAIN p = {"origin", "elem"}
        /\ \A i \in 1 .. n : DOMAIN p.elem[i] = {"name", "key"}
    BY PathTyped DEF IsPath, Elements
  <1>2. n >= 1
    OBVIOUS
  <1>3. q = [p EXCEPT !.elem[n].key = v]
    BY DEF Keyed, HasKey, Elements
  <1>4. IsPath(q)
    BY KeyedPath
  <1> HIDE DEF q, v
  <1>13. q.origin = p.origin
    BY <1>1, <1>3
  <1>5. q.elem = [p.elem EXCEPT ![n].key = v]
    BY <1>1, <1>3
  <1>6. /\ DOMAIN q.elem = 1 .. n
        /\ \A i \in 1 .. n - 1 : q.elem[i] = p.elem[i]
        /\ q.elem[n].name = p.elem[n].name /\ q.elem[n].key = v
    <2> HIDE DEF n
    <2> QED
      BY <1>1, <1>2, <1>5
  <1>7. Len(q.elem) = n
    <2>1. Len(q.elem) \in Nat /\ DOMAIN q.elem = 1 .. Len(q.elem)
      BY <1>4, PathTyped
    <2> HIDE DEF n
    <2> QED
      BY <1>1, <1>6, <2>1
  <1>8. /\ Len(ToXPath(q)) = n
        /\ \A i \in 1 .. n :
               ToXPath(q)[i] = [module |-> IF i = 1 THEN q.origin ELSE "",
                                name |-> q.elem[i].name, key |-> q.elem[i].key]
    BY <1>4, <1>7, XPathTyped
  <1>9. \A i \in 1 .. n :
            ToXPath(p)[i] = [module |-> IF i = 1 THEN p.origin ELSE "",
                             name |-> p.elem[i].name, key |-> p.elem[i].key]
    BY XPathTyped DEF Elements
  <1> HIDE DEF n
  <1>10. \A i \in 1 .. n - 1 : ToXPath(q)[i] = ToXPath(p)[i]
    <2> TAKE i \in 1 .. n - 1
    <2>1. i \in 1 .. n
      BY <1>1
    <2>2. q.elem[i] = p.elem[i]
      BY <1>6
    <2>3. ToXPath(q)[i] = [module |-> IF i = 1 THEN q.origin ELSE "",
                           name |-> q.elem[i].name, key |-> q.elem[i].key]
      BY <1>8, <2>1
    <2>4. ToXPath(p)[i] = [module |-> IF i = 1 THEN p.origin ELSE "",
                           name |-> p.elem[i].name, key |-> p.elem[i].key]
      BY <1>9, <2>1
    <2> QED
      BY <1>13, <2>2, <2>3, <2>4, Zenon
  <1>11. n \in 1 .. n
    BY <1>1, <1>2
  <1>12. /\ ToXPath(q)[n].name = ToXPath(p)[n].name
         /\ ToXPath(q)[n].module = ToXPath(p)[n].module
         /\ ToXPath(q)[n].key = v /\ ToXPath(p)[n].key = p.elem[n].key
    <2> DEFINE a == IF n = 1 THEN q.origin ELSE ""
               b == IF n = 1 THEN p.origin ELSE ""
    <2>1. ToXPath(q)[n] = [module |-> a, name |-> q.elem[n].name,
                           key |-> q.elem[n].key]
      BY <1>8, <1>11
    <2>2. ToXPath(p)[n] = [module |-> b, name |-> p.elem[n].name,
                           key |-> p.elem[n].key]
      BY <1>9, <1>11
    <2>3. a = b
      BY <1>13
    <2> HIDE DEF a, b
    <2>4. /\ ToXPath(q)[n].module = a /\ ToXPath(q)[n].name = q.elem[n].name
          /\ ToXPath(q)[n].key = q.elem[n].key
      <3> DEFINE s == ToXPath(q)[n]
                 name == q.elem[n].name
                 keys == q.elem[n].key
      <3>1. s = [module |-> a, name |-> name, key |-> keys]
        BY <2>1
      <3> HIDE DEF s, name, keys
      <3>2. s.module = a /\ s.name = name /\ s.key = keys
        BY <3>1, StepParts
      <3> QED
        BY <3>2 DEF s, name, keys
    <2>5. /\ ToXPath(p)[n].module = b /\ ToXPath(p)[n].name = p.elem[n].name
          /\ ToXPath(p)[n].key = p.elem[n].key
      <3> DEFINE s == ToXPath(p)[n]
                 name == p.elem[n].name
                 keys == p.elem[n].key
      <3>1. s = [module |-> b, name |-> name, key |-> keys]
        BY <2>2
      <3> HIDE DEF s, name, keys
      <3>2. s.module = b /\ s.name = name /\ s.key = keys
        BY <3>1, StepParts
      <3> QED
        BY <3>2 DEF s, name, keys
    <2> QED
      BY <1>6, <2>3, <2>4, <2>5, Zenon
  <1> QED
    BY <1>1, <1>2, <1>8, <1>10, <1>12 DEF q, v, n

\* The same of a path below a prefix.
LEMMA KeyedFullPath ==
    ASSUME NEW r \in Request, r.rpc = "Subscribe" => Elements(r.prefix) = 0,
           NEW k,
           HasKey(k) => Elements(r.path) >= 1
    PROVE  LET x == FullPath(r)
               y == ToXPath(r.prefix) \o ToXPath(Keyed(r.path, k))
           IN  /\ Len(x) \in Nat /\ DOMAIN x = 1 .. Len(x)
               /\ DOMAIN y = 1 .. Len(y)
               /\ ~HasKey(k) => y = x
               /\ HasKey(k) => Narrows(y, x, k)
  <1> DEFINE a == ToXPath(r.prefix)
             b == ToXPath(r.path)
             c == ToXPath(Keyed(r.path, k))
             n == Elements(r.path)
  <1>1. IsPath(r.prefix) /\ IsPath(r.path) /\ r.rpc \in {"Get", "Subscribe"}
    BY Inputs
  <1>2. /\ IsSequence(a) /\ IsSequence(b) /\ IsSequence(c)
        /\ Len(a) \in Nat /\ Len(b) = n /\ n \in Nat
    <2>1. IsPath(Keyed(r.path, k))
      BY <1>1, KeyedPath
    <2>2. IsSequence(a) /\ IsSequence(b) /\ IsSequence(c) /\ Len(b) = n
      BY <1>1, <2>1, XPathTyped DEF Elements
    <2> HIDE DEF a, b, c
    <2> QED
      BY <2>2, Joined
  <1>3. FullPath(r) = a \o b
    <2>1. CASE r.rpc = "Get"
      BY <2>1 DEF FullPath
    <2>2. CASE r.rpc = "Subscribe"
      <3>1. Len(a) = 0
        BY <1>1, <2>2, XPathTyped DEF Elements
      <3>2. a = <<>>
        <4>1. \E R : a \in Seq(R)
          BY <1>2 DEF IsSequence
        <4> HIDE DEF a
        <4> QED
          BY <3>1, <4>1
      <3>3. a \o b = b
        <4> HIDE DEF a, b
        <4> QED
          BY <1>2, <3>2, Joined
      <3> QED
        BY <2>2, <3>3 DEF FullPath
    <2> QED
      BY <1>1, <2>1, <2>2
  <1>4. CASE ~HasKey(k)
    <2>1. c = b
      BY <1>4 DEF Keyed, HasKey
    <2> HIDE DEF a, b, c
    <2>2. Len(a \o b) \in Nat /\ DOMAIN (a \o b) = 1 .. Len(a \o b)
      BY <1>2, Joined
    <2>3. a \o c = a \o b /\ FullPath(r) = a \o b
      BY <1>3, <2>1
    <2> QED
      BY <1>4, <2>2, <2>3 DEF a, c
  <1>5. CASE HasKey(k)
    <2>1. /\ n >= 1 /\ Len(c) = n
          /\ \A i \in 1 .. n - 1 : c[i] = b[i]
          /\ c[n].name = b[n].name /\ c[n].module = b[n].module
          /\ c[n].key = WithKey(b[n].key, k)
      BY <1>1, <1>5, KeyedXPath
    <2> DEFINE x == a \o b
               y == a \o c
    <2> HIDE DEF a, b, c, n
    <2>2. /\ Len(x) = Len(a) + n /\ DOMAIN x = 1 .. Len(x) /\ Len(y) = Len(x)
          /\ \A i \in 1 .. Len(a) : x[i] = a[i] /\ y[i] = a[i]
          /\ \A i \in 1 .. n : x[Len(a) + i] = b[i] /\ y[Len(a) + i] = c[i]
      <3>1. IsSequence(a) /\ IsSequence(b) /\ IsSequence(c)
        BY <1>2
      <3>2. Len(b) = n /\ Len(c) = n
        BY <1>2, <2>1
      <3>3. Len(x) = Len(a) + Len(b) /\ Len(y) = Len(a) + Len(c)
        BY <3>1, Joined
      <3>4. DOMAIN x = 1 .. Len(x)
        BY <3>1, Joined
      <3>5. \A i \in 1 .. Len(a) : x[i] = a[i]
        BY <3>1, Joined
      <3>6. \A i \in 1 .. Len(a) : y[i] = a[i]
        BY <3>1, Joined
      <3>7. \A i \in 1 .. Len(b) : x[Len(a) + i] = b[i]
        BY <3>1, Joined
      <3>8. \A i \in 1 .. Len(c) : y[Len(a) + i] = c[i]
        BY <3>1, Joined
      <3> QED
        BY <3>2, <3>3, <3>4, <3>5, <3>6, <3>7, <3>8
    <2> HIDE DEF x, y
    <2>3. Len(x) \in Nat /\ Len(x) >= 1
      BY <1>2, <2>1, <2>2
    <2>4. \A i \in 1 .. Len(x) - 1 : y[i] = x[i]
      <3> TAKE i \in 1 .. Len(x) - 1
      <3>1. CASE i <= Len(a)
        <4>1. i \in 1 .. Len(a)
          BY <1>2, <2>3, <3>1
        <4> QED
          BY <2>2, <4>1
      <3>2. CASE i > Len(a)
        <4>1. PICK j \in 1 .. n - 1 : i = Len(a) + j
          <5>1. i - Len(a) \in 1 .. n - 1 /\ i = Len(a) + (i - Len(a))
            BY <1>2, <2>2, <2>3, <3>2
          <5> QED
            BY <5>1
        <4>2. j \in 1 .. n
          BY <1>2, <4>1
        <4>3. x[i] = b[j] /\ y[i] = c[j]
          BY <2>2, <4>1, <4>2
        <4>4. c[j] = b[j]
          BY <2>1
        <4> QED
          BY <4>3, <4>4
      <3> QED
        BY <1>2, <3>1, <3>2
    <2>5. n \in 1 .. n
      BY <1>2, <2>1
    <2>6. x[Len(x)] = b[n] /\ y[Len(x)] = c[n]
      BY <2>2, <2>5
    <2>7. DOMAIN y = 1 .. Len(y)
      BY <1>2, Joined DEF y
    <2> QED
      BY <1>3, <1>5, <2>1, <2>2, <2>3, <2>4, <2>6, <2>7 DEF x, y, a, c, Narrows
  <1> QED
    BY <1>4, <1>5

-----------------------------------------------------------------------------
(***************************************************************************)
(* The keys of the results, and the paths made with them.                  *)
(***************************************************************************)
\* A result has the key of its list entry; before the first there is none.
ResultKeysOK ==
    /\ Len(json_vec) = 0 => key = NoKey
    /\ \A i \in 1 .. Len(json_vec) :
           IF data[trees[i]].kind = "list"
           THEN ~Unsupported(data, trees[i]) /\ json_vec[i].key = KeyOf(trees[i])
           ELSE i = 1 => json_vec[i].key = NoKey

UpdatePathsOK ==
    \A i \in 1 .. Len(updates) - Len(Opened) :
        /\ updates[i + Len(Opened)].path = Keyed(request.path, json_vec[i].key)
        /\ HasKey(json_vec[i].key) => Elements(request.path) >= 1

KeysOK == ResultKeysOK /\ UpdatePathsOK

LEMMA SomeElements ==
    ASSUME NEW p, IsPath(p), p.elem # <<>>
    PROVE  Elements(p) >= 1
  <1> DEFINE e == p.elem
             R == {e[i] : i \in DOMAIN e}
  <1>1. e \in Seq(R) /\ e # <<>>
    BY DEF IsPath, IsSequence
  <1>2. Len(e) >= 1
    <2> HIDE DEF e, R
    <2> QED
      BY <1>1
  <1> QED
    BY <1>2 DEF Elements

\* A step that leaves results and Updates alone.
LEMMA KeysStay ==
    ASSUME KeysOK, UNCHANGED <<data, request, trees, json_vec, key, updates>>
    PROVE  KeysOK'
  <1>1. Opened' = Opened
    BY DEF Opened
  <1>2. ResultKeysOK'
    <2>1. /\ data' = data /\ trees' = trees /\ json_vec' = json_vec
          /\ key' = key
      OBVIOUS
    <2> QED
      BY <2>1 DEF KeysOK, ResultKeysOK, KeyOf, KeyNode, KeyJson
  <1>3. UpdatePathsOK'
    BY <1>1 DEF KeysOK, UpdatePathsOK
  <1> QED
    BY <1>2, <1>3 DEF KeysOK

LEMMA ReadTreeKeys ==
    ASSUME ReadInv, KeysOK, ReadTree
    PROVE  KeysOK'
  <1> DEFINE n == Len(json_vec)
             t == trees[n + 1]
             r == [data |-> JsonTree(data, Tree), key |-> key']
  <1>1. /\ json_vec' = Append(json_vec, r) /\ ~Unsupported(data, t)
        /\ data' = data /\ request' = request /\ trees' = trees
        /\ updates' = updates
    BY DEF ReadTree, Reading, Tree
  <1>2. key' = IF data[t].kind = "list" THEN KeyOf(t) ELSE key
    BY DEF ReadTree, IsEntry, Tree
  <1>3. r.key = key'
    OBVIOUS
  <1>4. /\ n \in Nat /\ Len(json_vec') = n + 1
        /\ \A i \in 1 .. n : json_vec'[i] = json_vec[i]
        /\ json_vec'[n + 1] = r
    <2> HIDE DEF r
    <2> QED
      BY <1>1, Appended DEF ReadInv, ResultsOK
  <1>5. Opened' = Opened
    BY <1>1 DEF Opened
  <1> HIDE DEF r
  <1>6. ResultKeysOK'
    <2>1. ASSUME NEW i \in 1 .. n + 1
          PROVE  IF data[trees[i]].kind = "list"
                 THEN /\ ~Unsupported(data, trees[i])
                      /\ json_vec'[i].key = KeyOf(trees[i])
                 ELSE i = 1 => json_vec'[i].key = NoKey
      <3>1. CASE i = n + 1
        <4>1. trees[i] = t /\ json_vec'[i].key = key'
          BY <1>3, <1>4, <3>1
        <4>2. i = 1 => key = NoKey
          BY <1>4, <3>1 DEF KeysOK, ResultKeysOK
        <4> HIDE DEF t
        <4> QED
          BY <1>1, <1>2, <4>1, <4>2
      <3>2. CASE i # n + 1
        <4>1. i \in 1 .. n
          BY <1>4, <3>2
        <4>2. json_vec'[i] = json_vec[i]
          BY <1>4, <4>1
        <4> QED
          BY <4>1, <4>2 DEF KeysOK, ResultKeysOK
      <3> QED
        BY <3>1, <3>2
    <2>2. data' = data /\ trees' = trees
      BY <1>1
    <2>3. Len(json_vec') # 0 /\ Len(json_vec') = n + 1
      BY <1>4
    <2> HIDE DEF n
    <2>4. ASSUME NEW i \in 1 .. Len(json_vec')
          PROVE  (IF data[trees[i]].kind = "list"
                  THEN /\ ~Unsupported(data, trees[i])
                       /\ json_vec[i].key = KeyOf(trees[i])
                  ELSE i = 1 => json_vec[i].key = NoKey)'
      <3>1. i \in 1 .. n + 1
        BY <2>3
      <3>2. KeyOf(trees[i])' = KeyOf(trees[i])
        BY <2>2 DEF KeyOf, KeyNode, KeyJson
      <3> QED
        BY <2>1, <2>2, <3>1, <3>2
    <2> QED
      BY <2>3, <2>4, Zenon DEF ResultKeysOK
  <1>7. UpdatePathsOK'
    <2>1. Len(updates) \in Nat /\ Len(Opened) \in {0, 1}
      BY OpenedTyped, Appended DEF ReadInv, UpdatesOK
    <2>2. Len(updates) - Len(Opened) <= n
      BY <1>4, <2>1 DEF ReadInv, UpdatesOK
    <2>3. \A i \in 1 .. Len(updates) - Len(Opened) : json_vec'[i] = json_vec[i]
      BY <1>4, <2>1, <2>2
    <2> QED
      BY <1>1, <1>5, <2>3 DEF KeysOK, UpdatePathsOK
  <1> QED
    BY <1>6, <1>7 DEF KeysOK

LEMMA AddUpdateKeys ==
    ASSUME ReadInv, KeysOK, AddUpdate
    PROVE  KeysOK'
  <1> DEFINE m == Len(updates) - Len(Opened)
             k == json_vec[m + 1].key
             u == Update(Keyed(request.path, Next1.key), Next1.data)
  <1>1. /\ outcome = "update" /\ updates' = Append(updates, u)
        /\ data' = data /\ request' = request /\ trees' = trees
        /\ json_vec' = json_vec /\ key' = key
    BY DEF AddUpdate, Adding
  <1>2. Opened' = Opened
    BY <1>1 DEF Opened
  <1>3. Len(Opened) \in {0, 1}
    BY OpenedTyped DEF ReadInv
  <1>4. u.path = Keyed(request.path, k)
    BY DEF Update, Next1
  <1>5. HasKey(k) => Elements(request.path) >= 1
    <2>1. IsPath(request.path)
      BY Inputs DEF ReadInv
    <2>2. HasKey(k) => request.path.elem # <<>>
      BY DEF AddUpdate, Next1, HasKey
    <2> QED
      BY <2>1, <2>2, SomeElements
  <1> HIDE DEF u
  <1>6. /\ Len(updates) \in Nat /\ Len(updates') = Len(updates) + 1
        /\ \A i \in 1 .. Len(updates) : updates'[i] = updates[i]
        /\ updates'[Len(updates) + 1] = u
    BY <1>1, Appended DEF ReadInv, UpdatesOK
  <1>7. m \in Nat /\ Len(updates') - Len(Opened) = m + 1
    BY <1>1, <1>3, <1>6 DEF ReadInv, PhaseOK
  <1>8. ResultKeysOK'
    <2>1. /\ data' = data /\ trees' = trees /\ json_vec' = json_vec
          /\ key' = key
      BY <1>1
    <2> QED
      BY <2>1 DEF KeysOK, ResultKeysOK, KeyOf, KeyNode, KeyJson
  <1>9. ASSUME NEW i \in 1 .. m + 1
        PROVE  /\ updates'[i + Len(Opened)].path =
                      Keyed(request.path, json_vec[i].key)
               /\ HasKey(json_vec[i].key) => Elements(request.path) >= 1
    <2>1. CASE i = m + 1
      <3>1. i + Len(Opened) = Len(updates) + 1 /\ json_vec[i].key = k
        BY <1>3, <1>6, <2>1
      <3> HIDE DEF k
      <3> QED
        BY <1>4, <1>5, <1>6, <3>1
    <2>2. CASE i # m + 1
      <3>1. i \in 1 .. m
        BY <1>7, <2>2
      <3>2. i + Len(Opened) \in 1 .. Len(updates)
        BY <1>3, <1>6, <3>1
      <3>3. updates'[i + Len(Opened)] = updates[i + Len(Opened)]
        BY <1>6, <3>2
      <3> QED
        BY <3>1, <3>3 DEF KeysOK, UpdatePathsOK
    <2> QED
      BY <2>1, <2>2
  <1>10. UpdatePathsOK'
    <2> HIDE DEF m
    <2> QED
      BY <1>1, <1>2, <1>7, <1>9 DEF UpdatePathsOK
  <1> QED
    BY <1>8, <1>10 DEF KeysOK

LEMMA KeysStart == Init => KeysOK
  <1> SUFFICES ASSUME Init PROVE KeysOK
    OBVIOUS
  <1>1. /\ key = NoKey /\ Len(json_vec) = 0 /\ Len(updates) = 0
        /\ request \in Request
    BY DEF Init
  <1>2. Len(Opened) \in {0, 1}
    BY <1>1, OpenedTyped
  <1> QED
    BY <1>1, <1>2 DEF KeysOK, ResultKeysOK, UpdatePathsOK

LEMMA KeysStep ==
    ASSUME ReadInv, KeysOK, [Next]_vars
    PROVE  KeysOK'
  <1>1. CASE Select
    <2>1. /\ json_vec = <<>> /\ updates' = Opened /\ key' = key
          /\ json_vec' = json_vec /\ request' = request
      BY <1>1 DEF ReadInv, PhaseOK, Select, Return
    <2>2. Opened' = Opened /\ Len(json_vec) = 0
      BY <2>1 DEF Opened
    <2>3. Len(Opened) \in {0, 1}
      BY OpenedTyped DEF ReadInv
    <2> QED
      BY <2>1, <2>2, <2>3 DEF KeysOK, ResultKeysOK, UpdatePathsOK
  <1>2. CASE ReadTree
    BY <1>2, ReadTreeKeys
  <1>3. CASE ReadThrows
    BY <1>3, KeysStay DEF ReadThrows, Return
  <1>4. CASE ReadCrashes
    BY <1>4, KeysStay DEF ReadCrashes, Return
  <1>5. CASE ReadDone
    BY <1>5, KeysStay DEF ReadDone, Return
  <1>6. CASE AddUpdate
    BY <1>6, AddUpdateKeys
  <1>7. CASE AddUndefined
    BY <1>7, KeysStay DEF AddUndefined, Return
  <1>8. CASE AddDone
    BY <1>8, KeysStay DEF AddDone, Return
  <1>9. CASE UNCHANGED vars
    BY <1>9, KeysStay DEF vars
  <1> QED
    BY <1>1, <1>2, <1>3, <1>4, <1>5, <1>6, <1>7, <1>8, <1>9 DEF Next

LEMMA KeysSound == Spec => [](ReadInv /\ KeysOK)
  BY ReadStarts, ReadStep, KeysStart, KeysStep, PTL DEF Spec

-----------------------------------------------------------------------------
(***************************************************************************)
(* The key children of a list entry: they come first, each is the only     *)
(* child of its name, and another entry of the list differs in one of them.*)
(***************************************************************************)
WellKeyed(d, n) ==
    /\ \E c \in Below(d, n) : d[c].key /\ \A e \in Below(d, n) : c <= e
    /\ \A c \in Below(d, n) : d[c].key =>
           /\ d[c].kind \in Scalar /\ d[c].name # ""
           /\ \A e \in Below(d, n) : d[e].name = d[c].name => e = c
    /\ \A m \in DOMAIN d \ {n} :
           d[m].kind = "list" /\ d[m].parent = d[n].parent /\ d[m].name = d[n].name
           => \E c \in Below(d, n), e \in Below(d, m) :
                  /\ d[c].key /\ d[e].key /\ d[c].name = d[e].name
                  /\ d[c].value # d[e].value

NoKeys(d, n) == \A c \in Below(d, n) : ~d[c].key

\* An entry of a list without keys whose first child is a leaf, and the only
\* child of its name.
Keyless(d, n) ==
    NoKeys(d, n) /\ \E p \in Below(d, n) : FirstKey(d, n, p) /\ d[p].name # ""

\* Only the entries of lists have keys.
TreesKeyed ==
    \A i \in DOMAIN trees :
        IF data[trees[i]].kind = "list"
        THEN WellKeyed(data, trees[i]) \/ Keyless(data, trees[i])
        ELSE NoKeys(data, trees[i])

\* What json_read takes for the key of an entry.
LEMMA TheKey ==
    ASSUME NEW d, NEW n, WellKeyed(d, n) \/ Keyless(d, n)
    PROVE  \E p : /\ FirstKey(d, n, p) /\ d[p].name # ""
                  /\ WellKeyed(d, n) => d[p].key
                  /\ \A v : Held(d, n, d[p].name, v) => v = d[p].value
                  /\ Held(d, n, d[p].name, d[p].value)
  <1>1. PICK p : /\ FirstKey(d, n, p) /\ d[p].name # ""
                 /\ WellKeyed(d, n) => d[p].key
    <2>1. CASE WellKeyed(d, n)
      <3>1. PICK p \in Below(d, n) : d[p].key /\ \A e \in Below(d, n) : p <= e
        BY <2>1 DEF WellKeyed
      <3>2. /\ d[p].kind \in Scalar /\ d[p].name # ""
            /\ \A e \in Below(d, n) : d[e].name = d[p].name => e = p
        BY <2>1, <3>1 DEF WellKeyed
      <3> QED
        BY <3>1, <3>2 DEF FirstKey
    <2>2. CASE ~WellKeyed(d, n)
      BY <2>2 DEF Keyless
    <2> QED
      BY <2>1, <2>2
  <1>2. /\ p \in Below(d, n)
        /\ \A e \in Below(d, n) : d[e].name = d[p].name => e = p
    BY <1>1 DEF FirstKey
  <1>3. \A v : Held(d, n, d[p].name, v) => v = d[p].value
    BY <1>2 DEF Held
  <1>4. Held(d, n, d[p].name, d[p].value)
    BY <1>2 DEF Held
  <1> QED
    BY <1>1, <1>3, <1>4

\* A node with one key child has no other.
LEMMA OnlyKey ==
    ASSUME NEW d, WellFormed(d), NEW n,
           Cardinality({c \in Below(d, n) : d[c].key}) = 1
    PROVE  /\ \E c \in Below(d, n) : d[c].key
           /\ \A c, e \in Below(d, n) : d[c].key /\ d[e].key => c = e
  <1> DEFINE K == {c \in Below(d, n) : d[c].key}
  <1>1. Len(d) \in Nat /\ K \in SUBSET (0 .. Len(d))
    <2>1. Len(d) \in Nat /\ DOMAIN d = 1 .. Len(d) /\ Below(d, n) \in SUBSET DOMAIN d
      BY Numbered
    <2> QED
      BY <2>1
  <1> HIDE DEF K
  <1>2. IsFiniteSet(K)
    BY <1>1, Finite
  <1>3. Cardinality(K) = 1
    BY DEF K
  <1>4. PICK x : K = {x}
    BY <1>2, <1>3, FS_Singleton, Zenon
  <1> QED
    BY <1>4 DEF K

\* Two entries with one key each do not hold the same.
LEMMA KeysDiffer ==
    ASSUME NEW d, WellFormed(d), NEW n \in DOMAIN d, WellKeyed(d, n),
           Cardinality({c \in Below(d, n) : d[c].key}) = 1,
           NEW m \in DOMAIN d, m # n, WellKeyed(d, m), d[m].kind = "list",
           d[m].parent = d[n].parent, d[m].name = d[n].name,
           NEW p \in Below(d, n), d[p].key
    PROVE  ~Held(d, m, d[p].name, d[p].value)
  <1>1. PICK c \in Below(d, n), e \in Below(d, m) :
            /\ d[c].key /\ d[e].key /\ d[c].name = d[e].name
            /\ d[c].value # d[e].value
    BY DEF WellKeyed
  <1>2. c = p
    BY <1>1, OnlyKey
  <1>3. \A x \in Below(d, m) : d[x].name = d[e].name => x = e
    BY <1>1 DEF WellKeyed
  <1> QED
    BY <1>1, <1>2, <1>3 DEF Held

\* The nodes wanted are those that the path reaches.
LEMMA WantedReached ==
    ASSUME data \in Data, request \in Request
    PROVE  LET x == FullPath(request)
               S == Reached(data, x, Len(x)) \ {0}
           IN  /\ \A i \in 1 .. Len(Wanted) : Wanted[i] \in S
               /\ \A m \in S : \E j \in 1 .. Len(Wanted) : Wanted[j] = m
  <1> DEFINE x == FullPath(request)
             S == Reached(data, x, Len(x)) \ {0}
  <1>1. /\ Len(data) \in Nat /\ S \in SUBSET (0 .. Len(data))
        /\ Wanted = InOrder(S)
    BY WantedTyped, SelectedOrdered DEF Wanted
  <1> HIDE DEF S
  <1>2. /\ Len(Wanted) = Cardinality(S)
        /\ \A i \in 1 .. Cardinality(S) : Wanted[i] \in S
        /\ \A m \in S : Before(S, m) + 1 \in 1 .. Cardinality(S)
                        /\ Wanted[Before(S, m) + 1] = m
    BY <1>1, Ordered
  <1> QED
    BY <1>2 DEF S

\* The path that names the key of an entry selects the entry alone.
LEMMA EntryReadsBack ==
    ASSUME data \in Data, request \in Request, NoWildcard, trees = Wanted,
           TreesKeyed, Len(trees) = 1 \/ SameList,
           NEW i \in 1 .. Len(trees), data[trees[i]].kind = "list",
           PlainKey(trees[i]),
           ~Unsupported(data, trees[i]),
           NEW x, x = FullPath(request), DOMAIN x = 1 .. Len(x),
           NEW y, Narrows(y, x, KeyOf(trees[i]))
    PROVE  Selected(data, y) = <<trees[i]>>
  <1> DEFINE L == Len(x)
             t == trees[i]
             R == Reached(data, x, L)
  <1>1. /\ WellFormed(data) /\ t \in DOMAIN data /\ i \in DOMAIN trees
        /\ DOMAIN trees = 1 .. Len(trees)
        /\ \A j \in DOMAIN trees : trees[j] \in DOMAIN data
    BY WantedTyped
  <1>2. \A j \in DOMAIN trees :
            OneKey(trees[j]) =>
                data[trees[j]].kind = "list" /\ WellKeyed(data, trees[j])
    <2> TAKE j \in DOMAIN trees
    <2> HAVE OneKey(trees[j])
    <2>1. Cardinality({c \in Below(data, trees[j]) : data[c].key}) = 1
      BY DEF OneKey
    <2>2. ~NoKeys(data, trees[j])
      BY <1>1, <2>1, OnlyKey DEF NoKeys
    <2> QED
      BY <2>2 DEF TreesKeyed, Keyless
  <1>3. PICK p : /\ FirstKey(data, t, p) /\ data[p].name # ""
                 /\ WellKeyed(data, t) => data[p].key
                 /\ \A v : Held(data, t, data[p].name, v) => v = data[p].value
                 /\ Held(data, t, data[p].name, data[p].value)
    <2>1. WellKeyed(data, t) \/ Keyless(data, t)
      BY <1>1 DEF TreesKeyed
    <2> QED
      BY <2>1, TheKey
  <1> DEFINE a == data[p].name
             b == data[p].value
  <1>4. KeyOf(t) = <<a, b>>
    BY <1>1, <1>3, PlainKeyFound
  <1>5. /\ \A j \in 1 .. Len(trees) : trees[j] \in R \ {0}
        /\ \A m \in R \ {0} : \E j \in 1 .. Len(trees) : trees[j] = m
    BY WantedReached
  <1>6. \A m \in R : m \in DOMAIN data /\ Matches(data, m, x[L])
    <2>1. L \in 1 .. Len(x) /\ Len(x) \in Nat
      BY DEF Narrows
    <2> QED
      BY <2>1, ReachedUnfolds
  <1>7. x[L].name # "*"
    <2>1. L \in DOMAIN x
      BY DEF Narrows
    <2> QED
      BY <2>1 DEF NoWildcard
  <1>8. ASSUME NEW m \in R, m # t PROVE ~Held(data, m, a, b)
    <2>1. m \in DOMAIN data /\ m # 0
      BY <1>1, <1>6, Numbered
    <2>2. PICK j \in DOMAIN trees : trees[j] = m
      BY <1>1, <1>5, <2>1
    <2>3. SameList
      BY <1>1, <1>8, <2>2
    <2>4. /\ OneKey(m) /\ OneKey(t) /\ data[m].parent = data[t].parent
      BY <1>1, <2>2, <2>3 DEF SameList
    <2>5. data[m].name = data[t].name
      <3>1. Matches(data, m, x[L]) /\ Matches(data, t, x[L])
        BY <1>5, <1>6
      <3> QED
        BY <1>7, <3>1 DEF Matches
    <2>6. WellKeyed(data, t) /\ WellKeyed(data, m) /\ data[m].kind = "list"
      BY <1>1, <1>2, <2>2, <2>4
    <2>7. p \in Below(data, t) /\ data[p].key
      BY <1>3, <2>6 DEF FirstKey
    <2>8. Cardinality({c \in Below(data, t) : data[c].key}) = 1
      BY <2>4 DEF OneKey
    <2> QED
      BY <1>1, <1>8, <2>1, <2>4, <2>5, <2>6, <2>7, <2>8, KeysDiffer
  <1>9. HeldByOne(data, R, t, a, b)
    BY <1>3, <1>5, <1>8 DEF HeldByOne
  <1>10. Narrows(y, x, <<a, b>>)
    BY <1>4
  <1>11. \A m : m \in Reached(data, y, L) <=> m = t
    <2> HIDE DEF a, b, t
    <2> QED
      BY <1>9, <1>10, Narrowed
  <1>12. Len(y) = L /\ L \in Nat
    BY DEF Narrows
  <1> QED
    BY <1>1, <1>11, <1>12, SelectsOne

\* A key without quotes leaves an XPath well-formed.
LEMMA NarrowsWell ==
    ASSUME NEW x, NEW y, NEW k, Narrows(y, x, k), k[2] \notin Quoted,
           DOMAIN x = 1 .. Len(x), DOMAIN y = 1 .. Len(y), ~BadXPath(x)
    PROVE  ~BadXPath(y)
  <1> DEFINE L == Len(x)
  <1>1. /\ L \in Nat /\ L >= 1 /\ Len(y) = L /\ 1 \in DOMAIN y /\ L \in DOMAIN x
        /\ \A i \in 1 .. L - 1 : y[i] = x[i]
        /\ y[L].module = x[L].module
        /\ y[L].key = WithKey(x[L].key, k)
    BY DEF Narrows
  <1>2. x # <<>> /\ x[1].module # "" /\ \A i \in DOMAIN x : ~Broken(x[i])
    <2>1. x # <<>>
      <3>1. Len(<<>>) = 0
        OBVIOUS
      <3> QED
        BY <1>1, <3>1
    <2> QED
      BY <2>1 DEF BadXPath
  <1>3. y[1].module = x[1].module
    <2>1. CASE L = 1
      BY <1>1, <2>1
    <2>2. CASE L # 1
      <3>1. 1 \in 1 .. L - 1
        BY <1>1, <2>2
      <3> QED
        BY <1>1, <3>1
    <2> QED
      BY <2>1, <2>2
  <1>4. ~Broken(y[L])
    <2> DEFINE keys == x[L].key
               new == y[L].key
    <2>1. /\ DOMAIN new = DOMAIN keys \cup {k[1]}
          /\ \A name \in DOMAIN new :
                 new[name] = IF name = k[1] THEN k[2] ELSE keys[name]
      BY <1>1 DEF WithKey
    <2>2. \A name \in DOMAIN keys : keys[name] \notin Quoted
      BY <1>1, <1>2 DEF Broken
    <2> HIDE DEF keys
    <2>3. \A name \in DOMAIN new : new[name] \notin Quoted
      BY <2>1, <2>2
    <2> QED
      BY <2>3 DEF Broken
  <1>5. \A i \in DOMAIN y : ~Broken(y[i])
    <2> TAKE i \in DOMAIN y
    <2>1. i \in 1 .. L
      BY <1>1
    <2>2. CASE i = L
      BY <1>4, <2>2
    <2>3. CASE i # L
      <3>1. i \in 1 .. L - 1 /\ i \in DOMAIN x
        BY <1>1, <2>1, <2>3
      <3>2. y[i] = x[i]
        BY <1>1, <3>1
      <3> QED
        BY <1>2, <3>1, <3>2
    <2> QED
      BY <2>2, <2>3
  <1>6. y # <<>>
    <2>1. Len(<<>>) = 0
      OBVIOUS
    <2> QED
      BY <1>1, <2>1
  <1> QED
    BY <1>2, <1>3, <1>5, <1>6 DEF BadXPath

\* Only a well-formed path is read.
PathRead == outcome \in {"read", "update", "OK"} => ~BadXPath(FullPath(request))

LEMMA PathReadStep ==
    ASSUME PathRead, [Next]_vars
    PROVE  PathRead'
  <1>1. request' = request
    BY DEF Next, Select, ReadTree, ReadThrows, ReadCrashes, ReadDone, AddUpdate,
           AddUndefined, AddDone, Return, vars
  <1>2. FullPath(request)' = FullPath(request)
    BY <1>1
  <1>3. BadXPath(FullPath(request))' <=> BadXPath(FullPath(request))
    BY <1>2
  <1>4. CASE Select
    BY <1>3, <1>4 DEF Select, Return, PathRead
  <1>5. CASE outcome \in {"read", "update", "OK"}
    BY <1>3, <1>5 DEF PathRead
  <1>6. CASE outcome' = outcome
    BY <1>3, <1>6 DEF PathRead
  <1>7. Next => Select \/ outcome \in {"read", "update"}
    BY DEF Next, ReadTree, ReadThrows, ReadCrashes, ReadDone, AddUpdate,
           AddUndefined, AddDone, Reading, Adding
  <1> QED
    BY <1>4, <1>5, <1>6, <1>7 DEF vars

LEMMA PathReadSound == Spec => []PathRead
  <1>1. Init => PathRead
    BY DEF Init, PathRead
  <1> QED
    BY <1>1, PathReadStep, PTL DEF Spec

(***************************************************************************)
(* An Update's path reads back where UpdatesReadBack says it does: when the*)
(* list entries that are answered have their keys first, or no keys and a  *)
(* leaf first, a Get of the path of an Update is well-formed and selects   *)
(* exactly the tree that the Update holds, for data trees and paths of any *)
(* size, any texts of decimal64s and any values with quotes                *)
(* (json_ietf.cpp:94, 170-174, get.cpp:65-70, 109-124, utils.h:37-61).     *)
(***************************************************************************)
THEOREM UpdatesAlwaysReadBack == Spec => [](TreesKeyed => UpdatesReadBack)
  <1>1. \A p : p.elem = <<>> => Elements(p) = 0
    BY DEF Elements
  <1>2. ReadInv /\ KeysOK /\ PathRead /\ TreesKeyed => UpdatesReadBack
    <2> SUFFICES ASSUME ReadInv, KeysOK, PathRead, TreesKeyed, outcome = "OK",
                        NoWildcard,
                        request.rpc = "Subscribe" => Elements(request.prefix) = 0,
                        Len(trees) = 1 \/ SameList,
                        \A j \in DOMAIN trees : PlainKey(trees[j]),
                        NEW i \in DOMAIN Answers
                 PROVE  ReadsBack(i)
      BY <1>1 DEF UpdatesReadBack
    <2> DEFINE k == json_vec[i].key
               x == FullPath(request)
               y == ToXPath(request.prefix) \o ToXPath(Keyed(request.path, k))
    <2>1. /\ trees = Wanted /\ i \in 1 .. Len(trees) /\ Len(json_vec) = Len(trees)
          /\ Len(updates) - Len(Opened) = Len(trees)
          /\ Answers[i] = updates[i + Len(Opened)]
      BY AnswersListed
    <2>2. data \in Data /\ request \in Request
      BY DEF ReadInv
    <2>3. /\ Answers[i].path = Keyed(request.path, k)
          /\ HasKey(k) => Elements(request.path) >= 1
      BY <2>1 DEF KeysOK, UpdatePathsOK
    <2>4. /\ Len(x) \in Nat /\ DOMAIN x = 1 .. Len(x)
          /\ DOMAIN y = 1 .. Len(y)
          /\ ~HasKey(k) => y = x
          /\ HasKey(k) => Narrows(y, x, k)
      BY <2>2, <2>3, KeyedFullPath
    <2>5. WellFormed(data) /\ i \in DOMAIN trees /\ trees[i] \in DOMAIN data
      BY <2>1, <2>2, WantedTyped
    <2>6. ~BadXPath(x)
      BY DEF PathRead
    <2>7. ~BadXPath(y) /\ Selected(data, y) = <<trees[i]>>
      <3>1. CASE data[trees[i]].kind = "list"
        <4>1. ~Unsupported(data, trees[i]) /\ k = KeyOf(trees[i])
          BY <2>1, <3>1 DEF KeysOK, ResultKeysOK
        <4>2. PICK p : /\ FirstKey(data, trees[i], p) /\ data[p].name # ""
          <5>1. WellKeyed(data, trees[i]) \/ Keyless(data, trees[i])
            BY <2>5, <3>1 DEF TreesKeyed
          <5> QED
            BY <5>1, TheKey
        <4>5. PlainKey(trees[i])
          BY <2>5
        <4>3. k = <<data[p].name, data[p].value>> /\ k[2] \notin Quoted
          <5>1. /\ KeyOf(trees[i]) = <<data[p].name, data[p].value>>
                /\ KeyOf(trees[i])[2] \notin Quoted
            BY <2>2, <2>5, <3>1, <4>1, <4>2, <4>5, WantedTyped, PlainKeyFound
          <5> HIDE DEF k
          <5> QED
            BY <4>1, <5>1
        <4>4. HasKey(k)
          <5> HIDE DEF k
          <5>1. k[1] = data[p].name
            BY <4>3
          <5> QED
            BY <4>2, <5>1 DEF HasKey
        <4> HIDE DEF k, x, y
        <4>6. Selected(data, y) = <<trees[i]>>
          BY <2>1, <2>2, <2>4, <3>1, <4>1, <4>4, <4>5, EntryReadsBack DEF x
        <4>7. ~BadXPath(y)
          BY <2>4, <2>6, <4>3, <4>4, NarrowsWell
        <4> QED
          BY <4>6, <4>7
      <3>2. CASE data[trees[i]].kind # "list"
        <4>1. ~OneKey(trees[i])
          <5>1. \A c \in Below(data, trees[i]) : ~data[c].key
            BY <2>5, <3>2 DEF TreesKeyed, NoKeys
          <5> QED
            BY <2>5, <5>1, OnlyKey DEF OneKey
        <4>2. Len(trees) = 1
          BY <2>5, <4>1 DEF SameList
        <4>3. i = 1 /\ k = NoKey
          BY <2>1, <3>2, <4>2 DEF KeysOK, ResultKeysOK
        <4>4. y = x
          <5>1. ~HasKey(NoKey)
            BY DEF HasKey, NoKey
          <5> QED
            BY <2>4, <4>3, <5>1, Zenon
        <4>5. Selected(data, x) = trees
          BY <2>1 DEF Wanted
        <4>6. trees = <<trees[1]>>
          <5>1. trees \in Seq(DOMAIN data)
            BY <2>1, <2>2, WantedTyped
          <5> QED
            BY <4>2, <5>1
        <4> HIDE DEF x, y
        <4> QED
          BY <2>6, <4>3, <4>4, <4>5, <4>6
      <3> QED
        BY <3>1, <3>2
    <2> HIDE DEF x
    <2> QED
      BY <2>3, <2>7 DEF ReadsBack
  <1> QED
    BY <1>2, KeysSound, PathReadSound, PTL
=============================================================================
