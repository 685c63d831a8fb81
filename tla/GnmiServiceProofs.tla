-------------------------- MODULE GnmiServiceProofs --------------------------
(***************************************************************************)
(* Proofs about GnmiService for every set of leaves, Sets, Gets, peers and *)
(* requests, every choice of faults and any number of RPCs in flight.      *)
(***************************************************************************)
EXTENDS GnmiService, TLAPS

-----------------------------------------------------------------------------
(***************************************************************************)
(* The operators of the model.                                             *)
(***************************************************************************)

\* Laying a partial assignment over a total one gives a total one.
LEMMA OverTotal ==
    ASSUME NEW K \in SUBSET Leaf,
           NEW f \in [K -> Cell], NEW g \in [Leaf -> Cell]
    PROVE  Over(f, g) \in [Leaf -> Cell]
  BY DEF Over

\* Laying one partial assignment over another gives a partial one.
LEMMA OverPartial ==
    ASSUME NEW K \in SUBSET Leaf, NEW L \in SUBSET Leaf,
           NEW f \in [K -> Cell], NEW g \in [L -> Cell]
    PROVE  Over(f, g) \in [K \cup L -> Cell]
  BY DEF Over

\* The operations of a typed request are typed, and each keeps its calls.
LEMMA OperationsTyped ==
    ASSUME NEW q \in Request
    PROVE  Operations(q) \in Seq([kind : {"DELETE", "REPLACE", "UPDATE"},
                                  form : Form, calls : Seq(SUBSET Leaf)])
  <1> DEFINE O == [kind : {"DELETE", "REPLACE", "UPDATE"},
                   form : Form, calls : Seq(SUBSET Leaf)]
  <1>1. ASSUME NEW kind \in {"DELETE", "REPLACE", "UPDATE"},
               NEW ops \in Seq(Operation)
        PROVE  Tagged(kind, ops) \in Seq(O)
    <2>1. /\ DOMAIN ops = 1 .. Len(ops)
          /\ Len(ops) \in Nat
      OBVIOUS
    <2>2. \A i \in DOMAIN ops : ops[i] \in Operation
      OBVIOUS
    <2>3. \A i \in 1 .. Len(ops) :
            [kind |-> kind, form |-> ops[i].form, calls |-> ops[i].calls] \in O
      BY <2>1, <2>2 DEF Operation
    <2>4. Tagged(kind, ops) \in [1 .. Len(ops) -> O]
      BY <2>1, <2>3 DEF Tagged
    <2> HIDE DEF O
    <2> QED
      BY <2>1, <2>4
  <1>2. /\ q.delete \in Seq(Operation)
        /\ q.replace \in Seq(Operation)
        /\ q.update \in Seq(Operation)
    BY DEF Request
  <1>3. /\ Tagged("DELETE", q.delete) \in Seq(O)
        /\ Tagged("REPLACE", q.replace) \in Seq(O)
        /\ Tagged("UPDATE", q.update) \in Seq(O)
    BY <1>1, <1>2
  <1> HIDE DEF O
  <1>4. Operations(q) \in Seq(O)
    BY <1>3 DEF Operations
  <1> QED
    BY <1>4 DEF O

\* The paths of a Get request are a sequence of sets of leaves.
LEMMA PathsTyped ==
    ASSUME NEW q \in GetRequest
    PROVE  /\ q.paths \in Seq((SUBSET Leaf) \ {{}})
           /\ Len(q.paths) \in Nat
  <1> DEFINE S == Seq((SUBSET Leaf) \ {{}})
  <1>1. GetRequest \subseteq [rejected : BOOLEAN, paths : S]
    BY GetRequests
  <1>2. q.paths \in S
    <2> HIDE DEF S
    <2> QED
      BY <1>1
  <1> QED
    BY <1>2

-----------------------------------------------------------------------------
(***************************************************************************)
(* Type correctness.  It holds of each part of the state separately, but   *)
(* the session's part needs the requests to be typed, and the Gets' part   *)
(* needs the session's.                                                    *)
(***************************************************************************)
LEMMA CellsTyped ==
    /\ [by |-> Boot, op |-> 0, present |-> TRUE] \in Cell
    /\ \A r \in SetRpc, k \in Nat, b \in BOOLEAN :
           [by |-> r, op |-> k, present |-> b] \in Cell
    /\ \A p \in Peer, b \in BOOLEAN :
           [by |-> p, op |-> 0, present |-> b] \in Cell
  BY DEF Cell, Writer

LEMMA InitTyped == Init => TypeOK
  <1> SUFFICES ASSUME Init PROVE TypeOK
    OBVIOUS
  <1> USE DEF Init
  <1>1. SysrepoTypeOK
    <2>1. log \in Seq([Leaf -> Cell]) /\ Len(log) = 1
      BY CellsTyped DEF SysrepoInit, Initially
    <2>2. {} \in SUBSET Leaf /\ edits \in [{} -> Cell]
      BY DEF SysrepoInit, NoEdits
    <2>3. cached = 1
      BY DEF SysrepoInit
    <2> QED
      BY <2>1, <2>2, <2>3 DEF SysrepoTypeOK
  <1>2. SetTypeOK
    BY DEF SetInit, SetTypeOK
  <1>3. GetTypeOK
    <2>1. \A g \in GetRpc : getReq[g].paths \in Seq((SUBSET Leaf) \ {{}})
      BY PathsTyped DEF GetInit
    <2>2. NotificationsMatchPaths
      <3>1. \A g \in GetRpc : Len(getReq[g].paths) \in Nat
        BY <2>1
      <3>2. \A g \in GetRpc : got[g] = <<>> /\ getState[g] = "idle"
        BY DEF GetInit
      <3> QED
        BY <3>1, <3>2 DEF NotificationsMatchPaths
    <2>3. got \in [GetRpc -> Seq(Notification)]
      BY DEF GetInit
    <2> QED
      BY <2>2, <2>3 DEF GetInit, GetTypeOK
  <1> QED
    BY <1>1, <1>2, <1>3 DEF TypeOK

\* Each call on the session keeps its state typed.
LEMMA StageTyped ==
    ASSUME SysrepoTypeOK, NEW L \in SUBSET Leaf, NEW c \in Cell, Stage(L, c)
    PROVE  SysrepoTypeOK'
  <1>1. PICK K \in SUBSET Leaf : edits \in [K -> Cell]
    BY DEF SysrepoTypeOK
  <1>2. [l \in L |-> c] \in [L -> Cell]
    OBVIOUS
  <1>3. Over([l \in L |-> c], edits) \in [L \cup K -> Cell]
    BY <1>1, <1>2, OverPartial
  <1>4. \E M \in SUBSET Leaf : edits' \in [M -> Cell]
    BY <1>3 DEF Stage
  <1> QED
    BY <1>4 DEF SysrepoTypeOK, Stage

LEMMA CommitTyped ==
    ASSUME SysrepoTypeOK, Commit
    PROVE  /\ SysrepoTypeOK'
           /\ Len(log') = Len(log) + 1
           /\ \A n \in 1 .. Len(log) : log'[n] = log[n]
           /\ cached' = Len(log')
  <1> USE DEF SysrepoTypeOK
  <1>1. PICK K \in SUBSET Leaf : edits \in [K -> Cell]
    OBVIOUS
  <1>2. Running \in [Leaf -> Cell]
    BY DEF Running
  <1>3. Over(edits, Running) \in [Leaf -> Cell]
    BY <1>1, <1>2, OverTotal
  <1>4. /\ log' \in Seq([Leaf -> Cell])
        /\ Len(log') = Len(log) + 1
        /\ \A n \in 1 .. Len(log) : log'[n] = log[n]
    BY <1>3 DEF Commit
  <1>5. edits' \in [{} -> Cell]
    BY DEF Commit, NoEdits
  <1>6. \E M \in SUBSET Leaf : edits' \in [M -> Cell]
    BY <1>5
  <1>7. cached' \in 1 .. Len(log') /\ cached' = Len(log')
    BY <1>4 DEF Commit
  <1> QED
    BY <1>4, <1>6, <1>7

LEMMA PeerCommitTyped ==
    ASSUME SysrepoTypeOK, NEW p \in Peer, PeerCommit(p)
    PROVE  /\ SysrepoTypeOK'
           /\ Len(log') = Len(log) + 1
           /\ \A n \in 1 .. Len(log) : log'[n] = log[n]
  <1> USE DEF SysrepoTypeOK
  <1>1. PICK L \in SUBSET Leaf, b \in BOOLEAN :
            log' = Append(log, Over(PeerChange(p, L, b), Running))
    BY DEF PeerCommit
  <1>3. PeerChange(p, L, b) \in [L -> Cell]
    BY CellsTyped DEF PeerChange
  <1>4. Running \in [Leaf -> Cell]
    BY DEF Running
  <1>5. Over(PeerChange(p, L, b), Running) \in [Leaf -> Cell]
    BY <1>3, <1>4, OverTotal
  <1>6. /\ log' \in Seq([Leaf -> Cell])
        /\ Len(log') = Len(log) + 1
        /\ \A n \in 1 .. Len(log) : log'[n] = log[n]
    BY <1>1, <1>5
  <1>7. UNCHANGED <<edits, cached>>
    BY DEF PeerCommit
  <1> QED
    BY <1>6, <1>7

LEMMA RefreshTyped ==
    ASSUME SysrepoTypeOK, Refresh
    PROVE  SysrepoTypeOK'
  BY DEF SysrepoTypeOK, Refresh

LEMMA SessionIdle ==
    ASSUME SysrepoTypeOK, UNCHANGED sysrepoVars
    PROVE  SysrepoTypeOK'
  BY DEF SysrepoTypeOK, sysrepoVars

-----------------------------------------------------------------------------
\* An operation a Set is at is typed.
LEMMA OpTyped ==
    ASSUME SetTypeOK, NEW r \in SetRpc, AtOperation(r)
    PROVE  /\ Op(r).kind \in {"DELETE", "REPLACE", "UPDATE"}
           /\ Op(r).calls \in Seq(SUBSET Leaf)
           /\ opIdx[r] \in DOMAIN Todo(r)
  <1> DEFINE O == [kind : {"DELETE", "REPLACE", "UPDATE"},
                   form : Form, calls : Seq(SUBSET Leaf)]
  <1>1. setReq[r] \in Request
    BY RequestsTyped DEF SetTypeOK
  <1>2. Todo(r) \in Seq(O)
    BY <1>1, OperationsTyped DEF Todo
  <1>3. opIdx[r] \in DOMAIN Todo(r)
    BY DEF AtOperation
  <1>4. Op(r) \in O
    <2> HIDE DEF O
    <2> QED
      BY <1>2, <1>3 DEF Op
  <1> QED
    BY <1>3, <1>4

LEMMA ReturnTyped ==
    ASSUME SetTypeOK, NEW r \in SetRpc,
           NEW status \in {"idle", "ops", "OK", "ERROR"}, Return(r, status)
    PROVE  SetTypeOK'
  BY DEF SetTypeOK, Return

\* Every step of a Set keeps the session and the Sets typed.
LEMMA SetBeginTyped ==
    ASSUME SysrepoTypeOK, SetTypeOK, NEW r \in SetRpc, SetBegin(r)
    PROVE  SysrepoTypeOK' /\ SetTypeOK'
  BY SessionIdle, ReturnTyped DEF SetBegin

LEMMA SessionCallTyped ==
    ASSUME SysrepoTypeOK, SetTypeOK, NEW r \in SetRpc, SessionCall(r)
    PROVE  SysrepoTypeOK' /\ SetTypeOK'
  <1> DEFINE c == [by |-> r, op |-> opIdx[r], present |-> Op(r).kind # "DELETE"]
             L == Op(r).calls[callIdx[r]]
  <1>1. AtOperation(r) /\ callIdx[r] \in DOMAIN Op(r).calls
    BY DEF SessionCall, AtCall
  <1>2. L \in SUBSET Leaf
    BY <1>1, OpTyped
  <1>3. c \in Cell
    BY CellsTyped DEF SetTypeOK
  <1>4. Stage(L, c)
    BY DEF SessionCall
  <1>5. SysrepoTypeOK'
    <2> HIDE DEF L, c
    <2> QED
      BY <1>2, <1>3, <1>4, StageTyped
  <1>6. SetTypeOK'
    BY DEF SessionCall, SetTypeOK
  <1> QED
    BY <1>5, <1>6

LEMMA OperationDoneTyped ==
    ASSUME SysrepoTypeOK, SetTypeOK, NEW r \in SetRpc, OperationDone(r)
    PROVE  SysrepoTypeOK' /\ SetTypeOK'
  <1> DEFINE R == [op : {"DELETE", "REPLACE", "UPDATE"}, path : BOOLEAN]
             e == UpdateResult(r)
  <1>1. SysrepoTypeOK'
    BY SessionIdle DEF OperationDone
  <1>2. e \in R
    BY OpTyped DEF OperationDone, AfterCalls, UpdateResult
  <1>3. results' \in [SetRpc -> Seq(R)]
    <2>1. results \in [SetRpc -> Seq(R)]
      BY DEF SetTypeOK
    <2>2. results' = [results EXCEPT ![r] = Append(results[r], e)]
      BY DEF OperationDone
    <2> HIDE DEF R, e
    <2> QED
      BY <1>2, <2>1, <2>2
  <1>4. /\ opIdx' \in [SetRpc -> Nat \ {0}]
        /\ callIdx' \in [SetRpc -> Nat \ {0}]
        /\ UNCHANGED <<setReq, setState>>
    BY DEF OperationDone, SetTypeOK
  <1> QED
    BY <1>1, <1>3, <1>4 DEF SetTypeOK

LEMMA SetStepTyped ==
    ASSUME SysrepoTypeOK, SetTypeOK, NEW r \in SetRpc, SetStep(r)
    PROVE  SysrepoTypeOK' /\ SetTypeOK'
  <1>1. CASE SessionCall(r)
    BY <1>1, SessionCallTyped
  <1>2. CASE CallThrows(r)
    BY <1>2, SessionIdle, ReturnTyped DEF CallThrows
  <1>3. CASE OperationDone(r)
    BY <1>3, OperationDoneTyped
  <1>4. CASE OperationRejected(r)
    BY <1>4, SessionIdle, ReturnTyped DEF OperationRejected
  <1>5. CASE SetCommit(r)
    BY <1>5, CommitTyped, ReturnTyped DEF SetCommit
  <1>6. CASE CommitThrows(r)
    BY <1>6, SessionIdle, ReturnTyped DEF CommitThrows
  <1> QED
    BY <1>1, <1>2, <1>3, <1>4, <1>5, <1>6 DEF SetStep

-----------------------------------------------------------------------------
\* A Get that is about to read has a path left, which is a set of leaves.
LEMMA PathTyped ==
    ASSUME GetTypeOK, NEW g \in GetRpc, getState[g] \in {"refresh", "read"}
    PROVE  /\ Len(got[g]) + 1 \in DOMAIN getReq[g].paths
           /\ Path(g) \in SUBSET Leaf
  <1>1. getReq[g] \in GetRequest
    BY DEF GetTypeOK
  <1>2. /\ getReq[g].paths \in Seq((SUBSET Leaf) \ {{}})
        /\ Len(getReq[g].paths) \in Nat
    BY <1>1, PathsTyped
  <1>3. got[g] \in Seq(Notification)
    BY DEF GetTypeOK
  <1>4. Len(got[g]) \in Nat /\ Len(got[g]) < Len(getReq[g].paths)
    BY <1>3 DEF GetTypeOK, NotificationsMatchPaths
  <1>5. Len(got[g]) + 1 \in DOMAIN getReq[g].paths
    BY <1>2, <1>4
  <1>6. Path(g) \in (SUBSET Leaf) \ {{}}
    BY <1>2, <1>5 DEF Path
  <1> QED
    BY <1>5, <1>6

\* What the session shows of a set of leaves is a notification.
LEMMA ShownTyped ==
    ASSUME SysrepoTypeOK, NEW L \in SUBSET Leaf
    PROVE  Shown(L) \in Notification /\ LeavesOf(Shown(L)) = L
  <1>1. PICK K \in SUBSET Leaf : edits \in [K -> Cell]
    BY DEF SysrepoTypeOK
  <1>2. log[cached] \in [Leaf -> Cell]
    BY DEF SysrepoTypeOK
  <1>3. View \in [Leaf -> Cell]
    BY <1>1, <1>2, OverTotal DEF View
  <1> DEFINE U(l) ==
                 [leaf |-> l, cell |-> View[l], staged |-> l \in DOMAIN edits]
  <1>4. Shown(L) = {U(l) : l \in L}
    BY DEF Shown
  <1>5. \A l \in L : U(l).leaf = l
    OBVIOUS
  <1>6. \A l \in L : U(l) \in [leaf : Leaf, cell : Cell, staged : BOOLEAN]
    <2> SUFFICES ASSUME NEW l \in L
                 PROVE  U(l) \in [leaf : Leaf, cell : Cell, staged : BOOLEAN]
      OBVIOUS
    <2>1. l \in Leaf /\ View[l] \in Cell
      BY <1>3
    <2>2. (l \in DOMAIN edits) \in BOOLEAN
      OBVIOUS
    <2> QED
      BY <2>1, <2>2
  <1> HIDE DEF U
  <1>7. LeavesOf(Shown(L)) = L
    BY <1>4, <1>5 DEF LeavesOf
  <1>8. Shown(L) \in Notification
    BY <1>4, <1>6 DEF Notification
  <1> QED
    BY <1>7, <1>8

LEMMA GetReturnTyped ==
    ASSUME GetTypeOK, NEW g \in GetRpc, getState[g] # "idle",
           NEW status \in {"OK", "ERROR"}, GetReturn(g, status)
    PROVE  GetTypeOK'
  BY DEF GetReturn, GetTypeOK, NotificationsMatchPaths

LEMMA GetBeginTyped ==
    ASSUME SysrepoTypeOK, GetTypeOK, NEW g \in GetRpc,
           NEW done \in SUBSET SetRpc, GetBegin(g, done)
    PROVE  SysrepoTypeOK' /\ GetTypeOK'
  <1>1. SysrepoTypeOK'
    BY SessionIdle DEF GetBegin
  <1>2. Len(log) \in Nat \ {0}
    BY DEF SysrepoTypeOK
  <1>3. /\ getState' \in [GetRpc -> {"idle", "refresh", "read", "OK", "ERROR"}]
        /\ since' \in [GetRpc -> Nat \ {0}]
        /\ settled' \in [GetRpc -> SUBSET SetRpc]
        /\ UNCHANGED <<getReq, got>>
    BY <1>2 DEF GetBegin, GetTypeOK
  <1>4. NotificationsMatchPaths'
    <2>1. \A h \in GetRpc : getReq[h].paths \in Seq((SUBSET Leaf) \ {{}})
      BY PathsTyped DEF GetTypeOK
    <2>2. getReq[g].paths # <<>> => 0 < Len(getReq[g].paths)
      BY <2>1
    <2>3. got[g] = <<>>
      BY DEF GetBegin, GetTypeOK, NotificationsMatchPaths
    <2>4. getState'[g] = "refresh" => getReq[g].paths # <<>>
      BY DEF GetBegin, GetTypeOK
    <2>5. /\ getState'[g] \in {"refresh", "ERROR", "OK"}
          /\ \A h \in GetRpc \ {g} : getState'[h] = getState[h]
      BY DEF GetBegin, GetTypeOK
    <2> QED
      BY <1>3, <2>2, <2>3, <2>4, <2>5 DEF GetTypeOK, NotificationsMatchPaths
  <1> QED
    BY <1>1, <1>3, <1>4 DEF GetTypeOK

LEMMA GetReadTyped ==
    ASSUME SysrepoTypeOK, GetTypeOK, NEW g \in GetRpc, GetRead(g)
    PROVE  SysrepoTypeOK' /\ GetTypeOK'
  <1>1. SysrepoTypeOK'
    BY SessionIdle DEF GetRead
  <1>2. /\ Len(got[g]) + 1 \in DOMAIN getReq[g].paths
        /\ Path(g) \in SUBSET Leaf
    BY PathTyped DEF GetRead
  <1>3. Shown(Path(g)) \in Notification /\ LeavesOf(Shown(Path(g))) = Path(g)
    BY <1>2, ShownTyped
  <1>4. /\ got \in [GetRpc -> Seq(Notification)]
        /\ got' = [got EXCEPT ![g] = Append(got[g], Shown(Path(g)))]
    BY DEF GetRead, GetTypeOK
  <1>5. got' \in [GetRpc -> Seq(Notification)]
    BY <1>3, <1>4
  <1>6. /\ Len(got'[g]) = Len(got[g]) + 1
        /\ \A i \in 1 .. Len(got[g]) : got'[g][i] = got[g][i]
        /\ got'[g][Len(got[g]) + 1] = Shown(Path(g))
        /\ \A h \in GetRpc \ {g} : got'[h] = got[h]
    BY <1>3, <1>4
  <1>7. /\ getState' \in [GetRpc -> {"idle", "refresh", "read", "OK", "ERROR"}]
        /\ \A h \in GetRpc \ {g} : getState'[h] = getState[h]
        /\ getState'[g] \in {"OK", "refresh"}
        /\ getState'[g] = "refresh" =>
               Len(got[g]) + 1 # Len(getReq[g].paths)
        /\ UNCHANGED <<getReq, since, settled>>
    BY DEF GetRead, GetTypeOK
  <1>8. NotificationsMatchPaths'
    <2>1. \A h \in GetRpc \ {g} :
            /\ Len(got'[h]) <= Len(getReq'[h].paths)
            /\ \A i \in DOMAIN got'[h] : LeavesOf(got'[h][i]) = getReq'[h].paths[i]
            /\ getState'[h] \in {"refresh", "read"} =>
                   Len(got'[h]) < Len(getReq'[h].paths)
            /\ getState'[h] = "idle" => got'[h] = <<>>
      BY <1>6, <1>7 DEF GetTypeOK, NotificationsMatchPaths
    <2>2. /\ Len(got[g]) \in Nat
          /\ Len(getReq[g].paths) \in Nat
          /\ Len(got[g]) < Len(getReq[g].paths)
      BY <1>4, PathsTyped DEF GetRead, GetTypeOK, NotificationsMatchPaths
    <2>3. \A i \in DOMAIN got'[g] : LeavesOf(got'[g][i]) = getReq'[g].paths[i]
      <3>1. \A i \in DOMAIN got[g] : LeavesOf(got[g][i]) = getReq[g].paths[i]
        BY DEF GetTypeOK, NotificationsMatchPaths
      <3>2. /\ DOMAIN got'[g] = 1 .. Len(got'[g])
            /\ DOMAIN got[g] = 1 .. Len(got[g])
        BY <1>4, <1>5
      <3>3. LeavesOf(got'[g][Len(got[g]) + 1]) = getReq'[g].paths[Len(got[g]) + 1]
        BY <1>3, <1>6, <1>7 DEF Path
      <3> QED
        BY <1>6, <1>7, <2>2, <3>1, <3>2, <3>3
    <2> QED
      BY <1>6, <1>7, <2>1, <2>2, <2>3 DEF NotificationsMatchPaths
  <1> QED
    BY <1>1, <1>5, <1>7, <1>8 DEF GetTypeOK

LEMMA GetStepTyped ==
    ASSUME SysrepoTypeOK, GetTypeOK, NEW g \in GetRpc, GetStep(g)
    PROVE  SysrepoTypeOK' /\ GetTypeOK'
  <1>1. CASE GetRefresh(g)
    <2>1. SysrepoTypeOK'
      BY <1>1, RefreshTyped DEF GetRefresh
    <2>2. GetTypeOK'
      BY <1>1 DEF GetRefresh, GetReturn, GetTypeOK, NotificationsMatchPaths
    <2> QED
      BY <2>1, <2>2
  <1>2. CASE GetRefreshThrows(g)
    BY <1>2, SessionIdle, GetReturnTyped DEF GetRefreshThrows
  <1>3. CASE GetRead(g)
    BY <1>3, GetReadTyped
  <1>4. CASE GetReadFails(g)
    BY <1>4, SessionIdle, GetReturnTyped DEF GetReadFails
  <1> QED
    BY <1>1, <1>2, <1>3, <1>4 DEF GetStep

-----------------------------------------------------------------------------
LEMMA NextTyped == TypeOK /\ [Next]_vars => TypeOK'
  <1> SUFFICES ASSUME TypeOK, [Next]_vars PROVE TypeOK'
    OBVIOUS
  <1> USE DEF TypeOK
  <1>1. ASSUME NEW r \in SetRpc, SetArrives(r) PROVE TypeOK'
    <2>1. GetTypeOK'
      BY <1>1 DEF SetArrives, getVars, GetTypeOK, NotificationsMatchPaths
    <2> QED
      BY <1>1, <2>1, SetBeginTyped DEF SetArrives
  <1>2. ASSUME NEW r \in SetRpc, SetRuns(r) PROVE TypeOK'
    <2>1. GetTypeOK'
      BY <1>2 DEF SetRuns, getVars, GetTypeOK, NotificationsMatchPaths
    <2> QED
      BY <1>2, <2>1, SetStepTyped DEF SetRuns
  <1>3. ASSUME NEW g \in GetRpc, GetArrives(g) PROVE TypeOK'
    <2>1. SetTypeOK'
      BY <1>3 DEF GetArrives, setVars, SetTypeOK
    <2>2. SetsOK \in SUBSET SetRpc
      BY DEF SetsOK
    <2> QED
      BY <1>3, <2>1, <2>2, GetBeginTyped DEF GetArrives
  <1>4. ASSUME NEW g \in GetRpc, GetRuns(g) PROVE TypeOK'
    <2>1. SetTypeOK'
      BY <1>4 DEF GetRuns, setVars, SetTypeOK
    <2> QED
      BY <1>4, <2>1, GetStepTyped DEF GetRuns
  <1>5. ASSUME NEW p \in Peer, PeerRuns(p) PROVE TypeOK'
    <2>1. SetTypeOK' /\ GetTypeOK'
      BY <1>5 DEF PeerRuns, setVars, getVars, SetTypeOK, GetTypeOK,
                  NotificationsMatchPaths
    <2> QED
      BY <1>5, <2>1, PeerCommitTyped DEF PeerRuns
  <1>6. CASE UNCHANGED vars
    <2>1. SysrepoTypeOK'
      BY <1>6, SessionIdle DEF vars
    <2>2. SetTypeOK' /\ GetTypeOK'
      BY <1>6 DEF vars, setVars, getVars, SetTypeOK, GetTypeOK,
                  NotificationsMatchPaths
    <2> QED
      BY <2>1, <2>2
  <1> QED
    BY <1>1, <1>2, <1>3, <1>4, <1>5, <1>6 DEF Next

\* The state of the session, of every Set and of every Get keeps its type,
\* and every notification of a Get answers the path of its own position.
THEOREM TypeCorrect == Spec => []TypeOK
  <1>1. Init => TypeOK
    BY InitTyped
  <1>2. TypeOK /\ [Next]_vars => TypeOK'
    BY NextTyped
  <1> QED
    BY <1>1, <1>2, PTL DEF Spec


-----------------------------------------------------------------------------
(***************************************************************************)
(* Uncommitted edits.  OkLeavesNoEdits alone says nothing of edits by a    *)
(* Set that has not begun, so it is strengthened: every edit is of a Set   *)
(* that is at work or that failed.                                         *)
(***************************************************************************)
EditsOfUnfinished ==
    \A l \in DOMAIN edits :
        /\ edits[l].by \in SetRpc
        /\ setState[edits[l].by] \in {"ops", "ERROR"}

\* A step that leaves the edits alone and finishes no Set with OK.
LEMMA EditsKept ==
    ASSUME EditsOfUnfinished, edits' = edits,
           \A s \in SetRpc : setState[s] \in {"ops", "ERROR"}
                                => setState'[s] \in {"ops", "ERROR"}
    PROVE  EditsOfUnfinished'
  BY DEF EditsOfUnfinished

LEMMA EditsNext ==
    TypeOK /\ EditsOfUnfinished /\ [Next]_vars => EditsOfUnfinished'
  <1> SUFFICES ASSUME TypeOK, EditsOfUnfinished, [Next]_vars
               PROVE  EditsOfUnfinished'
    OBVIOUS
  <1>0. setState \in [SetRpc -> {"idle", "ops", "OK", "ERROR"}]
    BY DEF TypeOK, SetTypeOK
  <1>1. ASSUME NEW r \in SetRpc, SetArrives(r) PROVE EditsOfUnfinished'
    BY <1>0, <1>1, EditsKept DEF SetArrives, SetBegin, Return, sysrepoVars
  <1>2. ASSUME NEW r \in SetRpc, SetRuns(r) PROVE EditsOfUnfinished'
    <2>1. CASE SessionCall(r)
      <3>1. /\ setState[r] = "ops"
            /\ setState' = setState
        BY <2>1 DEF SessionCall, AtCall, AtOperation
      <3> DEFINE L == Op(r).calls[callIdx[r]]
                 c == [by |-> r, op |-> opIdx[r],
                       present |-> Op(r).kind # "DELETE"]
      <3>2. c.by = r /\ edits' = Over([l \in L |-> c], edits)
        BY <2>1 DEF SessionCall, Stage
      <3>3. \A l \in DOMAIN edits' :
                edits'[l].by = r \/ (l \in DOMAIN edits /\ edits'[l] = edits[l])
        <4> HIDE DEF L, c
        <4> QED
          BY <3>2 DEF Over
      <3> QED
        BY <3>1, <3>3 DEF EditsOfUnfinished
    <2>2. CASE CallThrows(r)
      BY <1>0, <2>2, EditsKept DEF CallThrows, Return, sysrepoVars
    <2>3. CASE OperationDone(r)
      BY <1>0, <2>3, EditsKept DEF OperationDone, sysrepoVars
    <2>4. CASE OperationRejected(r)
      BY <1>0, <2>4, EditsKept DEF OperationRejected, Return, sysrepoVars
    <2>5. CASE SetCommit(r)
      BY <2>5 DEF SetCommit, Commit, NoEdits, EditsOfUnfinished
    <2>6. CASE CommitThrows(r)
      BY <1>0, <2>6, EditsKept DEF CommitThrows, Return, sysrepoVars
    <2> QED
      BY <1>2, <2>1, <2>2, <2>3, <2>4, <2>5, <2>6 DEF SetRuns, SetStep
  <1>3. ASSUME NEW g \in GetRpc, GetArrives(g) PROVE EditsOfUnfinished'
    BY <1>3, EditsKept DEF GetArrives, GetBegin, sysrepoVars, setVars
  <1>4. ASSUME NEW g \in GetRpc, GetRuns(g) PROVE EditsOfUnfinished'
    BY <1>4, EditsKept DEF GetRuns, GetStep, GetRefresh, Refresh,
          GetRefreshThrows, GetRead, GetReadFails, sysrepoVars, setVars
  <1>5. ASSUME NEW p \in Peer, PeerRuns(p) PROVE EditsOfUnfinished'
    BY <1>5, EditsKept DEF PeerRuns, PeerCommit, setVars
  <1>6. CASE UNCHANGED vars
    BY <1>6, EditsKept DEF vars, sysrepoVars, setVars
  <1> QED
    BY <1>1, <1>2, <1>3, <1>4, <1>5, <1>6 DEF Next

LEMMA EditsInvariant == Spec => []EditsOfUnfinished
  <1>1. Init => EditsOfUnfinished
    BY DEF Init, SysrepoInit, NoEdits, EditsOfUnfinished
  <1>2. TypeOK /\ EditsOfUnfinished /\ [Next]_vars => EditsOfUnfinished'
    BY EditsNext
  <1> QED
    BY <1>1, <1>2, TypeCorrect, PTL DEF Spec

\* No edit of a Set that returned OK is still uncommitted.
THEOREM OkSetsLeaveNoEdits == Spec => []OkLeavesNoEdits
  <1>1. EditsOfUnfinished => OkLeavesNoEdits
    BY DEF EditsOfUnfinished, OkLeavesNoEdits, SetsOK
  <1> QED
    BY <1>1, EditsInvariant, PTL


-----------------------------------------------------------------------------
(***************************************************************************)
(* What Gets read.  GetReadsForward is not inductive: the versions shown   *)
(* so far must lie at or before the session's current copy, which no RPC   *)
(* can turn back; a Get between its refresh and its read must find a copy  *)
(* that is not older than its arrival; and a Set known to be OK when the   *)
(* Get arrived must still be OK, so that it has no edits to show.          *)
(***************************************************************************)
Arrived ==
    \A g \in GetRpc :
        /\ since[g] <= Len(log)
        /\ settled[g] \subseteq SetsOK
        /\ getState[g] = "read" => since[g] <= cached

ShownSoFar == \A g \in GetRpc : ReadsForward(g, cached)

ReadsInv == Arrived /\ ShownSoFar

\* A typed state before a step, in the terms the following lemmas need.
LEMMA Numbers ==
    ASSUME TypeOK
    PROVE  /\ Len(log) \in Nat
           /\ cached \in Nat /\ 1 <= cached /\ cached <= Len(log)
           /\ \A g \in GetRpc : since[g] \in Nat
           /\ \A g \in GetRpc :
                  DOMAIN got[g] = 1 .. Len(got[g]) /\ Len(got[g]) \in Nat
  <1>1. \A g \in GetRpc : got[g] \in Seq(Notification)
    BY DEF TypeOK, GetTypeOK
  <1>2. \A g \in GetRpc : since[g] \in Nat
    BY DEF TypeOK, GetTypeOK
  <1>3. Len(log) \in Nat /\ cached \in 1 .. Len(log)
    BY DEF TypeOK, SysrepoTypeOK
  <1> QED
    BY <1>1, <1>2, <1>3

\* Committed versions are never changed, the session's copy never goes back,
\* and a Set that returned OK stays so.
GoesForward ==
    /\ Len(log) <= Len(log') /\ Len(log') \in Nat
    /\ \A n \in 1 .. Len(log) : log'[n] = log[n]
    /\ cached <= cached' /\ cached' \in Nat
    /\ SetsOK \subseteq SetsOK'

LEMMA NextGoesForward == TypeOK /\ [Next]_vars => GoesForward
  <1> SUFFICES ASSUME TypeOK, [Next]_vars PROVE GoesForward
    OBVIOUS
  <1>0. /\ SysrepoTypeOK
        /\ setState \in [SetRpc -> {"idle", "ops", "OK", "ERROR"}]
    BY DEF TypeOK, SetTypeOK
  <1>1. CASE UNCHANGED sysrepoVars /\ SetsOK \subseteq SetsOK'
    BY <1>1, Numbers DEF GoesForward, sysrepoVars
  <1>2. ASSUME NEW r \in SetRpc, SetArrives(r) PROVE GoesForward
    <2>1. UNCHANGED sysrepoVars
      BY <1>2 DEF SetArrives, SetBegin
    <2>2. SetsOK \subseteq SetsOK'
      BY <1>0, <1>2 DEF SetArrives, SetBegin, Return, SetsOK
    <2> QED
      BY <1>1, <2>1, <2>2
  <1>3. ASSUME NEW r \in SetRpc, SetRuns(r) PROVE GoesForward
    <2>1. SetsOK \subseteq SetsOK'
      BY <1>0, <1>3 DEF SetRuns, SetStep, SessionCall, CallThrows,
            OperationDone, OperationRejected, SetCommit, CommitThrows,
            Return, AtCall, AtOperation, AfterCalls, AtCommit, SetsOK
    <2>2. CASE SessionCall(r)
      BY <2>1, <2>2, Numbers DEF SessionCall, Stage, GoesForward
    <2>3. CASE SetCommit(r)
      BY <1>0, <2>1, <2>3, CommitTyped, Numbers DEF SetCommit, GoesForward
    <2>4. CASE UNCHANGED sysrepoVars
      BY <1>1, <2>1, <2>4
    <2> QED
      BY <1>3, <2>2, <2>3, <2>4 DEF SetRuns, SetStep, CallThrows,
            OperationDone, OperationRejected, CommitThrows
  <1>4. ASSUME NEW g \in GetRpc, GetArrives(g) PROVE GoesForward
    BY <1>1, <1>4 DEF GetArrives, GetBegin, setVars, SetsOK
  <1>5. ASSUME NEW g \in GetRpc, GetRuns(g) PROVE GoesForward
    <2>1. SetsOK' = SetsOK
      BY <1>5 DEF GetRuns, setVars, SetsOK
    <2>2. CASE GetRefresh(g)
      BY <2>1, <2>2, Numbers DEF GetRefresh, Refresh, GoesForward
    <2>3. CASE UNCHANGED sysrepoVars
      BY <1>1, <2>1, <2>3
    <2> QED
      BY <1>5, <2>2, <2>3 DEF GetRuns, GetStep, GetRefreshThrows, GetRead,
            GetReadFails
  <1>6. ASSUME NEW p \in Peer, PeerRuns(p) PROVE GoesForward
    <2>1. SetsOK' = SetsOK /\ cached' = cached
      BY <1>6 DEF PeerRuns, PeerCommit, setVars, SetsOK
    <2> QED
      BY <1>0, <1>6, <2>1, PeerCommitTyped, Numbers DEF PeerRuns, GoesForward
  <1>7. CASE UNCHANGED vars
    <2>1. SetsOK' = SetsOK
      BY <1>7 DEF vars, setVars, SetsOK
    <2> QED
      BY <1>1, <1>7, <2>1 DEF vars
  <1> QED
    BY <1>2, <1>3, <1>4, <1>5, <1>6, <1>7 DEF Next

\* What a Get has shown stays explained while it makes no step.
LEMMA ForwardKept ==
    ASSUME TypeOK, GoesForward, NEW g \in GetRpc, ReadsForward(g, cached),
           got'[g] = got[g], since'[g] = since[g], settled'[g] = settled[g]
    PROVE  ReadsForward(g, cached)'
  <1>1. PICK at \in [DOMAIN got[g] -> since[g] .. cached] :
            /\ \A i, j \in DOMAIN got[g] : i < j => at[i] <= at[j]
            /\ \A i \in DOMAIN got[g] : ShowsVersion(g, i, at[i])
    BY DEF ReadsForward
  <1>2. at \in [DOMAIN got'[g] -> since'[g] .. cached']
    <2>1. since[g] .. cached \subseteq since[g] .. cached'
      BY Numbers DEF GoesForward
    <2> QED
      BY <1>1, <2>1
  <1>3. \A i \in DOMAIN got'[g] : ShowsVersion(g, i, at[i])'
    <2> SUFFICES ASSUME NEW i \in DOMAIN got[g]
                 PROVE  ShowsVersion(g, i, at[i])'
      OBVIOUS
    <2>1. at[i] \in 1 .. Len(log)
      BY <1>1, Numbers DEF TypeOK, GetTypeOK
    <2>2. log'[at[i]] = log[at[i]]
      BY <2>1 DEF GoesForward
    <2> QED
      BY <1>1, <2>2 DEF ShowsVersion
  <1> QED
    BY <1>1, <1>2, <1>3 DEF ReadsForward

\* A read adds one notification, of the version the session's copy holds.
LEMMA ForwardRead ==
    ASSUME TypeOK, EditsOfUnfinished, NEW g \in GetRpc, GetRead(g),
           ReadsForward(g, cached), since[g] <= cached,
           settled[g] \subseteq SetsOK
    PROVE  ReadsForward(g, cached)'
  <1>0. PICK k \in Nat : k = Len(got[g]) + 1
    BY Numbers
  <1>1. PICK at \in [DOMAIN got[g] -> since[g] .. cached] :
            /\ \A i, j \in DOMAIN got[g] : i < j => at[i] <= at[j]
            /\ \A i \in DOMAIN got[g] : ShowsVersion(g, i, at[i])
    BY DEF ReadsForward
  <1>2. /\ Path(g) \in SUBSET Leaf
        /\ UNCHANGED <<since, settled, log, edits, cached>>
    BY PathTyped DEF GetRead, TypeOK, sysrepoVars
  <1>3. Shown(Path(g)) \in Notification
    BY <1>2, ShownTyped DEF TypeOK
  <1>4. /\ DOMAIN got[g] = 1 .. Len(got[g]) /\ Len(got[g]) \in Nat
        /\ DOMAIN got'[g] = 1 .. k
        /\ \A i \in 1 .. Len(got[g]) : got'[g][i] = got[g][i]
        /\ got'[g][k] = Shown(Path(g))
    <2>1. /\ got \in [GetRpc -> Seq(Notification)]
          /\ got' = [got EXCEPT ![g] = Append(got[g], Shown(Path(g)))]
      BY DEF GetRead, TypeOK, GetTypeOK
    <2> QED
      BY <1>0, <1>3, <2>1
  <1>5. PICK more : more = [i \in 1 .. k |-> IF i = k THEN cached ELSE at[i]]
    OBVIOUS
  <1>6. more \in [DOMAIN got'[g] -> since'[g] .. cached']
    <2>1. cached \in since[g] .. cached
      BY Numbers
    <2>2. \A i \in 1 .. k : i # k => i \in DOMAIN got[g]
      BY <1>0, <1>4
    <2> QED
      BY <1>1, <1>2, <1>4, <1>5, <2>1, <2>2
  <1>7. \A i, j \in DOMAIN got'[g] : i < j => more[i] <= more[j]
    <2> SUFFICES ASSUME NEW i \in 1 .. k, NEW j \in 1 .. k, i < j
                 PROVE  more[i] <= more[j]
      BY <1>4
    <2>1. i \in DOMAIN got[g] /\ more[i] = at[i]
      BY <1>0, <1>4, <1>5
    <2>2. CASE j = k
      <3>1. at[i] \in since[g] .. cached
        BY <1>1, <2>1
      <3>2. more[j] = cached
        BY <1>0, <1>5, <2>2
      <3> QED
        BY <2>1, <3>1, <3>2
    <2>3. CASE j # k
      <3>1. j \in DOMAIN got[g] /\ more[j] = at[j]
        BY <1>0, <1>4, <1>5, <2>3
      <3> QED
        BY <1>1, <2>1, <3>1
    <2> QED
      BY <2>2, <2>3
  <1>8. \A i \in DOMAIN got'[g] : ShowsVersion(g, i, more[i])'
    <2> SUFFICES ASSUME NEW i \in 1 .. k
                 PROVE  ShowsVersion(g, i, more[i])'
      BY <1>4
    <2>1. CASE i = k
      <3>1. more[i] = cached /\ got'[g][i] = Shown(Path(g))
        BY <1>0, <1>4, <1>5, <2>1
      <3>2. /\ \E K \in SUBSET Leaf : edits \in [K -> Cell]
            /\ DOMAIN log[cached] = Leaf
        BY DEF TypeOK, SysrepoTypeOK
      <3>3. ASSUME NEW u \in Shown(Path(g))
            PROVE  IF u.staged THEN u.cell.by \in SetRpc \ settled[g]
                               ELSE u.cell = log[cached][u.leaf]
        <4>1. PICK l \in Path(g) :
                u = [leaf |-> l, cell |-> View[l], staged |-> l \in DOMAIN edits]
          BY DEF Shown
        <4>2. /\ l \in Leaf /\ u.leaf = l /\ u.cell = View[l]
              /\ u.staged <=> l \in DOMAIN edits
          BY <1>2, <4>1
        <4>3. CASE l \in DOMAIN edits
          <5>1. View[l] = edits[l]
            BY <4>3 DEF View, Over
          <5>2. edits[l].by \in SetRpc /\ edits[l].by \notin SetsOK
            BY <4>3 DEF EditsOfUnfinished, SetsOK
          <5> QED
            BY <4>2, <4>3, <5>1, <5>2
        <4>4. CASE l \notin DOMAIN edits
          <5>1. View[l] = log[cached][l]
            BY <3>2, <4>2, <4>4 DEF View, Over
          <5> QED
            BY <4>2, <4>4, <5>1
        <4> QED
          BY <4>3, <4>4
      <3>4. cached \in 1 .. Len(log) /\ log' = log /\ settled' = settled
        BY <1>2, Numbers
      <3> QED
        BY <3>1, <3>3, <3>4 DEF ShowsVersion
    <2>2. CASE i # k
      <3>1. i \in DOMAIN got[g] /\ more[i] = at[i] /\ got'[g][i] = got[g][i]
        BY <1>0, <1>4, <1>5, <2>2
      <3> QED
        BY <1>1, <1>2, <3>1 DEF ShowsVersion
    <2> QED
      BY <2>1, <2>2
  <1> QED
    BY <1>6, <1>7, <1>8 DEF ReadsForward


\* The step of a Get, and of everything else, on what Gets have shown.
LEMMA ArrivedNext == TypeOK /\ Arrived /\ [Next]_vars => Arrived'
  <1> SUFFICES ASSUME TypeOK, Arrived, [Next]_vars PROVE Arrived'
    OBVIOUS
  <1>0. GoesForward
    BY NextGoesForward
  <1>1. ASSUME NEW g \in GetRpc, since'[g] = since[g], settled'[g] = settled[g]
        PROVE  since'[g] <= Len(log') /\ settled'[g] \subseteq SetsOK'
    BY <1>0, <1>1, Numbers DEF Arrived, GoesForward
  <1>2. ASSUME NEW g \in GetRpc, since'[g] = since[g], getState'[g] = getState[g]
        PROVE  getState'[g] = "read" => since'[g] <= cached'
    <2>1. since[g] \in Nat /\ cached \in Nat /\ cached' \in Nat
      BY <1>0, Numbers DEF GoesForward
    <2>2. cached <= cached'
      BY <1>0 DEF GoesForward
    <2>3. getState[g] = "read" => since[g] <= cached
      BY DEF Arrived
    <2> QED
      BY <1>2, <2>1, <2>2, <2>3
  <1>3. CASE UNCHANGED getVars
    BY <1>1, <1>2, <1>3 DEF getVars, Arrived
  <1>4. ASSUME NEW g \in GetRpc, GetArrives(g) PROVE Arrived'
    <2>1. /\ since' = [since EXCEPT ![g] = Len(log)]
          /\ settled' = [settled EXCEPT ![g] = SetsOK]
          /\ \A h \in GetRpc \ {g} : getState'[h] = getState[h]
          /\ getState'[g] # "read"
          /\ log' = log
      BY <1>4 DEF GetArrives, GetBegin, TypeOK, GetTypeOK, sysrepoVars
    <2>2. /\ since'[g] = Len(log) /\ settled'[g] = SetsOK
          /\ \A h \in GetRpc \ {g} : since'[h] = since[h] /\ settled'[h] = settled[h]
      BY <2>1 DEF TypeOK, GetTypeOK
    <2>3. SetsOK \subseteq SetsOK' /\ Len(log) <= Len(log')
      BY <1>0 DEF GoesForward
    <2> QED
      BY <1>1, <1>2, <2>1, <2>2, <2>3 DEF Arrived
  <1>5. ASSUME NEW g \in GetRpc, GetRuns(g) PROVE Arrived'
    <2>1. since' = since /\ settled' = settled
      BY <1>5 DEF GetRuns, GetStep, GetRefresh, GetRefreshThrows, GetRead,
            GetReadFails, GetReturn
    <2>2. \A h \in GetRpc \ {g} : getState'[h] = getState[h]
      BY <1>5 DEF GetRuns, GetStep, GetRefresh, GetRefreshThrows, GetRead,
            GetReadFails, GetReturn, TypeOK, GetTypeOK
    <2>3. getState'[g] = "read" => since'[g] <= cached'
      <3>1. CASE GetRefresh(g)
        BY <2>1, <3>1, Numbers DEF GetRefresh, Refresh, Arrived
      <3>2. CASE GetRefreshThrows(g) \/ GetRead(g) \/ GetReadFails(g)
        BY <3>2 DEF GetRefreshThrows, GetRead, GetReadFails, GetReturn,
              TypeOK, GetTypeOK
      <3> QED
        BY <1>5, <3>1, <3>2 DEF GetRuns, GetStep
    <2> QED
      BY <1>1, <1>2, <2>1, <2>2, <2>3 DEF Arrived
  <1> QED
    BY <1>3, <1>4, <1>5 DEF Next, SetArrives, SetRuns, PeerRuns, vars

LEMMA ShownNext ==
    TypeOK /\ EditsOfUnfinished /\ ReadsInv /\ [Next]_vars => ShownSoFar'
  <1> SUFFICES ASSUME TypeOK, EditsOfUnfinished, ReadsInv, [Next]_vars,
                      NEW h \in GetRpc
               PROVE  ReadsForward(h, cached)'
    BY DEF ShownSoFar
  <1>0. GoesForward /\ ReadsForward(h, cached)
    BY NextGoesForward DEF ReadsInv, ShownSoFar
  <1>1. CASE got'[h] = got[h] /\ since'[h] = since[h] /\ settled'[h] = settled[h]
    BY <1>0, <1>1, ForwardKept
  <1>2. CASE UNCHANGED getVars
    BY <1>1, <1>2 DEF getVars
  <1>3. ASSUME NEW g \in GetRpc, GetArrives(g)
        PROVE  ReadsForward(h, cached)'
    <2>1. CASE g = h
      <3>1. got'[h] = <<>>
        BY <1>3, <2>1 DEF GetArrives, GetBegin, TypeOK, GetTypeOK,
              NotificationsMatchPaths
      <3>2. DOMAIN got'[h] = {}
        BY <3>1
      <3>3. PICK none : none = [i \in {} |-> 0]
        OBVIOUS
      <3>4. none \in [DOMAIN got'[h] -> since'[h] .. cached']
        BY <3>2, <3>3
      <3> QED
        BY <3>2, <3>4 DEF ReadsForward
    <2>2. CASE g # h
      BY <1>1, <1>3, <2>2 DEF GetArrives, GetBegin, TypeOK, GetTypeOK
    <2> QED
      BY <2>1, <2>2
  <1>4. ASSUME NEW g \in GetRpc, GetRuns(g)
        PROVE  ReadsForward(h, cached)'
    <2>1. CASE GetRead(g) /\ g = h
      <3>1. since[h] <= cached /\ settled[h] \subseteq SetsOK
        BY <2>1 DEF ReadsInv, Arrived, GetRead
      <3> QED
        BY <1>0, <2>1, <3>1, ForwardRead
    <2>2. CASE ~(GetRead(g) /\ g = h)
      <3>1. got'[h] = got[h] /\ since' = since /\ settled' = settled
        BY <1>4, <2>2 DEF GetRuns, GetStep, GetRefresh, GetRefreshThrows,
              GetRead, GetReadFails, GetReturn, TypeOK, GetTypeOK
      <3> QED
        BY <1>1, <3>1
    <2> QED
      BY <2>1, <2>2
  <1> QED
    BY <1>2, <1>3, <1>4 DEF Next, SetArrives, SetRuns, PeerRuns, vars

LEMMA ReadsInit == Init => ReadsInv
  <1> SUFFICES ASSUME Init PROVE ReadsInv
    OBVIOUS
  <1>1. TypeOK
    BY InitTyped
  <1>2. Arrived
    BY <1>1, Numbers DEF Init, GetInit, Arrived
  <1>3. ASSUME NEW g \in GetRpc PROVE ReadsForward(g, cached)
    <2>1. DOMAIN got[g] = {}
      BY DEF Init, GetInit
    <2>2. PICK none : none = [i \in {} |-> 0]
      OBVIOUS
    <2>3. none \in [DOMAIN got[g] -> since[g] .. cached]
      BY <2>1, <2>2
    <2> QED
      BY <2>1, <2>3 DEF ReadsForward
  <1> QED
    BY <1>2, <1>3 DEF ReadsInv, ShownSoFar

\* What Gets have shown up to the session's copy, they have shown at all.
LEMMA ReadsSuffice == TypeOK /\ ReadsInv => GetReadsForward
  <1> SUFFICES ASSUME TypeOK, ReadsInv, NEW g \in GetRpc
               PROVE  ReadsForward(g, Len(log))
    BY DEF GetReadsForward
  <1>1. PICK at \in [DOMAIN got[g] -> since[g] .. cached] :
          /\ \A i, j \in DOMAIN got[g] : i < j => at[i] <= at[j]
          /\ \A i \in DOMAIN got[g] : ShowsVersion(g, i, at[i])
    BY DEF ReadsInv, ShownSoFar, ReadsForward
  <1>2. since[g] .. cached \subseteq since[g] .. Len(log)
    BY Numbers
  <1>3. at \in [DOMAIN got[g] -> since[g] .. Len(log)]
    BY <1>1, <1>2
  <1> QED
    BY <1>1, <1>3 DEF ReadsForward

\* However RPCs and peers interleave, each notification of a Get shows one
\* committed version, not older than the Get's arrival or than the
\* notification before it, under uncommitted edits of unfinished Sets only.
THEOREM GetsReadForward == Spec => []GetReadsForward
  <1>1. Init => ReadsInv
    BY ReadsInit
  <1>2. TypeOK /\ EditsOfUnfinished /\ ReadsInv /\ [Next]_vars => ReadsInv'
    BY ArrivedNext, ShownNext DEF ReadsInv
  <1> QED
    BY <1>1, <1>2, ReadsSuffice, TypeCorrect, EditsInvariant, PTL DEF Spec
=============================================================================
