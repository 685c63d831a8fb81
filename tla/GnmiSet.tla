------------------------------- MODULE GnmiSet -------------------------------
(***************************************************************************)
(* The Set RPC: Set::run and Set::handleUpdate (src/src/gnmi/set.cpp).     *)
(*                                                                         *)
(* A Set works through the operations of its request in the order delete,  *)
(* replace, update.  Each operation makes its calls on the session that    *)
(* all RPCs share, one call after the other; then the Set commits.  Other  *)
(* RPCs run between any two calls.  No exit of Set::run discards the edits *)
(* it staged.                                                              *)
(***************************************************************************)
EXTENDS Sysrepo, SetRequests

CONSTANT SetRequest     \* the contents a SetRequest may have

ASSUME RequestsTyped == SetRequest \subseteq Request

VARIABLES
    setReq,     \* the request of each Set
    setState,   \* "idle", "ops" while it runs, then its status
    opIdx,      \* the operation it is at
    callIdx,    \* the session call of that operation it makes next
    results     \* the UpdateResults of its response so far

setVars == <<setReq, setState, opIdx, callIdx, results>>

Tagged(kind, ops) ==
    [i \in DOMAIN ops |->
        [kind |-> kind, form |-> ops[i].form, calls |-> ops[i].calls]]

\* Mutant of Operations: the update loop runs before the other two.
OperationsUpdateFirst(q) ==
    Tagged("UPDATE", q.update) \o Tagged("DELETE", q.delete)
                               \o Tagged("REPLACE", q.replace)

\* The operations of a request in the order of the three loops of Set::run.
Operations(q) ==
    Tagged("DELETE", q.delete) \o Tagged("REPLACE", q.replace)
                               \o Tagged("UPDATE", q.update)

Todo(r) == Operations(setReq[r])

Op(r) == Todo(r)[opIdx[r]]

AtOperation(r) == setState[r] = "ops" /\ opIdx[r] \in DOMAIN Todo(r)

AtCall(r) == AtOperation(r) /\ callIdx[r] \in DOMAIN Op(r).calls

AfterCalls(r) == AtOperation(r) /\ callIdx[r] \notin DOMAIN Op(r).calls

AtCommit(r) == setState[r] = "ops" /\ opIdx[r] \notin DOMAIN Todo(r)

\* sysrepo validates whatever is staged, whoever staged it.
EditsValid == \A l \in DOMAIN edits : setReq[edits[l].by].valid

Return(r, status) ==
    /\ setState' = [setState EXCEPT ![r] = status]
    /\ UNCHANGED <<setReq, opIdx, callIdx, results>>

SetInit ==
    /\ setReq \in [SetRpc -> SetRequest]
    /\ setState = [r \in SetRpc |-> "idle"]
    /\ opIdx = [r \in SetRpc |-> 1]
    /\ callIdx = [r \in SetRpc |-> 1]
    /\ results = [r \in SetRpc |-> <<>>]

\* The call arrives; extensions are refused before anything else.
SetBegin(r) ==
    /\ setState[r] = "idle"
    /\ Return(r, IF setReq[r].extension THEN "ERROR" ELSE "ops")
    /\ UNCHANGED sysrepoVars

\* The next delete_item or set_item of the operation.
SessionCall(r) ==
    /\ AtCall(r)
    /\ Stage(Op(r).calls[callIdx[r]],
             [by |-> r, op |-> opIdx[r], present |-> Op(r).kind # "DELETE"])
    /\ callIdx' = [callIdx EXCEPT ![r] = @ + 1]
    /\ UNCHANGED <<setReq, setState, opIdx, results>>

\* That call throws and the Set returns; what it staged so far stays.
CallThrows(r) ==
    /\ AtCall(r) /\ "item" \in Faults
    /\ Return(r, "ERROR")
    /\ UNCHANGED sysrepoVars

\* Mutant of UpdateResult: set_op is forgotten (INVALID is op's default).
UpdateResultNoOp(r) == [op |-> "INVALID", path |-> Op(r).form # "missing"]

\* An Update without path or value gets a result too, without a path: the
\* INVALID_ARGUMENT that handleUpdate returns for it is not looked at.
UpdateResult(r) == [op |-> Op(r).kind, path |-> Op(r).form # "missing"]

\* Mutant of OperationDone: the session is committed after every operation.
OperationDoneCommits(r) ==
    /\ AfterCalls(r) /\ Op(r).form # "unsupported"
    /\ results' = [results EXCEPT ![r] = Append(@, UpdateResult(r))]
    /\ opIdx' = [opIdx EXCEPT ![r] = @ + 1]
    /\ callIdx' = [callIdx EXCEPT ![r] = 1]
    /\ Commit
    /\ UNCHANGED <<setReq, setState>>

\* The operation gets its UpdateResult, and the next one begins.
OperationDone(r) ==
    /\ AfterCalls(r) /\ Op(r).form # "unsupported"
    /\ results' = [results EXCEPT ![r] = Append(@, UpdateResult(r))]
    /\ opIdx' = [opIdx EXCEPT ![r] = @ + 1]
    /\ callIdx' = [callIdx EXCEPT ![r] = 1]
    /\ UNCHANGED <<setReq, setState, sysrepoVars>>

\* The operation throws invalid_argument at the part it cannot store.
OperationRejected(r) ==
    /\ AfterCalls(r) /\ Op(r).form = "unsupported"
    /\ Return(r, "ERROR")
    /\ UNCHANGED sysrepoVars

\* commit applies everything staged on the session, by whichever Set.
SetCommit(r) ==
    /\ AtCommit(r) /\ EditsValid
    /\ Commit
    /\ Return(r, "OK")

\* Mutant of CommitThrows: the exception is logged and the Set goes on.
CommitThrowsIgnored(r) ==
    /\ AtCommit(r) /\ (~EditsValid \/ "commit" \in Faults)
    /\ Return(r, "OK")
    /\ UNCHANGED sysrepoVars

\* commit throws; the edits stay on the session.
CommitThrows(r) ==
    /\ AtCommit(r) /\ (~EditsValid \/ "commit" \in Faults)
    /\ Return(r, "ERROR")
    /\ UNCHANGED sysrepoVars

SetStep(r) ==
    \/ SessionCall(r)
    \/ CallThrows(r)
    \/ OperationDone(r)
    \/ OperationRejected(r)
    \/ SetCommit(r)
    \/ CommitThrows(r)

SetTypeOK ==
    /\ setReq \in [SetRpc -> SetRequest]
    /\ setState \in [SetRpc -> {"idle", "ops", "OK", "ERROR"}]
    /\ opIdx \in [SetRpc -> Nat \ {0}]
    /\ callIdx \in [SetRpc -> Nat \ {0}]
    /\ results \in
        [SetRpc -> Seq([op : {"DELETE", "REPLACE", "UPDATE"}, path : BOOLEAN])]
=============================================================================
