----------------------------- MODULE GnmiStreams -----------------------------
(***************************************************************************)
(* GnmiService with subscriptions in it: handleStream's loop, of one       *)
(* SAMPLE subscription, down to the session that it shares with the Sets   *)
(* and Gets (src/src/gnmi/subscribe.cpp).  Between the refresh and the     *)
(* read of a sample, and while the loop sleeps, any other RPC may stage,   *)
(* commit, fail or refresh.  When the loop samples is the matter of module *)
(* Subscribe; here it may be at any time.                                  *)
(***************************************************************************)
EXTENDS GnmiService

CONSTANTS
    Stream,     \* the subscriptions, each made once
    Sampled     \* the leaves below the path of each of them

ASSUME Streams == Sampled \in [Stream -> (SUBSET Leaf) \ {{}}]

VARIABLES
    streamState,    \* "idle"; "refresh" or "read", the call made next;
                    \* "sleep"; or the status returned
    sample,         \* the notification last written, once there is one
    begun,          \* (history) versions when the last sample was begun
    stale           \* (history) the Sets that had returned OK by then

streamVars == <<streamState, sample, begun, stale>>
allVars == <<vars, streamVars>>

StreamInit ==
    /\ streamState = [s \in Stream |-> "idle"]
    /\ sample = [s \in Stream |-> {}]
    /\ begun = [s \in Stream |-> [pending |-> 1, written |-> 1]]
    /\ stale = [s \in Stream |-> [pending |-> {}, written |-> {}]]

StreamGoes(s, state) == streamState' = [streamState EXCEPT ![s] = state]

Begins(s) ==
    /\ StreamGoes(s, "refresh")
    /\ begun' = [begun EXCEPT ![s].pending = Len(log)]
    /\ stale' = [stale EXCEPT ![s].pending = SetsOK]
    /\ UNCHANGED <<sample, sysrepoVars>>

\* The first sample is taken when the subscription arrives.
StreamArrives(s) == streamState[s] = "idle" /\ Begins(s)

\* The loop wakes up, and the subscription is due.
StreamIsDue(s) == streamState[s] = "sleep" /\ Begins(s)

\* Mutant of StreamRefreshes: only the first sample reloads the session.
StreamRefreshesOnce(s) ==
    /\ streamState[s] = "refresh"
    /\ IF sample[s] = {} THEN Refresh ELSE UNCHANGED sysrepoVars
    /\ StreamGoes(s, "read")
    /\ UNCHANGED <<sample, begun, stale>>

StreamRefreshes(s) ==
    /\ streamState[s] = "refresh"
    /\ Refresh
    /\ StreamGoes(s, "read")
    /\ UNCHANGED <<sample, begun, stale>>

StreamReads(s) ==
    /\ streamState[s] = "read"
    /\ \E l \in Sampled[s] : View[l].present
    /\ sample' = [sample EXCEPT ![s] = Shown(Sampled[s])]
    /\ begun' = [begun EXCEPT ![s].written = begun[s].pending]
    /\ stale' = [stale EXCEPT ![s].written = stale[s].pending]
    /\ StreamGoes(s, "sleep")
    /\ UNCHANGED sysrepoVars

\* refresh throws, the read does, or nothing is there: the stream is over.
StreamFails(s) ==
    /\ \/ streamState[s] = "refresh" /\ "refresh" \in Faults
       \/ /\ streamState[s] = "read"
          /\ (\A l \in Sampled[s] : ~View[l].present) \/ "read" \in Faults
    /\ StreamGoes(s, "ERROR")
    /\ UNCHANGED <<sample, begun, stale, sysrepoVars>>

\* The client has cancelled.
StreamEnds(s) ==
    /\ streamState[s] = "sleep"
    /\ StreamGoes(s, "OK")
    /\ UNCHANGED <<sample, begun, stale, sysrepoVars>>

StreamRuns(s) ==
    /\ \/ StreamIsDue(s) \/ StreamRefreshes(s) \/ StreamReads(s)
       \/ StreamFails(s) \/ StreamEnds(s)
    /\ UNCHANGED <<setVars, getVars>>

StreamNext ==
    \/ Next /\ UNCHANGED streamVars
    \/ \E s \in Stream : StreamArrives(s) /\ UNCHANGED <<setVars, getVars>>
    \/ \E s \in Stream : StreamRuns(s)

StreamSpec == Init /\ StreamInit /\ [][StreamNext]_allVars

\* The thread of a stream keeps running, as those of Sets and Gets do.
FairStreamSpec ==
    StreamSpec /\ Fairness /\ \A s \in Stream : WF_allVars(StreamRuns(s))

-----------------------------------------------------------------------------
(***************************************************************************)
(* No stale samples.  What a stream has written last shows ONE committed   *)
(* version, at least as new as the datastore was when the sample was       *)
(* begun, whatever the other RPCs did to the session between the refresh   *)
(* and the read; on top of it only uncommitted edits, of Sets that had not *)
(* returned OK by then (subscribe.cpp:53, 61).                             *)
(***************************************************************************)
SamplesFresh ==
    \A s \in Stream : sample[s] # {} =>
        \E n \in begun[s].written .. Len(log) : \A u \in sample[s] :
            IF u.staged THEN u.cell.by \in SetRpc \ stale[s].written
                        ELSE u.cell = log[n][u.leaf]

(***************************************************************************)
(* A stream follows the datastore: whatever is committed, by a Set or by   *)
(* another client of sysrepo, the stream catches up with, again and again, *)
(* unless it ends; only leaves with an edit that a Set has staged and not  *)
(* committed may be shown otherwise (subscribe.cpp:228-259).               *)
(***************************************************************************)
InStep(s) ==
    \A u \in sample[s] : u.staged \/ u.cell = Running[u.leaf]

StreamsFollow ==
    \A s \in Stream :
        []<>(InStep(s) \/ streamState[s] \in {"idle"} \cup Answered)
=============================================================================
