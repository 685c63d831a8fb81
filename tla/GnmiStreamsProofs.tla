-------------------------- MODULE GnmiStreamsProofs --------------------------
(***************************************************************************)
(* Proofs about GnmiStreams, for every set of streams next to the RPCs of  *)
(* GnmiService: what a stream writes is never stale.  They rest on what    *)
(* GnmiServiceProofs proves of a step of the service alone.                *)
(***************************************************************************)
EXTENDS GnmiStreams, GnmiServiceProofs

(***************************************************************************)
(* SamplesFresh says nothing of a sample that is only begun.  It is        *)
(* strengthened: nothing that was noted when a sample was begun lies in    *)
(* the future; a stream between its refresh and its read finds a copy at   *)
(* least that new; and the Sets noted as OK are still OK.                  *)
(***************************************************************************)
StreamTypeOK ==
    /\ streamState \in
        [Stream -> {"idle", "refresh", "read", "sleep", "OK", "ERROR"}]
    /\ sample \in [Stream -> Notification]
    /\ begun \in [Stream -> [pending : Nat \ {0}, written : Nat \ {0}]]
    /\ stale \in [Stream -> [pending : SUBSET SetRpc, written : SUBSET SetRpc]]

Begun ==
    \A s \in Stream :
        /\ begun[s].pending <= Len(log)
        /\ stale[s].pending \subseteq SetsOK
        /\ streamState[s] = "read" => begun[s].pending <= cached

ServiceInv == TypeOK /\ EditsOfUnfinished

StreamInv == StreamTypeOK /\ Begun /\ SamplesFresh

-----------------------------------------------------------------------------
(***************************************************************************)
(* What a stream does to the service is at most a refresh.                 *)
(***************************************************************************)
Refreshes == Refresh /\ UNCHANGED <<setVars, getVars>>

LEMMA StreamStepRefreshes ==
    ASSUME [StreamNext]_allVars
    PROVE  [Next]_vars \/ Refreshes
  <1> USE DEF vars
  <1>1. ASSUME NEW s \in Stream, StreamArrives(s), UNCHANGED <<setVars, getVars>>
        PROVE  [Next]_vars
    BY <1>1 DEF StreamArrives, Begins
  <1>2. ASSUME NEW s \in Stream, StreamRuns(s)
        PROVE  [Next]_vars \/ Refreshes
    BY <1>2 DEF StreamRuns, StreamIsDue, Begins, StreamRefreshes, StreamReads,
                StreamFails, StreamEnds, Refreshes
  <1>3. CASE UNCHANGED allVars
    BY <1>3 DEF allVars
  <1> QED
    BY <1>1, <1>2, <1>3 DEF StreamNext

\* A refresh keeps the service's invariant, and takes nothing back.
LEMMA ServiceKept ==
    ASSUME ServiceInv, [StreamNext]_allVars
    PROVE  ServiceInv' /\ GoesForward
  <1> USE DEF ServiceInv
  <1>1. CASE [Next]_vars
    BY <1>1, NextTyped, EditsNext, NextGoesForward
  <1>2. CASE Refreshes
    <2>1. SysrepoTypeOK'
      BY <1>2, RefreshTyped DEF Refreshes, TypeOK
    <2>2. SetTypeOK' /\ GetTypeOK'
      BY <1>2 DEF Refreshes, TypeOK, SetTypeOK, GetTypeOK, setVars, getVars,
                  NotificationsMatchPaths
    <2>3. EditsOfUnfinished'
      BY <1>2, EditsKept DEF Refreshes, Refresh, setVars
    <2>4. GoesForward
      BY <1>2, Numbers DEF Refreshes, Refresh, GoesForward, setVars, SetsOK
    <2> QED
      BY <2>1, <2>2, <2>3, <2>4 DEF TypeOK
  <1> QED
    BY <1>1, <1>2, StreamStepRefreshes

-----------------------------------------------------------------------------
(***************************************************************************)
(* One stream s, while the streams other than it and the service move.     *)
(***************************************************************************)
FreshSample(s) ==
    sample[s] # {} =>
        \E n \in begun[s].written .. Len(log) : \A u \in sample[s] :
            IF u.staged THEN u.cell.by \in SetRpc \ stale[s].written
                        ELSE u.cell = log[n][u.leaf]

\* What was written stays fresh: the log only grows.
LEMMA FreshKept ==
    ASSUME TypeOK, StreamTypeOK, GoesForward, NEW s \in Stream, FreshSample(s),
           sample'[s] = sample[s], begun'[s].written = begun[s].written,
           stale'[s].written = stale[s].written
    PROVE  FreshSample(s)'
  <1> SUFFICES ASSUME sample[s] # {}
               PROVE  FreshSample(s)'
    BY DEF FreshSample
  <1>1. PICK n \in begun[s].written .. Len(log) : \A u \in sample[s] :
            IF u.staged THEN u.cell.by \in SetRpc \ stale[s].written
                        ELSE u.cell = log[n][u.leaf]
    BY DEF FreshSample
  <1>2. begun[s].written \in Nat \ {0}
    BY DEF StreamTypeOK
  <1>3. n \in 1 .. Len(log) /\ n \in begun[s].written .. Len(log')
    BY <1>2, Numbers DEF GoesForward
  <1>4. log'[n] = log[n]
    BY <1>3 DEF GoesForward
  <1> QED
    BY <1>1, <1>3, <1>4 DEF FreshSample

\* A read shows the copy, which a refresh since the beginning has loaded.
LEMMA FreshRead ==
    ASSUME ServiceInv, StreamTypeOK, Begun, NEW s \in Stream, StreamReads(s)
    PROVE  FreshSample(s)'
  <1>1. /\ sample'[s] = Shown(Sampled[s])
        /\ begun'[s].written = begun[s].pending
        /\ stale'[s].written = stale[s].pending
        /\ UNCHANGED <<log, edits, cached>>
    BY DEF StreamReads, StreamTypeOK, sysrepoVars
  <1>2. /\ begun[s].pending \in Nat /\ begun[s].pending <= cached
        /\ stale[s].pending \subseteq SetsOK
    BY DEF StreamReads, StreamTypeOK, Begun
  <1>3. cached \in begun[s].pending .. Len(log)
    BY <1>2, Numbers DEF ServiceInv
  <1>4. ASSUME NEW u \in Shown(Sampled[s])
        PROVE  IF u.staged THEN u.cell.by \in SetRpc \ stale[s].pending
                           ELSE u.cell = log[cached][u.leaf]
    <2>1. PICK l \in Sampled[s] :
            u = [leaf |-> l, cell |-> View[l], staged |-> l \in DOMAIN edits]
      BY DEF Shown
    <2>2. u.leaf = l /\ u.cell = View[l] /\ u.staged = (l \in DOMAIN edits)
      BY <2>1
    <2>3. CASE l \in DOMAIN edits
      <3>1. View[l] = edits[l]
        BY <2>3 DEF View, Over
      <3>2. /\ edits[l].by \in SetRpc
            /\ setState[edits[l].by] \in {"ops", "ERROR"}
        BY <2>3 DEF ServiceInv, EditsOfUnfinished
      <3>3. edits[l].by \notin SetsOK
        BY <3>2 DEF SetsOK
      <3> QED
        BY <1>2, <2>2, <2>3, <3>1, <3>2, <3>3
    <2>4. CASE l \notin DOMAIN edits
      <3>1. l \in Leaf
        BY Streams
      <3>2. log[cached] \in [Leaf -> Cell]
        BY DEF ServiceInv, TypeOK, SysrepoTypeOK
      <3>3. View[l] = log[cached][l]
        BY <2>4, <3>1, <3>2 DEF View, Over
      <3> QED
        BY <2>2, <2>4, <3>3
    <2> QED
      BY <2>3, <2>4
  <1> QED
    BY <1>1, <1>3, <1>4 DEF FreshSample

-----------------------------------------------------------------------------
(***************************************************************************)
(* StreamInv is inductive.                                                 *)
(***************************************************************************)
LEMMA StreamTyped ==
    ASSUME ServiceInv, StreamTypeOK, [StreamNext]_allVars
    PROVE  StreamTypeOK'
  <1>0. Len(log) \in Nat \ {0} /\ SetsOK \in SUBSET SetRpc
    BY Numbers DEF ServiceInv, SetsOK
  <1>1. CASE UNCHANGED streamVars
    BY <1>1 DEF StreamTypeOK, streamVars
  <1>2. ASSUME NEW s \in Stream, Begins(s) PROVE StreamTypeOK'
    BY <1>0, <1>2 DEF Begins, StreamGoes, StreamTypeOK
  <1>3. ASSUME NEW s \in Stream, StreamReads(s) PROVE StreamTypeOK'
    <2>1. Sampled[s] \in SUBSET Leaf
      BY Streams
    <2>2. Shown(Sampled[s]) \in Notification
      BY <2>1, ShownTyped DEF ServiceInv, TypeOK
    <2> QED
      BY <1>3, <2>2 DEF StreamReads, StreamGoes, StreamTypeOK
  <1>4. ASSUME NEW s \in Stream,
               StreamRefreshes(s) \/ StreamFails(s) \/ StreamEnds(s)
        PROVE  StreamTypeOK'
    BY <1>4 DEF StreamRefreshes, StreamFails, StreamEnds, StreamGoes,
                StreamTypeOK
  <1> QED
    BY <1>1, <1>2, <1>3, <1>4
    DEF StreamNext, StreamArrives, StreamRuns, StreamIsDue, allVars

LEMMA BegunKept ==
    ASSUME ServiceInv, StreamTypeOK, Begun, [StreamNext]_allVars
    PROVE  Begun'
  <1>0. GoesForward /\ ServiceInv'
    BY ServiceKept
  <1>1. /\ Len(log) \in Nat /\ Len(log') \in Nat /\ Len(log) <= Len(log')
        /\ cached \in Nat /\ cached' \in Nat /\ cached <= cached'
        /\ SetsOK \subseteq SetsOK'
    BY <1>0, Numbers DEF GoesForward, ServiceInv
  <1>2. ASSUME NEW s \in Stream, begun'[s].pending = begun[s].pending,
               stale'[s].pending = stale[s].pending
        PROVE  /\ begun'[s].pending <= Len(log')
               /\ stale'[s].pending \subseteq SetsOK'
               /\ begun[s].pending <= cached => begun'[s].pending <= cached'
    BY <1>1, <1>2 DEF Begun, StreamTypeOK
  <1>3. CASE UNCHANGED streamVars
    BY <1>2, <1>3 DEF Begun, streamVars
  <1>4. ASSUME NEW s \in Stream, Begins(s), UNCHANGED <<setVars, getVars>>
        PROVE  Begun'
    <2>1. /\ begun'[s].pending = Len(log) /\ stale'[s].pending = SetsOK
          /\ streamState'[s] = "refresh"
          /\ \A t \in Stream \ {s} : /\ begun'[t] = begun[t]
                                     /\ stale'[t] = stale[t]
                                     /\ streamState'[t] = streamState[t]
      BY <1>4 DEF Begins, StreamGoes, StreamTypeOK
    <2> QED
      BY <1>1, <1>2, <2>1 DEF Begun
  <1>5. ASSUME NEW s \in Stream,
               StreamRefreshes(s) \/ StreamReads(s) \/ StreamFails(s)
                   \/ StreamEnds(s)
        PROVE  Begun'
    <2>1. \A t \in Stream : /\ begun'[t].pending = begun[t].pending
                            /\ stale'[t].pending = stale[t].pending
      BY <1>5 DEF StreamRefreshes, StreamReads, StreamFails, StreamEnds,
                  StreamTypeOK
    <2>2. \A t \in Stream \ {s} : streamState'[t] = streamState[t]
      BY <1>5 DEF StreamRefreshes, StreamReads, StreamFails, StreamEnds,
                  StreamGoes, StreamTypeOK
    <2>3. streamState'[s] = "read" => begun'[s].pending <= cached'
      <3>1. CASE StreamRefreshes(s)
        BY <2>1, <3>1 DEF StreamRefreshes, Refresh, Begun
      <3>2. CASE ~StreamRefreshes(s)
        BY <1>5, <3>2 DEF StreamReads, StreamFails, StreamEnds, StreamGoes,
                          StreamTypeOK
      <3> QED
        BY <3>1, <3>2
    <2> QED
      BY <1>2, <2>1, <2>2, <2>3 DEF Begun
  <1> QED
    BY <1>3, <1>4, <1>5
    DEF StreamNext, StreamArrives, StreamRuns, StreamIsDue, allVars

LEMMA SamplesKept ==
    ASSUME ServiceInv, StreamInv, [StreamNext]_allVars
    PROVE  SamplesFresh'
  <1> SUFFICES ASSUME NEW t \in Stream
               PROVE  FreshSample(t)'
    BY DEF SamplesFresh, FreshSample
  <1>0. /\ GoesForward /\ FreshSample(t)
        /\ StreamTypeOK /\ Begun /\ TypeOK
    BY ServiceKept DEF StreamInv, SamplesFresh, FreshSample, ServiceInv
  <1>1. CASE StreamReads(t)
    BY <1>0, <1>1, FreshRead
  <1>2. CASE /\ sample'[t] = sample[t]
             /\ begun'[t].written = begun[t].written
             /\ stale'[t].written = stale[t].written
    BY <1>0, <1>2, FreshKept
  <1>3. CASE UNCHANGED streamVars
    BY <1>2, <1>3 DEF streamVars
  <1>4. ASSUME NEW s \in Stream, StreamArrives(s) \/ StreamRuns(s), ~StreamReads(t)
        PROVE  /\ sample'[t] = sample[t]
               /\ begun'[t].written = begun[t].written
               /\ stale'[t].written = stale[t].written
    BY <1>0, <1>4 DEF StreamArrives, StreamRuns, StreamIsDue, Begins,
            StreamRefreshes, StreamReads, StreamFails, StreamEnds, StreamTypeOK
  <1> QED
    BY <1>1, <1>2, <1>3, <1>4 DEF StreamNext, allVars

LEMMA StreamsInit == Init /\ StreamInit => ServiceInv /\ StreamInv
  <1> SUFFICES ASSUME Init, StreamInit
               PROVE  ServiceInv /\ StreamInv
    OBVIOUS
  <1>1. ServiceInv
    BY InitTyped DEF Init, SysrepoInit, NoEdits, EditsOfUnfinished, ServiceInv
  <1>2. StreamTypeOK
    BY DEF StreamInit, StreamTypeOK, Notification
  <1>3. Begun /\ SamplesFresh
    BY <1>1, Numbers DEF ServiceInv, StreamInit, Begun, SamplesFresh
  <1> QED
    BY <1>1, <1>2, <1>3 DEF StreamInv

\* However Sets, Gets, peers and other streams use the session between the
\* refresh and the read of a sample, what is written shows one committed
\* version that is not older than the sample, under edits of Sets that had
\* not returned OK: subscribe.cpp:53, 61.
THEOREM SamplesStayFresh == StreamSpec => []SamplesFresh
  <1>1. Init /\ StreamInit => ServiceInv /\ StreamInv
    BY StreamsInit
  <1>2. ServiceInv /\ StreamInv /\ [StreamNext]_allVars
            => ServiceInv' /\ StreamInv'
    BY ServiceKept, StreamTyped, BegunKept, SamplesKept DEF StreamInv
  <1>3. StreamInv => SamplesFresh
    BY DEF StreamInv
  <1> QED
    BY <1>1, <1>2, <1>3, PTL DEF StreamSpec

\* A refresh by a stream leaves what Gets have shown explained.
LEMMA ReadsKept ==
    ASSUME ServiceInv, ReadsInv, [StreamNext]_allVars
    PROVE  ReadsInv'
  <1> USE DEF ServiceInv
  <1>1. CASE [Next]_vars
    BY <1>1, ArrivedNext, ShownNext DEF ReadsInv
  <1>2. CASE Refreshes
    <2>1. GoesForward /\ UNCHANGED <<getState, got, since, settled>>
      BY <1>2, ServiceKept DEF Refreshes, getVars
    <2>2. Arrived'
      BY <2>1, Numbers DEF ReadsInv, Arrived, GoesForward
    <2>3. ShownSoFar'
      BY <2>1, ForwardKept DEF ReadsInv, ShownSoFar
    <2> QED
      BY <2>2, <2>3 DEF ReadsInv
  <1> QED
    BY <1>1, <1>2, StreamStepRefreshes

\* What holds of Gets when only Sets, Gets and peers are at work holds of
\* them next to any number of streams too: a stream's refresh between a
\* Get's refresh and its read does no harm (get.cpp:43, 51, subscribe.cpp:53).
THEOREM GetsReadForwardAmongStreams == StreamSpec => []GetReadsForward
  <1>1. Init /\ StreamInit => ServiceInv /\ ReadsInv
    BY StreamsInit, ReadsInit
  <1>2. ServiceInv /\ ReadsInv /\ [StreamNext]_allVars
            => ServiceInv' /\ ReadsInv'
    BY ServiceKept, ReadsKept
  <1>3. ServiceInv /\ ReadsInv => GetReadsForward
    BY ReadsSuffice DEF ServiceInv
  <1> QED
    BY <1>1, <1>2, <1>3, PTL DEF StreamSpec
=============================================================================
