--------------------------- MODULE SubscribeProofs ---------------------------
(***************************************************************************)
(* Proofs about Subscribe, for every first message, every period, bounds   *)
(* on the work of an iteration and steps of the clock: what its state may  *)
(* be, and when samples are sent.                                          *)
(***************************************************************************)
EXTENDS Subscribe, ExtremaProofs

Looping == {"loop", "scan", "update", "sleep"}

(***************************************************************************)
(* TypeOK is not inductive.  What the present loop has yet to visit is     *)
(* what it builds for; nothing is left to build for when a notification is *)
(* written; the clock shows less than nothing only once it has been set.   *)
(***************************************************************************)
Order ==
    /\ pc = "open" => request = NoMessage /\ elapsed = 0
    /\ pc = "sync" => request.mode \in {"ONCE", "STREAM"}
    /\ pc \in Looping => request.mode = "STREAM"
    /\ pc = "poll" => request.mode = "POLL"
    /\ pc = "build" => request.mode # "UNKNOWN"
    /\ pc \in {"build", "update"} => todo \subseteq due
    /\ pc \in {"sync", "loop", "sleep"} => due = {}

Clock ==
    /\ skew \in -Setting .. Setting
    /\ \A i \in Subs : age[i] >= -Setting
    /\ pc \in {"build", "sync", "scan", "update", "poll"} => elapsed <= MaxWork
    /\ pc = "sleep" => elapsed <= MaxWork \/ elapsed + skew <= MaxIteration
    /\ pc = "loop" => elapsed <= MaxIteration + Setting

HandlerInv == TypeOK /\ Order /\ Clock

-----------------------------------------------------------------------------
\* The bounds are natural numbers.
LEMMA BoundsTyped ==
    /\ LoopPeriod \in Nat /\ MaxWork \in Nat /\ MaxIteration \in Nat
    /\ MaxStep \in Nat /\ MaxInterval \in Nat /\ Horizon \in Nat
    /\ MaxWork <= MaxIteration
  BY Bounds

\* The first messages are typed, and so are the subscriptions of a message.
LEMMA MessagesTyped ==
    /\ NoMessage \in Message /\ FirstMessage \subseteq Message
    /\ DOMAIN NoMessage.subs = {}
    /\ \A q \in Message :
           /\ DOMAIN q.subs \in SUBSET Nat
           /\ \A i \in DOMAIN q.subs : q.subs[i].interval \in Nat
  <1>1. NoMessage \in Message /\ DOMAIN NoMessage.subs = {}
    BY DEF NoMessage, Message
  <1>2. ASSUME NEW q \in Message
        PROVE  /\ DOMAIN q.subs \in SUBSET Nat
               /\ \A i \in DOMAIN q.subs : q.subs[i].interval \in Nat
    <2> DEFINE E == [mode : SubMode, interval : Nat]
    <2>1. q.subs \in Seq(E)
      BY DEF Message
    <2>2. DOMAIN q.subs \in SUBSET Nat /\ \A i \in DOMAIN q.subs : q.subs[i] \in E
      <3> HIDE DEF E
      <3> QED
        BY <2>1
    <2> QED
      BY <2>2
  <1> QED
    BY <1>1, <1>2, Messages

\* The next subscription to visit is one of those to be visited.
LEMMA FirstIsOne ==
    ASSUME TypeOK, todo # {}
    PROVE  First(todo) \in todo
  <1>1. todo \in SUBSET Nat
    BY MessagesTyped DEF TypeOK, Subs
  <1>2. \E i \in todo : \A j \in todo : i <= j
    BY <1>1, LeastExists
  <1> QED
    BY <1>2 DEF First

LEMMA HandlerInit == Init => HandlerInv
  <1> SUFFICES ASSUME Init PROVE HandlerInv
    OBVIOUS
  <1>1. Subs = {} /\ Sampled = {}
    BY MessagesTyped DEF Init, Subs, Sampled
  <1>2. TypeOK
    <2>1. age \in [Subs -> -MaxStep .. Horizon] /\ silence \in [Subs -> 0 .. Horizon]
      BY <1>1 DEF Init
    <2>2. /\ elapsed \in 0 .. MaxIteration + MaxStep
          /\ skew \in -MaxStep .. MaxStep
      BY BoundsTyped DEF Init
    <2> QED
      BY <1>1, <2>1, <2>2, MessagesTyped DEF Init, TypeOK
  <1>3. Order /\ Clock
    BY <1>1, BoundsTyped DEF Init, Order, Clock, Looping, Setting
  <1> QED
    BY <1>2, <1>3 DEF HandlerInv

\* A step that changes only where the handler is, its status, and whether
\* the call is cancelled: a return.
LEMMA ReturnKeeps ==
    ASSUME HandlerInv, NEW cancel \in BOOLEAN, pc # "done",
           NEW s \in {"OK", "UNIMPLEMENTED", "INVALID_ARGUMENT", "NOT_FOUND",
                      "UNKNOWN"},
           Return(s, cancel)
    PROVE  HandlerInv'
  BY DEF HandlerInv, TypeOK, Order, Clock, Return, Subs, Sampled, Looping,
         Setting, build, time, data, client

LEMMA ReceiveKeeps ==
    ASSUME HandlerInv, ReceiveFirst
    PROVE  HandlerInv'
  <1>1. PICK q \in FirstMessage \cup {NoMessage} :
            (cancelled => q = NoMessage) /\ Receive(q)
    BY DEF ReceiveFirst
  <1>2. q \in Message
    BY MessagesTyped
  <1>3. Rejection(q) \in {"none", "UNIMPLEMENTED", "INVALID_ARGUMENT", "UNKNOWN"}
    BY DEF Rejection
  <1>4. /\ Subs = {} /\ message = {} /\ delivered = {} /\ covered = {}
        /\ elapsed = 0
    BY <1>1, MessagesTyped DEF HandlerInv, TypeOK, Order, Receive, Subs
  <1>5. Subs' = DOMAIN q.subs
    BY <1>1 DEF Receive, Subs
  <1>6. TypeOK'
    BY <1>1, <1>2, <1>3, <1>4, <1>5, BoundsTyped
       DEF HandlerInv, TypeOK, Receive
  <1>7. Order' /\ Clock'
    BY <1>1, <1>3, <1>4, <1>5, BoundsTyped
       DEF HandlerInv, TypeOK, Order, Clock, Receive, Rejection, Looping,
           Setting
  <1> QED
    BY <1>6, <1>7 DEF HandlerInv

LEMMA BuildKeeps ==
    ASSUME HandlerInv,
           BuildRefused \/ ReadSubscription \/ ReadFails \/ RefreshThrows
    PROVE  HandlerInv'
  <1>1. ASSUME BuildRefused PROVE HandlerInv'
    BY <1>1, ReturnKeeps DEF BuildRefused
  <1>2. ASSUME ReadSubscription PROVE HandlerInv'
    <2>1. First(todo) \in todo
      BY <1>2, FirstIsOne DEF ReadSubscription, HandlerInv
    <2>2. /\ message' \subseteq due \X BOOLEAN
          /\ todo' \subseteq todo /\ changed' \subseteq changed
          /\ UNCHANGED <<control, due, time, present, client>>
      <3> DEFINE i == First(todo)
      <3>1. i \in due
        BY <1>2, <2>1 DEF ReadSubscription, Building, HandlerInv, Order
      <3>2. message \subseteq due \X BOOLEAN
        BY DEF HandlerInv, TypeOK
      <3>3. /\ message' = message \cup {<<i, FALSE>>, <<i, TRUE>>}
            /\ todo' = todo \ {i} /\ changed' = changed \ {i}
            /\ UNCHANGED <<control, due, time, present, client>>
        BY <1>2 DEF ReadSubscription
      <3> HIDE DEF i
      <3>4. <<i, FALSE>> \in due \X BOOLEAN /\ <<i, TRUE>> \in due \X BOOLEAN
        BY <3>1
      <3>5. message' \subseteq due \X BOOLEAN
        BY <3>2, <3>3, <3>4
      <3> QED
        BY <3>3, <3>5
    <2>3. TypeOK'
      BY <2>2 DEF HandlerInv, TypeOK, control, time, client, Subs, Sampled
    <2>4. Order' /\ Clock'
      BY <2>2 DEF HandlerInv, Order, Clock, control, time, Subs, Looping, Setting
    <2> QED
      BY <2>3, <2>4 DEF HandlerInv
  <1>3. ASSUME ReadFails PROVE HandlerInv'
    BY <1>3, ReturnKeeps DEF ReadFails, Building
  <1>4. ASSUME RefreshThrows PROVE HandlerInv'
    BY <1>4, ReturnKeeps DEF RefreshThrows, Building
  <1> QED
    BY <1>1, <1>2, <1>3, <1>4

LEMMA WriteKeeps ==
    ASSUME HandlerInv, WriteUpdate \/ WriteSync
    PROVE  HandlerInv'
  <1>1. ASSUME WriteUpdate PROVE HandlerInv'
    <2>1. /\ delivered' \subseteq Subs \X BOOLEAN /\ covered' \subseteq Subs
          /\ synced' = synced /\ silence' \in [Subs -> 0 .. Horizon]
      BY <1>1, BoundsTyped DEF WriteUpdate, Sent, HandlerInv, TypeOK, client
    <2>2. /\ pc' = AfterUpdate /\ message' = {} /\ due' = {}
          /\ UNCHANGED <<request, cancelled, status, todo, time, data>>
          /\ pc \in {"build", "update"} /\ todo = {}
      BY <1>1 DEF WriteUpdate, GoTo, Building
    <2>3. AfterUpdate \in {"poll", "sleep", "sync"}
      BY DEF AfterUpdate
    <2>4. TypeOK'
      BY <2>1, <2>2, <2>3 DEF HandlerInv, TypeOK, Subs, Sampled, time, data
    <2>5. /\ AfterUpdate = "sync" => request.mode \in {"ONCE", "STREAM"}
          /\ AfterUpdate = "sleep" => request.mode = "STREAM" /\ pc = "update"
          /\ AfterUpdate = "poll" => request.mode = "POLL"
      <3>1. request.mode \in {"STREAM", "ONCE", "POLL", "UNKNOWN"}
        BY DEF HandlerInv, TypeOK, Message
      <3> QED
        BY <2>2, <3>1 DEF AfterUpdate, HandlerInv, Order, Looping
    <2>6. Order'
      BY <2>2, <2>3, <2>5 DEF Order, Looping
    <2>7. Clock'
      BY <2>2, <2>3, <2>5 DEF HandlerInv, Clock, Setting, time, Subs
    <2> QED
      BY <2>4, <2>6, <2>7 DEF HandlerInv
  <1>2. ASSUME WriteSync PROVE HandlerInv'
    <2>1. CASE request.mode = "ONCE"
      BY <1>2, <2>1 DEF WriteSync, HandlerInv, TypeOK, Order, Clock, Subs,
                        Sampled, Looping, Setting, build, data
    <2>2. CASE request.mode # "ONCE"
      <3>1. /\ pc' = "loop" /\ age' = [i \in Subs |-> 0] /\ synced' \in BOOLEAN
            /\ UNCHANGED <<request, cancelled, status, build, data, elapsed,
                           skew, set, delivered, covered, silence>>
            /\ pc = "sync" /\ request.mode = "STREAM"
        BY <1>2, <2>2 DEF WriteSync, GoTo, HandlerInv, TypeOK, Order
      <3>2. Subs' = Subs /\ Sampled' = Sampled
        BY <3>1 DEF Subs, Sampled
      <3>3. TypeOK'
        BY <3>1, <3>2, BoundsTyped DEF HandlerInv, TypeOK, build, data
      <3>4. Order' /\ Clock'
        BY <3>1, <3>2, BoundsTyped
           DEF HandlerInv, TypeOK, Order, Clock, Setting, Looping, build
      <3> QED
        BY <3>3, <3>4 DEF HandlerInv
    <2> QED
      BY <2>1, <2>2
  <1> QED
    BY <1>1, <1>2

LEMMA LoopKeeps ==
    ASSUME HandlerInv, Iterate \/ StreamEnds \/ ScanPair \/ ScanDone \/ Wake
    PROVE  HandlerInv'
  <1>1. ASSUME Iterate PROVE HandlerInv'
    <2>1. /\ pc = "loop" /\ pc' = "scan" /\ todo' = Sampled
          /\ elapsed' = 0 /\ skew' = 0
          /\ UNCHANGED <<request, cancelled, status, due, message, age, set,
                         data, client>>
      BY <1>1 DEF Iterate, GoTo, InChronomap
    <2>2. Subs' = Subs /\ Sampled' = Sampled /\ Sampled \subseteq Subs
      BY <2>1 DEF Subs, Sampled
    <2>3. TypeOK'
      BY <2>1, <2>2, BoundsTyped DEF HandlerInv, TypeOK, Order, data, client
    <2>4. Order' /\ Clock'
      BY <2>1, <2>2, BoundsTyped
         DEF HandlerInv, TypeOK, Order, Clock, Setting, Looping
    <2> QED
      BY <2>3, <2>4 DEF HandlerInv
  <1>2. ASSUME StreamEnds PROVE HandlerInv'
    BY <1>2, ReturnKeeps DEF StreamEnds
  <1>3. ASSUME ScanPair PROVE HandlerInv'
    <2> DEFINE i == First(todo)
    <2>1. i \in todo
      BY <1>3, FirstIsOne DEF ScanPair, HandlerInv
    <2>2. i \in Sampled /\ i \in Subs /\ pc = "scan"
      BY <1>3, <2>1 DEF ScanPair, HandlerInv, TypeOK
    <2> HIDE DEF i
    <2>3. /\ todo' \subseteq todo
          /\ age' = Restarted(i)
          /\ due' \subseteq due \cup {i} /\ due \subseteq due'
          /\ UNCHANGED <<control, message, elapsed, skew, set, data, client>>
      BY <1>3 DEF ScanPair, i
    <2>4. /\ age' \in [Subs -> -MaxStep .. Horizon]
          /\ \A j \in Subs : age'[j] = age[j] \/ age'[j] = 0
      BY <2>2, <2>3, BoundsTyped DEF Restarted, HandlerInv, TypeOK
    <2>5. TypeOK'
      BY <2>2, <2>3, <2>4
         DEF HandlerInv, TypeOK, Subs, Sampled, control, data, client
    <2>6. Order' /\ Clock'
      BY <2>2, <2>3, <2>4, BoundsTyped
         DEF HandlerInv, TypeOK, Order, Clock, Setting, Looping, Subs, control
    <2> QED
      BY <2>5, <2>6 DEF HandlerInv
  <1>4. ASSUME ScanDone PROVE HandlerInv'
    <2>1. /\ pc = "scan" /\ todo' = due
          /\ pc' = IF due = {} THEN "sleep" ELSE "update"
          /\ UNCHANGED <<request, cancelled, status, due, message, time, data,
                         client>>
      BY <1>4 DEF ScanDone, GoTo
    <2>2. TypeOK'
      BY <2>1 DEF HandlerInv, TypeOK, Subs, Sampled, time, data, client
    <2>3. Order' /\ Clock'
      BY <2>1 DEF HandlerInv, Order, Clock, Setting, Looping, Subs, time
    <2> QED
      BY <2>2, <2>3 DEF HandlerInv
  <1>5. ASSUME Wake PROVE HandlerInv'
    <2>1. /\ pc = "sleep" /\ pc' = "loop"
          /\ UNCHANGED <<request, cancelled, status, build, time, data, client>>
      BY <1>5 DEF Wake, GoTo
    <2>2. TypeOK'
      BY <2>1 DEF HandlerInv, TypeOK, Subs, Sampled, build, time, data, client
    <2>3. elapsed <= MaxIteration + Setting
      BY <2>1, BoundsTyped DEF HandlerInv, TypeOK, Clock, Setting
    <2>4. Order' /\ Clock'
      BY <2>1, <2>3
         DEF HandlerInv, Order, Clock, Setting, Looping, Subs, build, time
    <2> QED
      BY <2>2, <2>4 DEF HandlerInv
  <1> QED
    BY <1>1, <1>2, <1>3, <1>4, <1>5

LEMMA ClientKeeps ==
    ASSUME HandlerInv,
           Poll \/ PollMisused \/ PollEnds \/ ClientCancels \/ DataChanges
    PROVE  HandlerInv'
  <1>1. ASSUME Poll PROVE HandlerInv'
    <2>1. /\ pc = "poll" /\ pc' = "build" /\ todo' = Subs /\ due' = Subs
          /\ UNCHANGED <<request, cancelled, status, message, time, data, client>>
      BY <1>1 DEF Poll, GoTo
    <2>2. TypeOK'
      BY <2>1 DEF HandlerInv, TypeOK, Subs, Sampled, time, data, client
    <2>3. Order' /\ Clock'
      BY <2>1 DEF HandlerInv, Order, Clock, Setting, Looping, Subs, time
    <2> QED
      BY <2>2, <2>3 DEF HandlerInv
  <1>2. ASSUME PollMisused PROVE HandlerInv'
    BY <1>2, ReturnKeeps DEF PollMisused
  <1>3. ASSUME PollEnds PROVE HandlerInv'
    BY <1>3, ReturnKeeps DEF PollEnds
  <1>4. ASSUME ClientCancels PROVE HandlerInv'
    BY <1>4 DEF ClientCancels, HandlerInv, TypeOK, Order, Clock, Setting,
                Looping, Subs, Sampled, build, time, data, client
  <1>5. ASSUME DataChanges PROVE HandlerInv'
    <2>1. /\ present' \subseteq Subs /\ changed' \subseteq Subs
          /\ UNCHANGED <<control, build, time, client>>
      BY <1>5 DEF DataChanges, HandlerInv, TypeOK
    <2> QED
      BY <2>1 DEF HandlerInv, TypeOK, Order, Clock, Setting, Looping, Subs,
                  Sampled, control, build, time, client
  <1> QED
    BY <1>1, <1>2, <1>3, <1>4, <1>5

LEMMA LaterTyped ==
    ASSUME NEW t \in Int, t <= Horizon
    PROVE  /\ Later(t) \in Int /\ Later(t) <= Horizon
           /\ t <= Later(t) /\ Later(t) <= t + 1
           /\ Later(t) = Horizon \/ Later(t) = t + 1
  BY BoundsTyped DEF Later

LEMMA TimeKeeps ==
    ASSUME HandlerInv, Tick \/ ClockIsSet
    PROVE  HandlerInv'
  <1>1. ASSUME Tick PROVE HandlerInv'
    <2>1. /\ age' = [i \in Subs |-> Later(age[i])]
          /\ silence' = [i \in Subs |-> Later(silence[i])]
          /\ elapsed' = elapsed + 1
          /\ UNCHANGED <<control, build, data, delivered, covered, synced,
                         skew, set>>
          /\ \/ /\ pc \in {"build", "sync", "loop", "scan", "update"}
                /\ elapsed < MaxWork
             \/ pc = "sleep" /\ elapsed + skew < MaxIteration
      BY <1>1 DEF Tick
    <2>2. /\ age' \in [Subs -> -MaxStep .. Horizon]
          /\ \A i \in Subs : age[i] <= age'[i]
      BY <2>1, LaterTyped, BoundsTyped DEF HandlerInv, TypeOK
    <2>3. silence' \in [Subs -> 0 .. Horizon]
      BY <2>1, LaterTyped, BoundsTyped DEF HandlerInv, TypeOK
    <2>4. elapsed' \in 0 .. MaxIteration + MaxStep
      BY <2>1, BoundsTyped DEF HandlerInv, TypeOK
    <2>5. TypeOK'
      BY <2>1, <2>2, <2>3, <2>4
         DEF HandlerInv, TypeOK, Subs, Sampled, control, build, data
    <2>6. Order'
      BY <2>1 DEF HandlerInv, Order, Looping, control, build
    <2>7. Clock'
      <3>1. /\ pc' = pc /\ skew' = skew /\ Setting' = Setting /\ Subs' = Subs
            /\ Setting \in Nat
        BY <2>1, BoundsTyped DEF control, Setting, Subs
      <3>2. \A i \in Subs : age'[i] >= -Setting
        BY <2>2, <3>1, BoundsTyped DEF HandlerInv, TypeOK, Clock
      <3> QED
        BY <2>1, <3>1, <3>2, BoundsTyped DEF HandlerInv, TypeOK, Clock
    <2> QED
      BY <2>5, <2>6, <2>7 DEF HandlerInv
  <1>2. ASSUME ClockIsSet PROVE HandlerInv'
    <2>1. PICK step \in -MaxStep .. MaxStep \ {0} :
            /\ age' = [i \in Subs |-> IF age[i] + step > Horizon THEN Horizon
                                      ELSE age[i] + step]
            /\ skew' = IF pc = "sleep" THEN skew ELSE skew + step
      BY <1>2 DEF ClockIsSet
    <2>2. /\ set = FALSE /\ set' = TRUE
          /\ UNCHANGED <<control, build, elapsed, data, client>>
      BY <1>2 DEF ClockIsSet, HandlerInv, TypeOK
    <2>3. /\ Setting = 0 /\ Setting' = MaxStep /\ skew = 0
          /\ \A i \in Subs : age[i] >= 0
      BY <2>2, BoundsTyped DEF HandlerInv, TypeOK, Clock, Setting
    <2>4. /\ age' \in [Subs -> -MaxStep .. Horizon]
          /\ skew' \in -MaxStep .. MaxStep
      BY <2>1, <2>3, BoundsTyped DEF HandlerInv, TypeOK
    <2>5. TypeOK'
      BY <2>2, <2>4
         DEF HandlerInv, TypeOK, Subs, Sampled, control, build, data, client
    <2>6. Order'
      BY <2>2 DEF HandlerInv, Order, Looping, control, build
    <2>7. Clock'
      <3>1. pc' = pc /\ Subs' = Subs /\ elapsed' = elapsed
        BY <2>2 DEF control, Subs
      <3>2. pc = "sleep" => skew' = skew
        BY <2>1
      <3>3. \A i \in Subs : age'[i] >= -MaxStep
        BY <2>4, BoundsTyped
      <3>4. skew' \in -Setting' .. Setting'
        BY <2>3, <2>4
      <3>5. \A i \in Subs' : age'[i] >= -Setting'
        BY <2>3, <3>1, <3>3
      <3>6. pc' = "sleep" =>
                elapsed' <= MaxWork \/ elapsed' + skew' <= MaxIteration
        BY <3>1, <3>2 DEF HandlerInv, Clock
      <3>7. pc' = "loop" => elapsed' <= MaxIteration + Setting'
        BY <2>3, <3>1, BoundsTyped DEF HandlerInv, TypeOK, Clock
      <3>8. pc' \in {"build", "sync", "scan", "update", "poll"} =>
                elapsed' <= MaxWork
        BY <3>1 DEF HandlerInv, Clock
      <3> QED
        BY <3>4, <3>5, <3>6, <3>7, <3>8 DEF Clock
    <2> QED
      BY <2>5, <2>6, <2>7 DEF HandlerInv
  <1> QED
    BY <1>1, <1>2

LEMMA HandlerNext == HandlerInv /\ [Next]_vars => HandlerInv'
  <1> SUFFICES ASSUME HandlerInv, [Next]_vars PROVE HandlerInv'
    OBVIOUS
  <1>1. CASE UNCHANGED vars
    BY <1>1 DEF vars, control, build, time, data, client, HandlerInv, TypeOK,
                Order, Clock, Setting, Looping, Subs, Sampled
  <1> QED
    BY <1>1, ReceiveKeeps, BuildKeeps, WriteKeeps, LoopKeeps, ClientKeeps,
       TimeKeeps DEF Next, Handler, Client

LEMMA HandlerInvHolds == Spec => []HandlerInv
  BY HandlerInit, HandlerNext, PTL DEF Spec

\* What a handler works on is a message it has not turned down.
Accepted ==
    pc \notin {"open", "done"} =>
        /\ request \in FirstMessage \cup {NoMessage}
        /\ request.mode = "STREAM" => ~TooLong(request)

LEMMA AcceptedNext == Accepted /\ [Next]_vars => Accepted'
  <1> SUFFICES ASSUME Accepted, [Next]_vars PROVE Accepted'
    OBVIOUS
  <1>1. ASSUME ReceiveFirst PROVE Accepted'
    <2>1. PICK q \in FirstMessage \cup {NoMessage} : Receive(q)
      BY <1>1 DEF ReceiveFirst
    <2>2. Rejection(q) = "none" => (q.mode = "STREAM" => ~TooLong(q))
      BY DEF Rejection
    <2>3. request' = q /\ (pc' \notin {"open", "done"} => Rejection(q) = "none")
      BY <2>1 DEF Receive
    <2>4. TooLong(request)' <=> TooLong(q)
      BY <2>3 DEF TooLong
    <2> QED
      BY <2>2, <2>3, <2>4 DEF Accepted
  <1>2. CASE Next /\ ~ReceiveFirst
    <2>1. request' = request /\ (pc' \in {pc, "done"} \/ pc \notin {"open", "done"})
      BY <1>2 DEF Next, Handler, Client, BuildRefused, ReadSubscription, ReadFails,
                  RefreshThrows, WriteUpdate, WriteSync, Iterate, StreamEnds,
                  ScanPair, ScanDone, Wake, Poll, PollMisused, PollEnds,
                  ClientCancels, DataChanges, Tick, ClockIsSet, Building, GoTo,
                  Return, control
    <2> QED
      BY <2>1 DEF Accepted, TooLong
  <1>3. CASE UNCHANGED vars
    BY <1>3 DEF vars, control, Accepted, TooLong
  <1> QED
    BY <1>1, <1>2, <1>3

LEMMA AcceptedHolds == Spec => []Accepted
  <1>1. Init => Accepted
    BY DEF Init, Accepted
  <1> QED
    BY <1>1, AcceptedNext, PTL DEF Spec

\* A call's state keeps its type; in particular the loop never builds for a
\* subscription that is not sampled, and no time runs over.
THEOREM SubscribeTypeCorrect == Spec => []TypeOK
  <1>1. HandlerInv => TypeOK
    BY DEF HandlerInv
  <1> QED
    BY <1>1, HandlerInvHolds, PTL

-----------------------------------------------------------------------------
(***************************************************************************)
(* When samples are sent.  SamplesNeverLate speaks of the client's time,   *)
(* the loop acts on chronomap's: the invariant bounds how far apart the    *)
(* two may be, for a subscription that is not being sent, in either        *)
(* direction; and how long the client may have waited, less for one that   *)
(* this iteration has looked at than for one it has yet to look at.        *)
(***************************************************************************)
Slack == MaxWork + Setting

Waiting(i) == i \in due \/ (pc = "scan" /\ i \in todo)

Timed(i) ==
    /\ i \notin due =>
           silence[i] <= age[i] + Slack /\ age[i] <= silence[i] + Slack
    /\ i \in due =>
           /\ age[i] <= elapsed + Setting
           /\ silence[i] + Slack > request.subs[i].interval
    /\ ~Waiting(i) => silence[i] <= request.subs[i].interval + Slack + elapsed
    /\ Waiting(i) => silence[i] <= request.subs[i].interval + MaxIteration
                                       + MaxWork + 2 * Setting + elapsed

TimingInv ==
    /\ pc \in {"build", "sync"} /\ request.mode = "STREAM" =>
           \A i \in Subs : silence[i] <= elapsed
    /\ Streaming => \A i \in Sampled : Timed(i)

\* What the invariant says of the numbers it is about.
LEMMA Measured ==
    ASSUME HandlerInv, NEW i \in Sampled
    PROVE  /\ i \in Subs
           /\ request.subs[i].interval \in Nat
           /\ age[i] \in Int /\ -Setting <= age[i] /\ age[i] <= Horizon
           /\ silence[i] \in Nat /\ silence[i] <= Horizon
           /\ elapsed \in Nat /\ Setting \in Nat
           /\ Slack = MaxWork + Setting
  <1>1. i \in Subs
    BY DEF Sampled
  <1>2. request.subs[i].interval \in Nat
    BY <1>1, MessagesTyped DEF HandlerInv, TypeOK, Subs
  <1>3. age[i] \in -MaxStep .. Horizon /\ silence[i] \in 0 .. Horizon
    BY <1>1 DEF HandlerInv, TypeOK
  <1>4. elapsed \in Nat /\ Setting \in Nat
    BY BoundsTyped DEF HandlerInv, TypeOK, Setting
  <1> QED
    BY <1>1, <1>2, <1>3, <1>4, BoundsTyped DEF HandlerInv, Clock, Slack

LEMMA TimingInit == Init => TimingInv
  BY DEF Init, TimingInv, Streaming

\* A step that leaves the handler's place, its sets and the times alone.
LEMMA TimingSame ==
    ASSUME TimingInv, UNCHANGED <<pc, request, todo, due, time, silence>>,
           cancelled => cancelled'
    PROVE  TimingInv'
  <1>1. Subs' = Subs /\ Sampled' = Sampled /\ Setting' = Setting
    BY DEF Subs, Sampled, Setting, time
  <1>2. \A i : Timed(i)' <=> Timed(i)
    BY <1>1 DEF Timed, Waiting, Slack, time
  <1>3. Streaming' => Streaming
    BY DEF Streaming
  <1> QED
    BY <1>1, <1>2, <1>3 DEF TimingInv, time

LEMMA TimingBuild ==
    ASSUME HandlerInv, HandlerInv', TimingInv,
           ReceiveFirst \/ BuildRefused \/ ReadSubscription \/ ReadFails
               \/ RefreshThrows \/ Poll \/ PollMisused \/ PollEnds
    PROVE  TimingInv'
  <1>1. ASSUME ReceiveFirst PROVE TimingInv'
    <2>1. PICK q \in FirstMessage \cup {NoMessage} : Receive(q)
      BY <1>1 DEF ReceiveFirst
    <2>2. pc' \notin Looping
      BY <2>1 DEF Receive, Looping
    <2>3. \A i \in Subs' : silence'[i] = 0
      BY <2>1 DEF Receive, Subs
    <2>4. elapsed' >= 0
      BY BoundsTyped DEF HandlerInv, TypeOK
    <2> QED
      BY <2>2, <2>3, <2>4 DEF TimingInv, Streaming, Looping
  <1>2. ASSUME BuildRefused \/ ReadFails \/ RefreshThrows \/ PollMisused \/ PollEnds
        PROVE TimingInv'
    <2>1. pc' = "done"
      BY <1>2 DEF BuildRefused, ReadFails, RefreshThrows, PollMisused, PollEnds,
                  Return
    <2> QED
      BY <2>1 DEF TimingInv, Streaming
  <1>3. ASSUME ReadSubscription PROVE TimingInv'
    <2>1. pc # "scan"
      BY <1>3 DEF ReadSubscription, Building
    <2>2. UNCHANGED <<control, due, time, client>>
      BY <1>3 DEF ReadSubscription
    <2>3. Subs' = Subs /\ Sampled' = Sampled /\ Setting' = Setting
      BY <2>2 DEF Subs, Sampled, Setting, time, control
    <2>4. \A i : Timed(i)' <=> Timed(i)
      BY <2>1, <2>2, <2>3 DEF Timed, Waiting, Slack, time, control, client
    <2> QED
      BY <2>2, <2>3, <2>4 DEF TimingInv, Streaming, time, control, client
  <1>4. ASSUME Poll PROVE TimingInv'
    BY <1>4 DEF Poll, GoTo, TimingInv, Streaming, HandlerInv, Order
  <1> QED
    BY <1>1, <1>2, <1>3, <1>4

LEMMA TimingWrite ==
    ASSUME HandlerInv, HandlerInv', TimingInv, WriteUpdate \/ WriteSync
    PROVE  TimingInv'
  <1>1. ASSUME WriteUpdate PROVE TimingInv'
    <2>1. /\ pc' = AfterUpdate /\ due' = {}
          /\ UNCHANGED <<request, cancelled, todo, time>>
          /\ pc \in {"build", "update"}
      BY <1>1 DEF WriteUpdate, GoTo, Building
    <2>2. \A i \in Subs : \/ silence'[i] = silence[i]
                          \/ silence'[i] = 0 /\ i \in due
      BY <1>1 DEF WriteUpdate, Sent, client, HandlerInv, TypeOK
    <2>3. ~cancelled => \A i \in due : silence'[i] = 0
      BY <1>1 DEF WriteUpdate, Sent, HandlerInv, TypeOK
    <2>4. Subs' = Subs /\ Sampled' = Sampled /\ Setting' = Setting
      BY <2>1 DEF Subs, Sampled, Setting, time
    <2>5. pc' = "sync" /\ request.mode = "STREAM" =>
              \A i \in Subs : silence'[i] <= elapsed'
      <3>1. pc' = "sync" => pc = "build"
        BY <2>1 DEF AfterUpdate, HandlerInv, Order, Looping
      <3>2. elapsed' = elapsed /\ elapsed >= 0
        BY <2>1, BoundsTyped DEF time, HandlerInv, TypeOK
      <3> QED
        BY <2>2, <3>1, <3>2 DEF TimingInv
    <2>6. ASSUME Streaming', NEW i \in Sampled PROVE Timed(i)'
      <3>1. pc = "update" /\ pc' = "sleep" /\ Streaming
        BY <2>1, <2>6 DEF AfterUpdate, Streaming, HandlerInv, Order, Looping
      <3>2. Timed(i)
        BY <3>1 DEF TimingInv
      <3>3. ~Waiting(i)' /\ i \notin due' /\ (Waiting(i) <=> i \in due)
        BY <2>1, <3>1 DEF Waiting
      <3>4. age'[i] = age[i] /\ elapsed' = elapsed /\ elapsed <= MaxWork
        BY <2>1, <3>1 DEF time, HandlerInv, Clock
      <3>5. i \in due => silence'[i] = 0
        BY <2>3, <3>1 DEF Streaming
      <3>6. i \notin due => silence'[i] = silence[i]
        BY <2>2, Measured
      <3>7. Slack' = Slack /\ request' = request
        BY <2>1, <2>4 DEF Slack
      <3> QED
        BY <2>4, <3>2, <3>3, <3>4, <3>5, <3>6, <3>7, Measured, BoundsTyped DEF Timed
    <2>7. pc' \notin {"build"}
      BY <2>1 DEF AfterUpdate
    <2> QED
      BY <2>1, <2>4, <2>5, <2>6, <2>7 DEF TimingInv
  <1>2. ASSUME WriteSync PROVE TimingInv'
    <2>1. CASE pc' = "done"
      BY <2>1 DEF TimingInv, Streaming
    <2>2. CASE pc' # "done"
      <3>1. /\ pc = "sync" /\ pc' = "loop" /\ age' = [i \in Subs |-> 0]
            /\ UNCHANGED <<request, cancelled, build, elapsed, set, silence>>
            /\ request.mode = "STREAM" /\ due = {}
        BY <1>2, <2>2 DEF WriteSync, GoTo, HandlerInv, Order
      <3>2. Subs' = Subs /\ Sampled' = Sampled /\ Slack' = Slack
        BY <3>1 DEF Subs, Sampled, Slack, Setting
      <3>3. ASSUME NEW i \in Sampled PROVE Timed(i)'
        <4>1. silence[i] <= elapsed /\ elapsed <= MaxWork
          BY <3>1, Measured DEF TimingInv, HandlerInv, Clock
        <4>2. age'[i] = 0 /\ silence'[i] = silence[i]
          BY <3>1, Measured
        <4>3. i \notin due' /\ ~Waiting(i)'
          BY <3>1 DEF Waiting, build
        <4> QED
          BY <3>1, <3>2, <4>1, <4>2, <4>3, Measured, BoundsTyped DEF Timed
      <3> QED
        BY <3>1, <3>2, <3>3 DEF TimingInv
    <2> QED
      BY <2>1, <2>2
  <1> QED
    BY <1>1, <1>2

LEMMA TimingLoop ==
    ASSUME HandlerInv, HandlerInv', Accepted, TimingInv,
           Iterate \/ StreamEnds \/ ScanPair \/ ScanDone \/ Wake
    PROVE  TimingInv'
  <1>1. ASSUME Iterate PROVE TimingInv'
    <2>1. /\ pc = "loop" /\ pc' = "scan" /\ todo' = Sampled /\ due = {}
          /\ elapsed' = 0
          /\ UNCHANGED <<request, cancelled, due, age, set, silence>>
      BY <1>1 DEF Iterate, GoTo, InChronomap, client, HandlerInv, Order
    <2>2. Subs' = Subs /\ Sampled' = Sampled /\ Setting' = Setting /\ Slack' = Slack
      BY <2>1 DEF Subs, Sampled, Setting, Slack
    <2>3. ASSUME Streaming, NEW i \in Sampled PROVE Timed(i)'
      <3>1. Timed(i) /\ ~Waiting(i)
        BY <2>1, <2>3 DEF TimingInv, Waiting
      <3>2. elapsed <= MaxIteration + Setting
        BY <2>1 DEF HandlerInv, Clock
      <3>3. Waiting(i)' /\ i \notin due
        BY <2>1, <2>3 DEF Waiting
      <3> QED
        BY <2>1, <2>2, <3>1, <3>2, <3>3, Measured, BoundsTyped DEF Timed
    <2> QED
      BY <2>1, <2>2, <2>3 DEF TimingInv, Streaming
  <1>2. ASSUME StreamEnds PROVE TimingInv'
    BY <1>2 DEF StreamEnds, Return, TimingInv, Streaming
  <1>3. ASSUME ScanPair PROVE TimingInv'
    <2> DEFINE j == First(todo)
    <2>1. j \in todo
      BY <1>3, FirstIsOne DEF ScanPair, HandlerInv
    <2>2. /\ pc = "scan" /\ pc' = "scan" /\ todo' = todo \ {j}
          /\ age' = Restarted(j)
          /\ due' = IF Due(j) THEN due \cup {j} ELSE due
          /\ UNCHANGED <<request, cancelled, elapsed, set, silence>>
      BY <1>3 DEF ScanPair, control, client
    <2> HIDE DEF j
    <2>3. Subs' = Subs /\ Sampled' = Sampled /\ Setting' = Setting /\ Slack' = Slack
      BY <2>2 DEF Subs, Sampled, Setting, Slack
    <2>4. ASSUME Streaming, NEW i \in Sampled PROVE Timed(i)'
      <3>1. Timed(i)
        BY <2>4 DEF TimingInv
      <3>2. CASE i # j
        <4>1. age'[i] = age[i] /\ (i \in due' <=> i \in due)
              /\ (Waiting(i)' <=> Waiting(i))
          BY <2>2, <3>2, Measured DEF Restarted, Waiting, HandlerInv, TypeOK
        <4> QED
          BY <2>2, <2>3, <3>1, <4>1 DEF Timed
      <3>3. CASE i = j
        <4>0. Due(j) <=> age[j] > request.subs[j].interval
          <5>1. request.subs[j].interval <= MaxInterval
            BY <2>2, <2>4, <3>3, Measured, BoundsTyped
               DEF Accepted, TooLong, HandlerInv, Order, Looping, Subs
          <5>2. Signed(request.subs[j].interval) = request.subs[j].interval
            BY <5>1, <3>3, Measured, BoundsTyped DEF Signed
          <5> QED
            BY <5>2 DEF Due
        <4>1. Waiting(i)
          BY <2>1, <2>2, <3>3 DEF Waiting
        <4>2. CASE Due(j)
          <5>1. age'[i] = 0 /\ i \in due' /\ Waiting(i)'
            BY <2>2, <3>3, <4>2, Measured DEF Restarted, Waiting, HandlerInv, TypeOK
          <5>2. silence[i] + Slack > request.subs[i].interval
            BY <3>1, <3>3, <4>0, <4>2, Measured, BoundsTyped DEF Timed
          <5> QED
            BY <2>2, <2>3, <3>1, <4>1, <5>1, <5>2, Measured DEF Timed
        <4>3. CASE ~Due(j)
          <5>1. age' = age /\ due' = due /\ (Waiting(i)' <=> i \in due)
            BY <2>2, <3>3, <4>3 DEF Restarted, Waiting
          <5>2. age[i] <= request.subs[i].interval
            BY <3>3, <4>0, <4>3, Measured
          <5> QED
            BY <2>2, <2>3, <3>1, <4>1, <5>1, <5>2, Measured, BoundsTyped DEF Timed
        <4> QED
          BY <4>2, <4>3
      <3> QED
        BY <3>2, <3>3
    <2> QED
      BY <2>2, <2>3, <2>4 DEF TimingInv, Streaming
  <1>4. ASSUME ScanDone \/ Wake PROVE TimingInv'
    <2>1. /\ \/ pc = "scan" /\ todo = {} /\ pc' \in {"update", "sleep"}
             \/ pc = "sleep" /\ pc' = "loop"
          /\ UNCHANGED <<request, cancelled, due, age, elapsed, set, silence>>
      BY <1>4 DEF ScanDone, Wake, GoTo, build, time, client
    <2>2. Subs' = Subs /\ Sampled' = Sampled /\ Setting' = Setting /\ Slack' = Slack
      BY <2>1 DEF Subs, Sampled, Setting, Slack
    <2>3. \A i : Waiting(i)' <=> Waiting(i)
      BY <2>1 DEF Waiting
    <2>4. \A i : Timed(i)' <=> Timed(i)
      BY <2>1, <2>2, <2>3 DEF Timed
    <2> QED
      BY <2>1, <2>2, <2>4 DEF TimingInv, Streaming
  <1> QED
    BY <1>1, <1>2, <1>3, <1>4

LEMMA TimingTime ==
    ASSUME HandlerInv, HandlerInv', TimingInv, Tick \/ ClockIsSet
    PROVE  TimingInv'
  <1>1. ASSUME Tick PROVE TimingInv'
    <2>1. /\ age' = [i \in Subs |-> Later(age[i])]
          /\ silence' = [i \in Subs |-> Later(silence[i])]
          /\ elapsed' = elapsed + 1
          /\ UNCHANGED <<pc, request, cancelled, todo, due, set>>
      BY <1>1 DEF Tick, control, build
    <2>2. Subs' = Subs /\ Sampled' = Sampled /\ Setting' = Setting /\ Slack' = Slack
      BY <2>1 DEF Subs, Sampled, Setting, Slack
    <2>3. ASSUME NEW i \in Subs, silence[i] <= elapsed
          PROVE  silence'[i] <= elapsed'
      <3>1. silence[i] \in 0 .. Horizon /\ elapsed \in Nat
        BY BoundsTyped DEF HandlerInv, TypeOK
      <3> QED
        BY <2>1, <2>3, <3>1, LaterTyped, BoundsTyped
    <2>4. ASSUME Streaming, NEW i \in Sampled PROVE Timed(i)'
      <3>1. Timed(i)
        BY <2>4 DEF TimingInv
      <3>2. Waiting(i)' <=> Waiting(i)
        BY <2>1 DEF Waiting
      <3>3. age'[i] = Later(age[i]) /\ silence'[i] = Later(silence[i])
        BY <2>1, Measured
      <3>4. /\ Later(age[i]) \in Int /\ Later(age[i]) <= Horizon
            /\ age[i] <= Later(age[i]) /\ Later(age[i]) <= age[i] + 1
            /\ Later(age[i]) = Horizon \/ Later(age[i]) = age[i] + 1
        BY LaterTyped, Measured
      <3>5. /\ Later(silence[i]) \in Int /\ Later(silence[i]) <= Horizon
            /\ silence[i] <= Later(silence[i])
            /\ Later(silence[i]) <= silence[i] + 1
            /\ Later(silence[i]) = Horizon \/ Later(silence[i]) = silence[i] + 1
        BY LaterTyped, Measured
      <3> QED
        BY <2>1, <2>2, <3>1, <3>2, <3>3, <3>4, <3>5, Measured, BoundsTyped
           DEF Timed
    <2> QED
      BY <2>1, <2>2, <2>3, <2>4 DEF TimingInv, Streaming
  <1>2. ASSUME ClockIsSet PROVE TimingInv'
    <2>1. PICK step \in -MaxStep .. MaxStep \ {0} :
              age' = [i \in Subs |-> IF age[i] + step > Horizon THEN Horizon
                                     ELSE age[i] + step]
      BY <1>2 DEF ClockIsSet
    <2>2. /\ Setting = 0 /\ Setting' = MaxStep
          /\ UNCHANGED <<pc, request, cancelled, todo, due, elapsed, silence>>
      BY <1>2 DEF ClockIsSet, Setting, control, build, client, HandlerInv, TypeOK
    <2>3. Subs' = Subs /\ Sampled' = Sampled
          /\ Slack = MaxWork /\ Slack' = MaxWork + MaxStep
      BY <2>2, BoundsTyped DEF Subs, Sampled, Slack
    <2>4. ASSUME Streaming, NEW i \in Sampled PROVE Timed(i)'
      <3>1. Timed(i)
        BY <2>4 DEF TimingInv
      <3>2. Waiting(i)' <=> Waiting(i)
        BY <2>2 DEF Waiting
      <3>3. /\ age'[i] \in Int /\ age'[i] <= age[i] + MaxStep
            /\ age'[i] >= age[i] - MaxStep
        BY <2>1, Measured, BoundsTyped
      <3> QED
        BY <2>2, <2>3, <3>1, <3>2, <3>3, Measured, BoundsTyped DEF Timed
    <2> QED
      BY <2>2, <2>3, <2>4 DEF TimingInv, Streaming
  <1> QED
    BY <1>1, <1>2

LEMMA TimingNext ==
    HandlerInv /\ Accepted /\ TimingInv /\ [Next]_vars => TimingInv'
  <1> SUFFICES ASSUME HandlerInv, Accepted, TimingInv, [Next]_vars
               PROVE  TimingInv'
    OBVIOUS
  <1>1. HandlerInv'
    BY HandlerNext
  <1>2. CASE ClientCancels \/ DataChanges \/ UNCHANGED vars
    <2>1. /\ UNCHANGED <<pc, request, todo, due, time, silence>>
          /\ cancelled => cancelled'
      BY <1>2 DEF ClientCancels, DataChanges, vars, control, build, client
    <2> QED
      BY <2>1, TimingSame
  <1>3. CASE Next /\ ~(ClientCancels \/ DataChanges)
    BY <1>1, <1>3, TimingBuild, TimingWrite, TimingLoop, TimingTime
       DEF Next, Handler, Client
  <1> QED
    BY <1>2, <1>3

LEMMA TimingInvHolds == Spec => [](HandlerInv /\ TimingInv)
  BY HandlerInit, HandlerNext, AcceptedHolds, TimingInit, TimingNext, PTL DEF Spec

\* Whatever the rates, the work and the clock: no sample is late by more than
\* an iteration, the work around it and twice the step of the clock.
THEOREM SamplesAreNeverLate == Spec => []SamplesNeverLate
  <1>1. ASSUME HandlerInv, TimingInv PROVE SamplesNeverLate
    <2> SUFFICES ASSUME Streaming, NEW i \in Sampled
                 PROVE  silence[i] <= request.subs[i].interval + MaxIteration
                                          + 2 * MaxWork + 2 * Setting
      BY DEF SamplesNeverLate
    <2>1. Timed(i)
      BY <1>1 DEF TimingInv
    <2>2. Waiting(i) => elapsed <= MaxWork
      BY <1>1 DEF Waiting, Streaming, HandlerInv, Order, Clock
    <2>3. elapsed <= MaxIteration + Setting
      BY <1>1, Measured, BoundsTyped
         DEF Streaming, HandlerInv, TypeOK, Clock, Setting
    <2> QED
      BY <1>1, <2>1, <2>2, <2>3, Measured, BoundsTyped DEF Timed
  <1> QED
    BY <1>1, TimingInvHolds, PTL

\* Nor does one come earlier than its interval, less the work of an iteration
\* and the step of the clock.
THEOREM SamplesAreNeverEarly == Spec => SamplesNeverEarly
  <1> DEFINE Early == \A i \in Subs :
                 (pc = "update" /\ pc' = "sleep" /\ i \in due /\ ~cancelled) =>
                     silence[i] + MaxWork + Setting > request.subs[i].interval
  <1>1. ASSUME HandlerInv, TimingInv PROVE Early
    <2> SUFFICES ASSUME NEW i \in Subs, pc = "update", i \in due, ~cancelled
                 PROVE  silence[i] + MaxWork + Setting > request.subs[i].interval
      OBVIOUS
    <2>1. i \in Sampled /\ Streaming
      BY <1>1 DEF HandlerInv, TypeOK, Streaming
    <2>2. Timed(i)
      BY <1>1, <2>1 DEF TimingInv
    <2> QED
      BY <1>1, <2>1, <2>2, Measured, BoundsTyped DEF Timed
  <1>2. HandlerInv /\ TimingInv => [Early]_vars
    BY <1>1
  <1>3. SamplesNeverEarly <=> [][Early]_vars
    BY DEF SamplesNeverEarly
  <1> HIDE DEF Early
  <1> QED
    BY <1>2, <1>3, TimingInvHolds, PTL

-----------------------------------------------------------------------------
(***************************************************************************)
(* The client's view.  A step maps to one of SubscribeProtocol because of  *)
(* what was sent before: the first notification precedes the sync, which   *)
(* precedes the loop; and because a notification that is complete holds a  *)
(* value of every subscription it is for.                                  *)
(***************************************************************************)
SentSoFar ==
    /\ pc \notin {"open", "done"} => request.subscribe
    /\ pc = "open" => covered = {} /\ ~synced
    /\ pc = "build" => due = Subs
    /\ pc = "build" /\ request.mode # "POLL" => covered = {} /\ ~synced
    /\ pc = "sync" /\ ~cancelled => covered = Subs /\ ~synced
    /\ pc \in Looping /\ ~cancelled => synced

Complete ==
    /\ pc \in {"build", "update"} => \A i \in due \ todo : <<i, TRUE>> \in message
    /\ pc = "update" => due # {}

ProtocolInv == SentSoFar /\ Complete

Latest == {i \in Subs : <<i, TRUE>> \in delivered}

LEMMA ProtocolInit == Init => Protocol!Init /\ ProtocolInv
  BY DEF Init, Protocol!Init, NoMessage, ProtocolInv, SentSoFar, Complete, Looping

\* Where the handler goes after a notification, given where it comes from.
LEMMA AfterWrite ==
    ASSUME HandlerInv, WriteUpdate
    PROVE  /\ pc = "build" /\ request.mode = "POLL" => pc' = "poll"
           /\ pc = "build" /\ request.mode # "POLL" => pc' = "sync"
           /\ pc = "update" => pc' = "sleep" /\ request.mode = "STREAM"
           /\ pc \in {"build", "update"} /\ todo = {}
           /\ UNCHANGED <<request, cancelled, status>>
  BY DEF WriteUpdate, GoTo, Building, AfterUpdate, HandlerInv, Order, Looping

LEMMA SentNext ==
    HandlerInv /\ ProtocolInv /\ [Next]_vars => SentSoFar'
  <1> SUFFICES ASSUME HandlerInv, ProtocolInv, [Next]_vars
               PROVE  SentSoFar'
    OBVIOUS
  <1> USE DEF ProtocolInv
  <1>1. ASSUME ReceiveFirst PROVE SentSoFar'
    <2>1. PICK q \in FirstMessage \cup {NoMessage} : Receive(q)
      BY <1>1 DEF ReceiveFirst
    <2> QED
      BY <2>1 DEF Receive, Rejection, SentSoFar, Looping, Subs
  <1>2. ASSUME WriteUpdate PROVE SentSoFar'
    <2>1. Subs' = Subs /\ due' = {} /\ synced' = synced
      BY <1>2, AfterWrite DEF WriteUpdate, Sent, client, Subs
    <2>2. ~cancelled => covered' = covered \cup due
      BY <1>2 DEF WriteUpdate, Sent
    <2> QED
      BY <1>2, <2>1, <2>2, AfterWrite DEF SentSoFar, Looping
  <1>3. ASSUME WriteSync PROVE SentSoFar'
    BY <1>3 DEF WriteSync, GoTo, SentSoFar, Looping
  <1>4. ASSUME Poll PROVE SentSoFar'
    <2>1. request.mode = "POLL"
      BY <1>4 DEF Poll, HandlerInv, Order
    <2> QED
      BY <1>4, <2>1 DEF Poll, GoTo, SentSoFar, Looping, Subs, client
  <1>5. CASE \/ BuildRefused \/ ReadFails \/ RefreshThrows \/ StreamEnds
             \/ PollMisused \/ PollEnds
    BY <1>5 DEF BuildRefused, ReadFails, RefreshThrows, StreamEnds, PollMisused,
                PollEnds, Return, SentSoFar, Looping
  <1>6. CASE ReadSubscription \/ Iterate \/ ScanPair \/ ScanDone \/ Wake
    <2>1. /\ UNCHANGED <<request, cancelled, covered, synced>>
          /\ \/ pc' = pc /\ pc # "scan" /\ due' = due
             \/ pc \in Looping /\ pc' \in Looping
      BY <1>6 DEF ReadSubscription, Building, Iterate, ScanPair, ScanDone, Wake,
                  GoTo, control, client, Looping
    <2> QED
      BY <2>1 DEF SentSoFar, Looping, Subs
  <1>7. CASE ClientCancels \/ DataChanges \/ Tick \/ ClockIsSet \/ UNCHANGED vars
    BY <1>7 DEF ClientCancels, DataChanges, Tick, ClockIsSet, vars, control,
                build, client, SentSoFar, Looping, Subs
  <1> QED
    BY <1>1, <1>2, <1>3, <1>4, <1>5, <1>6, <1>7 DEF Next, Handler, Client

LEMMA CompleteNext ==
    HandlerInv /\ ProtocolInv /\ [Next]_vars => Complete'
  <1> SUFFICES ASSUME HandlerInv, ProtocolInv, [Next]_vars
               PROVE  Complete'
    OBVIOUS
  <1> USE DEF ProtocolInv
  <1>1. ASSUME ReceiveFirst PROVE Complete'
    BY <1>1 DEF ReceiveFirst, Receive, Complete
  <1>2. ASSUME ReadSubscription PROVE Complete'
    <2> DEFINE i == First(todo)
    <2>1. /\ message' = message \cup {<<i, FALSE>>, <<i, TRUE>>}
          /\ todo' = todo \ {i} /\ due' = due /\ pc' = pc
          /\ pc \in {"build", "update"}
      BY <1>2 DEF ReadSubscription, Building, control
    <2> HIDE DEF i
    <2> QED
      BY <2>1 DEF Complete
  <1>3. ASSUME WriteUpdate PROVE Complete'
    BY <1>3, AfterWrite DEF Complete
  <1>4. ASSUME ScanDone PROVE Complete'
    BY <1>4 DEF ScanDone, GoTo, Complete
  <1>5. CASE Poll \/ WriteSync \/ Iterate \/ ScanPair \/ Wake
    BY <1>5 DEF Poll, WriteSync, Iterate, ScanPair, Wake, GoTo, control, Complete
  <1>6. CASE \/ BuildRefused \/ ReadFails \/ RefreshThrows \/ StreamEnds
             \/ PollMisused \/ PollEnds
    BY <1>6 DEF BuildRefused, ReadFails, RefreshThrows, StreamEnds, PollMisused,
                PollEnds, Return, Complete
  <1>7. CASE ClientCancels \/ DataChanges \/ Tick \/ ClockIsSet \/ UNCHANGED vars
    BY <1>7 DEF ClientCancels, DataChanges, Tick, ClockIsSet, vars, control,
                build, Complete
  <1> QED
    BY <1>1, <1>2, <1>3, <1>4, <1>5, <1>6, <1>7 DEF Next, Handler, Client

\* A notification that was written on a call that is not cancelled.
LEMMA WriteNotifies ==
    ASSUME HandlerInv, ProtocolInv, WriteUpdate, ~cancelled
    PROVE  Latest' = due /\ covered' = covered \cup due /\ synced' = synced
  <1>1. /\ delivered' = message /\ covered' = covered \cup due
        /\ synced' = synced
    BY DEF WriteUpdate, Sent
  <1>2. \A i : <<i, TRUE>> \in message <=> i \in due
    <2>1. message \subseteq due \X BOOLEAN
      BY DEF HandlerInv, TypeOK
    <2>2. \A i \in due : <<i, TRUE>> \in message
      BY AfterWrite DEF ProtocolInv, Complete
    <2> QED
      BY <2>1, <2>2
  <1>3. Subs' = Subs /\ due \subseteq Subs
    BY AfterWrite DEF Subs, HandlerInv, TypeOK
  <1> QED
    BY <1>1, <1>2, <1>3 DEF Latest

LEMMA ProtocolStep ==
    ASSUME \A q \in FirstMessage : ~q.updatesOnly,
           HandlerInv, Accepted, ProtocolInv, [Next]_vars
    PROVE  [Protocol!Next]_Protocol!vars
  <1> DEFINE Same == UNCHANGED <<request, delivered, covered, synced>>
  <1>0. /\ Protocol!Subs = Subs /\ Protocol!Sampled = Sampled
        /\ status = "none" <=> pc # "done"
        /\ pc \notin {"open", "done"} => ~request.updatesOnly
    BY DEF Protocol!Subs, Protocol!Sampled, Subs, Sampled, HandlerInv, TypeOK,
           Accepted, NoMessage
  <1>1. ASSUME ReceiveFirst PROVE Protocol!Ask
    <2>1. PICK q \in FirstMessage \cup {NoMessage} : Receive(q)
      BY <1>1 DEF ReceiveFirst
    <2>2. ~request.subscribe /\ Subs = {}
      BY <2>1, MessagesTyped DEF Receive, HandlerInv, Order, NoMessage, Subs
    <2>3. delivered = {}
      BY <2>2 DEF HandlerInv, TypeOK
    <2>4. Latest' = Latest
      BY <2>1, <2>3 DEF Receive, Latest
    <2>5. /\ status' = Rejection(q) /\ request' = q
          /\ cancelled' = (cancelled \/ Rejection(q) = "INVALID_ARGUMENT")
          /\ UNCHANGED <<covered, synced>> /\ pc = "open"
      BY <2>1 DEF Receive
    <2>6. cancelled \in BOOLEAN
      BY DEF HandlerInv, TypeOK
    <2>7. \/ Rejection(q) = "none" /\ q.subscribe
          \/ Rejection(q) \in {"UNIMPLEMENTED", "INVALID_ARGUMENT", "UNKNOWN"}
      BY DEF Rejection
    <2> QED
      BY <1>0, <2>2, <2>4, <2>5, <2>6, <2>7 DEF Protocol!Ask, Latest
  <1>2. ASSUME WriteUpdate PROVE [Protocol!Next]_Protocol!vars
    <2>1. CASE cancelled
      BY <1>2, <2>1, AfterWrite DEF WriteUpdate, Sent, client, Protocol!vars, Subs
    <2>2. CASE ~cancelled
      <3>1. Protocol!Notify(due)
        BY <1>0, <1>2, <2>2, AfterWrite, WriteNotifies
           DEF Protocol!Notify, Protocol!Open, Latest
      <3>2. CASE pc = "build" /\ request.mode = "POLL"
        <4>1. Protocol!Notify(Subs)
          BY <3>1, <3>2 DEF ProtocolInv, SentSoFar, Protocol!Notify
        <4> QED
          BY <1>0, <3>2, <4>1 DEF Protocol!Answer, Protocol!Notify, Protocol!Next
      <3>3. CASE pc = "build" /\ request.mode # "POLL"
        <4>1. Protocol!Notify(Subs)
          BY <3>1, <3>3 DEF ProtocolInv, SentSoFar, Protocol!Notify
        <4>2. covered = {} /\ ~synced
          BY <3>3 DEF ProtocolInv, SentSoFar
        <4> QED
          BY <1>0, <3>3, <4>1, <4>2 DEF Protocol!Initial, Protocol!Notify, Protocol!Next
      <3>4. CASE pc = "update"
        <4>1. /\ due # {} /\ due \subseteq Sampled
              /\ synced /\ request.mode = "STREAM"
          BY <2>2, <3>4 DEF ProtocolInv, SentSoFar, Complete, HandlerInv, TypeOK,
                            Order, Looping
        <4> QED
          BY <1>0, <3>1, <4>1 DEF Protocol!Sample, Protocol!Notify, Protocol!Next
      <3> QED
        BY <1>2, <3>2, <3>3, <3>4, AfterWrite
    <2> QED
      BY <2>1, <2>2
  <1>3. ASSUME WriteSync PROVE [Protocol!Next]_Protocol!vars
    <2>1. /\ pc = "sync" /\ synced' = (synced \/ ~cancelled)
          /\ request.subscribe /\ request.mode \in {"ONCE", "STREAM"}
          /\ UNCHANGED <<request, cancelled, delivered, covered>>
          /\ status' = IF request.mode = "ONCE" THEN "OK" ELSE "none"
      BY <1>0, <1>3 DEF WriteSync, GoTo, HandlerInv, Order, ProtocolInv, SentSoFar
    <2>2. Latest' = Latest
      BY <2>1 DEF Latest, Subs
    <2>3. synced \in BOOLEAN
      BY DEF HandlerInv, TypeOK
    <2>4. CASE ~cancelled
      <3>1. covered = Subs /\ ~synced
        BY <2>1, <2>4 DEF ProtocolInv, SentSoFar
      <3> QED
        BY <1>0, <2>1, <2>2, <2>4, <3>1
           DEF Protocol!Sync, Protocol!Open, Protocol!Next, Latest
    <2>5. CASE cancelled /\ request.mode = "ONCE"
      BY <1>0, <2>1, <2>2, <2>3, <2>5 DEF Protocol!End, Protocol!Next, Latest
    <2>6. CASE cancelled /\ request.mode = "STREAM"
      BY <1>0, <2>1, <2>2, <2>3, <2>6 DEF Protocol!vars, Latest
    <2> QED
      BY <2>1, <2>4, <2>5, <2>6
  <1>4. ASSUME BuildRefused \/ ReadFails \/ RefreshThrows \/ PollMisused
        PROVE  Protocol!End
    <2>1. /\ request.subscribe /\ pc # "done" /\ Same
          /\ status' \in {"UNIMPLEMENTED", "INVALID_ARGUMENT", "NOT_FOUND",
                          "UNKNOWN"}
          /\ cancelled' \in {cancelled, TRUE}
      BY <1>4 DEF BuildRefused, ReadFails, RefreshThrows, PollMisused, Building,
                  Return, client, ProtocolInv, SentSoFar, HandlerInv, TypeOK
    <2> QED
      BY <1>0, <2>1 DEF Protocol!End, Subs
  <1>5. ASSUME StreamEnds \/ PollEnds PROVE Protocol!End
    <2>1. /\ request.subscribe /\ pc # "done" /\ Same
          /\ status' = "OK" /\ (cancelled \/ request.mode = "POLL")
          /\ cancelled' = cancelled
      BY <1>5 DEF StreamEnds, PollEnds, LoopGoesOn, Return, client, ProtocolInv,
                  SentSoFar, HandlerInv, TypeOK, Order
    <2> QED
      BY <1>0, <2>1 DEF Protocol!End, Subs
  <1>6. ASSUME ClientCancels PROVE Protocol!Cancel
    BY <1>6 DEF ClientCancels, client, Protocol!Cancel, Subs
  <1>7. CASE \/ ReadSubscription \/ Iterate \/ ScanPair \/ ScanDone \/ Wake
             \/ Poll \/ DataChanges \/ Tick \/ ClockIsSet \/ UNCHANGED vars
    <2>1. Same /\ UNCHANGED <<cancelled, status>>
      BY <1>7 DEF ReadSubscription, Iterate, ScanPair, ScanDone, Wake, Poll,
                  DataChanges, Tick, ClockIsSet, GoTo, vars, control, client
    <2> QED
      BY <2>1 DEF Protocol!vars, Subs
  <1> QED
    BY <1>1, <1>2, <1>3, <1>4, <1>5, <1>6, <1>7
       DEF Next, Handler, Client, Protocol!Next

\* What a client sees of any call without updates_only, whenever it cancels and
\* whatever fails, is the protocol of its mode.  (A call with it is sent the
\* initial data that the protocol leaves out.)
THEOREM SubscribeKeepsProtocol ==
    (\A q \in FirstMessage : ~q.updatesOnly) => (Spec => KeepsProtocol)
  <1> SUFFICES ASSUME \A q \in FirstMessage : ~q.updatesOnly
               PROVE  Spec => KeepsProtocol
    OBVIOUS
  <1>1. HandlerInv /\ ProtocolInv /\ [Next]_vars => ProtocolInv'
    BY SentNext, CompleteNext DEF ProtocolInv
  <1>2. HandlerInv /\ Accepted /\ ProtocolInv /\ [Next]_vars
            => [Protocol!Next]_Protocol!vars
    BY ProtocolStep
  <1>3. Init => Protocol!Init /\ ProtocolInv
    BY ProtocolInit
  <1> QED
    BY <1>1, <1>2, <1>3, HandlerInit, HandlerNext, AcceptedHolds, PTL
       DEF Spec, KeepsProtocol, Protocol!Spec
=============================================================================
