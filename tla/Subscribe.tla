------------------------------ MODULE Subscribe ------------------------------
(***************************************************************************)
(* The Subscribe RPC (src/src/gnmi/subscribe.cpp): one call, from its      *)
(* first message to its return.  The handler runs on a thread of its own;  *)
(* the client sends, cancels or closes at any time, the data changes at    *)
(* any time, and time passes while the handler works and sleeps.           *)
(*                                                                         *)
(* Time is counted in ticks, relative to what the handler measures from,   *)
(* so that a stream that never ends has finitely many states.  The clock   *)
(* is the wall clock (libstdc++'s high_resolution_clock), which may be     *)
(* set.  How the reads interleave with other RPCs on the shared session is *)
(* the subject of GnmiStreams, what they return that of JsonRead.          *)
(***************************************************************************)
EXTENDS Integers, Sequences, FiniteSets

CONSTANTS
    FirstMessage,   \* the first messages a client may send
    Failing,        \* BOOLEAN: can the session's calls fail?
    LoopPeriod,     \* the 200 ms of the sampling loop, in ticks
    MaxWork,        \* the longest time an iteration works, in ticks
    MaxIteration,   \* the longest time it takes with its sleep
    MaxStep,        \* how far the clock is set, once in a call, in ticks
    MaxInterval,    \* INT64_MAX ns, in ticks
    Horizon         \* ticks from which on intervals are not told apart

SubMode == {"SAMPLE", "ON_CHANGE", "TARGET_DEFINED"}

(***************************************************************************)
(* `supported': the encoding is JSON and no aliases are asked for.         *)
(* `updatesOnly': the client wants no initial data; the handler logs this  *)
(* and does nothing about it (subscribe.cpp:139-140).  A message without   *)
(* `subscribe' also stands for a stream that was closed before it carried  *)
(* any.                                                                    *)
(***************************************************************************)
Message ==
    [extension : BOOLEAN, subscribe : BOOLEAN,
     mode : {"STREAM", "ONCE", "POLL", "UNKNOWN"}, supported : BOOLEAN,
     updatesOnly : BOOLEAN,
     subs : Seq([mode : SubMode, interval : Nat])]

ASSUME Messages == FirstMessage \subseteq Message

ASSUME Bounds ==
    /\ Failing \in BOOLEAN
    /\ {LoopPeriod, MaxWork, MaxIteration, MaxStep, MaxInterval, Horizon}
           \subseteq Nat
    /\ LoopPeriod <= MaxIteration /\ MaxWork <= MaxIteration
    /\ \A q \in FirstMessage : \A i \in DOMAIN q.subs :
           \/ q.subs[i].interval > MaxInterval
           \/ q.subs[i].interval + MaxIteration + 2 * MaxWork + 2 * MaxStep
                  < Horizon

VARIABLES
    pc,         \* where the handler is
    request,    \* the first message
    cancelled,  \* ServerContext::IsCancelled
    status,     \* the status the handler returned
    todo,       \* the subscriptions the present loop has yet to visit
    due,        \* those the notification under construction is for
    message,    \* its updates so far: <<subscription, has a value>>
    age,        \* the clock's ticks since the entry of chronomap
    elapsed,    \* ticks since the iteration (or the call) started
    skew,       \* by how much the clock makes this more, or less
    set,        \* has the clock been set during the call?
    present,    \* the subscriptions below whose path there is data
    changed,    \* those whose data changed since it was last read
    delivered,  \* the messages: what the client was last sent,
    covered,    \*   the subscriptions it was sent at least once,
    synced,     \*   whether it was sent sync_response,
    silence     \*   ticks since it was last sent each subscription

control == <<pc, request, cancelled, status>>
build == <<todo, due, message>>
time == <<age, elapsed, skew, set>>
data == <<present, changed>>
client == <<delivered, covered, synced, silence>>
vars == <<control, build, time, data, client>>

Subs == DOMAIN request.subs

Sampled == {i \in Subs : request.subs[i].mode = "SAMPLE"}

NoMessage ==
    [extension |-> FALSE, subscribe |-> FALSE, mode |-> "STREAM",
     supported |-> TRUE, updatesOnly |-> FALSE, subs |-> <<>>]

First(S) == CHOOSE i \in S : \A j \in S : i <= j

\* The handler returns; TryCancel has been called before if `cancel'.
Return(s, cancel) ==
    /\ pc' = "done"
    /\ status' = s
    /\ cancelled' = (cancelled \/ cancel)
    /\ UNCHANGED <<request, build, time, data, client>>

GoTo(label) == pc' = label /\ UNCHANGED <<request, cancelled, status>>

Init ==
    /\ pc = "open" /\ request = NoMessage
    /\ cancelled = FALSE /\ status = "none"
    /\ todo = {} /\ due = {} /\ message = {}
    /\ age = [i \in {} |-> 0] /\ elapsed = 0 /\ skew = 0 /\ set = FALSE
    /\ present = {} /\ changed = {}
    /\ delivered = {} /\ covered = {} /\ synced = FALSE
    /\ silence = [i \in {} |-> 0]

\* Building a notification: the first one or a poll's, or one of the loop.
Building == pc \in {"build", "update"} /\ request.supported

\* A request that Subscribe::run or handleStream turns down at once.
TooLong(q) == \E i \in DOMAIN q.subs : q.subs[i].interval > MaxInterval

\* Mutant of Rejection: no interval is too long.
RejectionShort(q) ==
    IF q.extension THEN "UNIMPLEMENTED"
    ELSE IF ~q.subscribe THEN "INVALID_ARGUMENT"
    ELSE IF q.mode = "UNKNOWN" THEN "UNKNOWN"
    ELSE "none"

Rejection(q) ==
    IF q.extension THEN "UNIMPLEMENTED"
    ELSE IF ~q.subscribe THEN "INVALID_ARGUMENT"
    ELSE IF q.mode = "UNKNOWN" THEN "UNKNOWN"
    ELSE IF q.mode = "STREAM" /\ TooLong(q) THEN "INVALID_ARGUMENT"
    ELSE "none"

\* The first message is read and dispatched on.  The data its paths name may
\* or may not be there.
Receive(q) ==
    /\ pc = "open"
    /\ request' = q
    /\ status' = Rejection(q)
    /\ cancelled' = (cancelled \/ Rejection(q) = "INVALID_ARGUMENT")
    /\ pc' = IF Rejection(q) # "none" THEN "done"
             ELSE IF q.mode = "POLL" THEN "poll" ELSE "build"
    /\ todo' = DOMAIN q.subs /\ due' = DOMAIN q.subs /\ UNCHANGED message
    /\ age' = [i \in DOMAIN q.subs |-> 0] /\ UNCHANGED <<elapsed, skew, set>>
    /\ present' \in SUBSET DOMAIN q.subs /\ changed' = DOMAIN q.subs
    /\ silence' = [i \in DOMAIN q.subs |-> 0]
    /\ UNCHANGED <<delivered, covered, synced>>

ReceiveFirst ==
    \E q \in FirstMessage \cup {NoMessage} :
        (cancelled => q = NoMessage) /\ Receive(q)

-----------------------------------------------------------------------------
(***************************************************************************)
(* BuildSubscribeNotification: each due subscription in turn is refreshed  *)
(* and read.  An update without a value goes ahead of what was read.       *)
(***************************************************************************)
BuildRefused ==
    /\ pc \in {"build", "update"} /\ ~request.supported
    /\ Return("UNIMPLEMENTED", TRUE)

ReadSubscription ==
    /\ Building /\ todo # {}
    /\ LET i == First(todo)
       IN  /\ i \in present
           /\ message' = message \cup {<<i, FALSE>>, <<i, TRUE>>}
           /\ todo' = todo \ {i}
           /\ changed' = changed \ {i}
    /\ UNCHANGED <<control, due, time, present, client>>

\* No data below the path (NOT_FOUND), or sysrepo refuses (INVALID_ARGUMENT).
ReadFails ==
    /\ Building /\ todo # {}
    /\ \/ First(todo) \notin present /\ Return("NOT_FOUND", TRUE)
       \/ Failing /\ Return("INVALID_ARGUMENT", TRUE)

\* refresh throws; nothing catches it.
RefreshThrows ==
    /\ Building /\ todo # {} /\ Failing
    /\ Return("UNKNOWN", FALSE)

Sent(S) ==
    IF cancelled
    THEN UNCHANGED client
    ELSE /\ delivered' = message
         /\ covered' = covered \cup S
         /\ silence' = [i \in Subs |-> IF i \in S THEN 0 ELSE silence[i]]
         /\ UNCHANGED synced

\* Mutant of AfterUpdate: a stream goes into the loop without the sync.
AfterUpdateNoSync ==
    IF request.mode = "POLL" THEN "poll"
    ELSE IF request.mode = "STREAM" THEN "sleep" ELSE "sync"

\* Where a handler goes on after it has written a notification.
AfterUpdate ==
    IF request.mode = "POLL" THEN "poll"
    ELSE IF pc = "update" THEN "sleep" ELSE "sync"

(***************************************************************************)
(* The notification is written.  Whether Write succeeded is not looked at: *)
(* on a cancelled call nothing is sent, and the handler goes on.           *)
(***************************************************************************)
WriteUpdate ==
    /\ Building /\ todo = {}
    /\ Sent(due)
    /\ GoTo(AfterUpdate)
    /\ message' = {} /\ due' = {}
    /\ UNCHANGED <<todo, time, data>>

\* The sync_response, after which ONCE is over and STREAM sets up chronomap.
WriteSync ==
    /\ pc = "sync"
    /\ synced' = (synced \/ ~cancelled)
    /\ UNCHANGED <<delivered, covered, silence, build, data, elapsed, skew, set>>
    /\ IF request.mode = "ONCE"
       THEN /\ pc' = "done" /\ status' = "OK"
            /\ UNCHANGED <<request, cancelled, age>>
       ELSE /\ GoTo("loop")
            /\ age' = [i \in Subs |-> 0]

-----------------------------------------------------------------------------
(***************************************************************************)
(* handleStream's loop.                                                    *)
(***************************************************************************)

\* Mutant of LoopGoesOn: the loop never looks at IsCancelled.
LoopGoesOnForEver == TRUE

LoopGoesOn == ~cancelled

\* Mutant of InChronomap: it holds the subscriptions of every mode.
InChronomapAll == Subs

\* handleStream fills chronomap with the SAMPLE subscriptions.
InChronomap == Sampled

Iterate ==
    /\ pc = "loop" /\ LoopGoesOn
    /\ GoTo("scan")
    /\ todo' = InChronomap
    /\ elapsed' = 0 /\ skew' = 0
    /\ UNCHANGED <<due, message, age, set, data, client>>

StreamEnds ==
    /\ pc = "loop" /\ ~LoopGoesOn
    /\ Return("OK", FALSE)

\* nanoseconds{sample_interval}: the unsigned number in a signed type.
Signed(n) == IF n > MaxInterval THEN n - 2 * (MaxInterval + 1) ELSE n

Due(i) == age[i] > Signed(request.subs[i].interval)

\* Mutants of Restarted: an entry keeps its time for ever; every entry that
\* is looked at gets the present time.
NeverRestarted(i) == age

AlwaysRestarted(i) == [age EXCEPT ![i] = 0]

\* The time of an entry that is due becomes the present, however late it is.
Restarted(i) == IF Due(i) THEN [age EXCEPT ![i] = 0] ELSE age

\* The next entry of chronomap is due when MORE than its interval has passed.
ScanPair ==
    /\ pc = "scan" /\ todo # {}
    /\ LET i == First(todo)
       IN  /\ todo' = todo \ {i}
           /\ age' = Restarted(i)
           /\ due' = IF Due(i) THEN due \cup {i} ELSE due
    /\ UNCHANGED <<control, message, elapsed, skew, set, data, client>>

\* All entries seen: build a notification for those due, if any.
ScanDone ==
    /\ pc = "scan" /\ todo = {}
    /\ GoTo(IF due = {} THEN "sleep" ELSE "update")
    /\ todo' = due
    /\ UNCHANGED <<due, message, time, data, client>>

\* The sleep ends when the iteration is at least 200 ms old, by the clock
\* when it began to sleep; after a longer one there is none.
Wake ==
    /\ pc = "sleep" /\ elapsed + skew >= LoopPeriod
    /\ GoTo("loop")
    /\ UNCHANGED <<build, time, data, client>>

-----------------------------------------------------------------------------
(***************************************************************************)
(* handlePoll's loop.                                                      *)
(***************************************************************************)
Poll ==
    /\ pc = "poll" /\ ~cancelled
    /\ GoTo("build")
    /\ todo' = Subs /\ due' = Subs
    /\ UNCHANGED <<message, time, data, client>>

\* Any message but a Poll ends the call with an error.
PollMisused ==
    /\ pc = "poll" /\ ~cancelled
    /\ \E s \in {"UNIMPLEMENTED", "INVALID_ARGUMENT"} : Return(s, FALSE)

\* The client has closed its side, or the call is cancelled: Read fails.
PollEnds ==
    /\ pc = "poll"
    /\ Return("OK", FALSE)

-----------------------------------------------------------------------------
(***************************************************************************)
(* The surroundings.                                                       *)
(***************************************************************************)
ClientCancels ==
    /\ pc # "done" /\ ~cancelled
    /\ cancelled' = TRUE
    /\ UNCHANGED <<pc, request, status, build, time, data, client>>

\* The data below the path of a subscription is written or deleted.
DataChanges ==
    /\ pc \notin {"open", "done"}
    /\ \E i \in Subs :
           /\ changed' = changed \cup {i}
           /\ present' \in {present \cup {i}, present \ {i}}
    /\ UNCHANGED <<control, build, time, client>>

Later(t) == IF t < Horizon THEN t + 1 ELSE t

\* A tick passes, within the time that an iteration may take.
Tick ==
    /\ request.mode = "STREAM"
    /\ \/ pc \in {"build", "sync", "loop", "scan", "update"} /\ elapsed < MaxWork
       \/ pc = "sleep" /\ elapsed + skew < MaxIteration
    /\ elapsed' = elapsed + 1
    /\ age' = [i \in Subs |-> Later(age[i])]
    /\ silence' = [i \in Subs |-> Later(silence[i])]
    /\ UNCHANGED <<control, build, data, delivered, covered, synced, skew, set>>

\* The clock is set.  A sleep that has begun lasts as long as it would have.
ClockIsSet ==
    /\ request.mode = "STREAM" /\ pc # "done" /\ ~set
    /\ set' = TRUE
    /\ \E step \in -MaxStep .. MaxStep \ {0} :
        /\ age' = [i \in Subs |-> IF age[i] + step > Horizon THEN Horizon
                                  ELSE age[i] + step]
        /\ skew' = IF pc = "sleep" THEN skew ELSE skew + step
    /\ UNCHANGED <<control, build, elapsed, data, client>>

Handler ==
    \/ BuildRefused \/ ReadSubscription \/ ReadFails \/ RefreshThrows
    \/ WriteUpdate \/ WriteSync
    \/ Iterate \/ StreamEnds \/ ScanPair \/ ScanDone \/ Wake

Client == ReceiveFirst \/ Poll \/ PollMisused \/ PollEnds \/ ClientCancels

Next == Handler \/ Client \/ DataChanges \/ Tick \/ ClockIsSet

Spec == Init /\ [][Next]_vars

\* The handler's thread runs, time passes, and Read returns once the call is
\* cancelled.  Clients may stay silent, data may stay as it is.
Fairness ==
    /\ WF_vars(Handler)
    /\ WF_vars(Tick)
    /\ WF_vars(cancelled /\ (ReceiveFirst \/ PollEnds))

FairSpec == Spec /\ Fairness

-----------------------------------------------------------------------------
TypeOK ==
    /\ pc \in {"open", "build", "sync", "loop", "scan", "update", "sleep",
               "poll", "done"}
    /\ request \in Message /\ cancelled \in BOOLEAN
    /\ status \in {"none", "OK", "UNIMPLEMENTED", "INVALID_ARGUMENT",
                   "NOT_FOUND", "UNKNOWN"}
    /\ (pc = "done") = (status # "none")
    /\ todo \subseteq Subs /\ due \subseteq Subs
    /\ pc \in {"scan", "update"} => todo \cup due \subseteq Sampled
    /\ message \subseteq due \X BOOLEAN
    /\ age \in [Subs -> -MaxStep .. Horizon]
    /\ elapsed \in 0 .. MaxIteration + MaxStep
    /\ skew \in -MaxStep .. MaxStep /\ set \in BOOLEAN
    /\ present \subseteq Subs /\ changed \subseteq Subs
    /\ delivered \subseteq Subs \X BOOLEAN /\ covered \subseteq Subs
    /\ synced \in BOOLEAN /\ silence \in [Subs -> 0 .. Horizon]

\* A stream under way whose client still listens.
Streaming == pc \in {"scan", "update", "sleep", "loop"} /\ ~cancelled

(***************************************************************************)
(* No sample is late by more than one iteration: although an entry starts  *)
(* anew at the time it is looked at, and not at the time it was due        *)
(* (subscribe.cpp:238-239), and although the loop only looks once per      *)
(* period, a client of a stream hears of each SAMPLE subscription within   *)
(* its interval, one full iteration, and the work of the iterations before *)
(* and after it.  A clock that is set back may add twice the step: the     *)
(* entry looks younger, and the sleep of that iteration is longer.         *)
(***************************************************************************)
Setting == IF set THEN MaxStep ELSE 0

SamplesNeverLate ==
    Streaming => \A i \in Sampled :
        silence[i] <=
            request.subs[i].interval + MaxIteration + 2 * MaxWork + 2 * Setting

(***************************************************************************)
(* No sample comes early: between two notifications of a SAMPLE            *)
(* subscription more than its interval passes, short of the time that the  *)
(* work of one iteration may take the first of them (subscribe.cpp:238,    *)
(* 246-252: the entry's time is taken before the data is read), and of the *)
(* step of a clock that is set forward.                                    *)
(***************************************************************************)
SamplesNeverEarly ==
    [][ \A i \in Subs :
          (pc = "update" /\ pc' = "sleep" /\ i \in due /\ ~cancelled) =>
              silence[i] + MaxWork + Setting > request.subs[i].interval ]_vars

(***************************************************************************)
(* A client of a stream gets the latest data of its SAMPLE subscriptions:  *)
(* a change is read, and sent unless it is overtaken by the end of the     *)
(* call, however the loop's sleeps fall (subscribe.cpp:228-259).           *)
(***************************************************************************)
SamplesConverge ==
    \A i \in UNION {DOMAIN q.subs : q \in FirstMessage} :
        (Streaming /\ i \in Sampled /\ i \in changed)
            ~> (i \notin changed \/ pc = "done")

(***************************************************************************)
(* A cancelled call ends: no loop and no Read outlasts the client          *)
(* (subscribe.cpp:228, 304, 344).                                          *)
(***************************************************************************)
CancelledCallEnds == cancelled ~> pc = "done"

\* The client's view of the call.
Protocol ==
    INSTANCE SubscribeProtocol
        WITH latest <- {i \in Subs : <<i, TRUE>> \in delivered}

(***************************************************************************)
(* The client sees the protocol of its mode: everything once, the sync,    *)
(* then samples only; nothing after cancellation or an error               *)
(* (subscribe.cpp:172-370).  This is for calls without updates_only: with  *)
(* it the protocol has no initial data, and the handler sends it.          *)
(***************************************************************************)
KeepsProtocol == Protocol!Spec

=============================================================================
