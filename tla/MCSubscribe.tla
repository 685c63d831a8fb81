---------------------------- MODULE MCSubscribe ----------------------------
(***************************************************************************)
(* Subscribe on small instances: a tick is 100 ms, the loop's period two   *)
(* ticks; up to two subscriptions, so that entries of chronomap are due    *)
(* together, apart, and while the other one is late.                       *)
(***************************************************************************)
EXTENDS Subscribe, Sequences

List(mode, subs) ==
    [extension |-> FALSE, subscribe |-> TRUE, mode |-> mode,
     supported |-> TRUE, updatesOnly |-> FALSE, subs |-> subs]

UpdatesOnly(mode, subs) == [List(mode, subs) EXCEPT !.updatesOnly = TRUE]

Sub(mode, interval) == [mode |-> mode, interval |-> interval]

Sample(interval) == Sub("SAMPLE", interval)

OnChange == Sub("ON_CHANGE", 0)

TwoRates == {List("STREAM", <<Sample(0), Sample(5)>>)}

\* An interval that is negative once it is signed, and an option that is ignored.
Rates == TwoRates \cup
    {List("STREAM", <<Sample(MaxInterval + 2)>>),
     UpdatesOnly("STREAM", <<Sample(1)>>)}

Calls == TwoRates \cup
    {List("STREAM", <<Sub("TARGET_DEFINED", 0), Sample(1)>>),
     List("STREAM", <<OnChange>>), List("STREAM", <<>>),
     List("POLL", <<OnChange>>), List("ONCE", <<OnChange>>)}

AllModes ==
    {List(m, <<Sample(1), OnChange>>) : m \in {"STREAM", "ONCE", "POLL", "UNKNOWN"}}
    \cup {[List("STREAM", <<OnChange>>) EXCEPT !.supported = FALSE],
          [List("ONCE", <<OnChange>>) EXCEPT !.extension = TRUE],
          List("STREAM", <<Sample(MaxInterval + 1)>>),
          List("ONCE", <<Sample(MaxInterval + 1)>>)}

EveryCall == Calls \cup AllModes
=============================================================================
