-------------------------- MODULE SubscribeProtocol --------------------------
(***************************************************************************)
(* A Subscribe call as its client sees it (src/proto/gnmi.proto:215-311):  *)
(* one notification with every subscription, the sync_response, and then   *)
(* what the mode of the list asks for, until the call ends.  With          *)
(* updates_only the first notification is left out, and nothing but the    *)
(* sync is sent for ONCE and POLL (gnmi.proto:271-275).  Nothing is sent   *)
(* on a cancelled call, and a call ends with OK only when it is over.      *)
(*                                                                         *)
(* gnmi.proto asks for a sync_response once all values were sent; for POLL *)
(* it names one with updates_only only.  Without, none is asked for here.  *)
(***************************************************************************)
EXTENDS Naturals

VARIABLES
    request,    \* what the client asked for
    latest,     \* the subscriptions in the last notification
    covered,    \* those sent at least once
    synced,     \* whether sync_response was sent
    cancelled,  \* whether the call is cancelled
    status      \* "none" while the call lasts

vars == <<request, latest, covered, synced, cancelled, status>>

Subs == DOMAIN request.subs

Sampled == {i \in Subs : request.subs[i].mode = "SAMPLE"}

Open == status = "none" /\ ~cancelled

Init ==
    /\ ~request.subscribe
    /\ latest = {} /\ covered = {} /\ synced = FALSE
    /\ cancelled = FALSE /\ status = "none"

\* The first message, which may be turned down at once.
Ask ==
    /\ status = "none" /\ ~request.subscribe
    /\ \/ status' = "none" /\ request'.subscribe /\ UNCHANGED cancelled
       \/ /\ status' \in {"UNIMPLEMENTED", "INVALID_ARGUMENT", "UNKNOWN"}
          /\ cancelled' \in {cancelled, TRUE}
    /\ UNCHANGED <<latest, covered, synced>>

Notify(S) ==
    /\ Open
    /\ latest' = S /\ covered' = covered \cup S
    /\ UNCHANGED <<request, synced, cancelled, status>>

Initial ==
    /\ request.mode # "POLL" /\ ~request.updatesOnly
    /\ covered = {} /\ ~synced
    /\ Notify(Subs)

\* sync_response, after the initial data if there is to be any: with ONCE it
\* comes with the end of the call, with POLL for every poll without data.
Sync ==
    /\ Open
    /\ IF request.updatesOnly THEN covered = {} ELSE covered = Subs
    /\ IF request.mode = "POLL" THEN request.updatesOnly ELSE ~synced
    /\ synced' = TRUE
    /\ status' = IF request.mode = "ONCE" THEN "OK" ELSE "none"
    /\ UNCHANGED <<request, latest, covered, cancelled>>

Sample ==
    /\ request.mode = "STREAM" /\ synced
    /\ \E S \in SUBSET Sampled : S # {} /\ Notify(S)

Answer == request.mode = "POLL" /\ ~request.updatesOnly /\ Notify(Subs)

Cancel ==
    /\ cancelled' = TRUE
    /\ UNCHANGED <<request, latest, covered, synced, status>>

\* Otherwise OK means that the call was cancelled, or that the client has
\* no more polls to make.
End ==
    /\ status = "none" /\ request.subscribe
    /\ \/ /\ status' = "OK" /\ (cancelled \/ request.mode = "POLL")
          /\ UNCHANGED cancelled
       \/ /\ status' \in {"UNIMPLEMENTED", "INVALID_ARGUMENT", "NOT_FOUND",
                          "UNKNOWN"}
          /\ cancelled' \in {cancelled, TRUE}
    /\ UNCHANGED <<request, latest, covered, synced>>

Next ==
    Ask \/ Initial \/ Sync \/ Sample \/ Answer \/ Cancel \/ End

Spec == Init /\ [][Next]_vars
=============================================================================
