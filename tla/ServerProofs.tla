---------------------------- MODULE ServerProofs ----------------------------
(***************************************************************************)
(* Proofs about Server for every set of modules with any imports, every    *)
(* command line and client, and any number of changes and starts: what the *)
(* options of main say is what a caller is held to; the context follows    *)
(* the daemon, with the features it listed, and keeps what calls in        *)
(* progress use; and the state of the process keeps its type.              *)
(***************************************************************************)
EXTENDS Server, TLAPS

-----------------------------------------------------------------------------
(***************************************************************************)
(* Authentication.                                                         *)
(***************************************************************************)
\* v is the value of the option `flag' among the first k of a command line.
LastIs(line, flag, k, v) ==
    \/ v = "" /\ \A j \in 1 .. k : line[j].flag # flag
    \/ \E i \in 1 .. k :
           /\ line[i].flag = flag /\ line[i].arg = v
           /\ \A j \in 1 .. k : line[j].flag = flag => j <= i

\* A builder holds what the first k options say.
Reflects(a, line, k) ==
    /\ LastIs(line, "-u", k, a.username)
    /\ LastIs(line, "-p", k, a.password)
    /\ LastIs(line, "-k", k, a.private_key_path)
    /\ LastIs(line, "-c", k, a.cert_path)
    /\ LastIs(line, "-r", k, a.root_cert_path)
    /\ a.insecure <=> \E i \in 1 .. k : line[i].flag = "-f"

(***************************************************************************)
(* CallersAsConfigured compares calls with the command line, and the code  *)
(* with the builder: the invariant ties the two, option by option, and     *)
(* says that there are calls only while the server serves.                 *)
(***************************************************************************)
AuthInv ==
    /\ argv \in Seq(Option) /\ optind \in 0 .. Len(argv)
    /\ auth \in AuthBuilder
    /\ handler \in [Client -> Handler]
    /\ pc = "exited" => auth = NewAuth
    /\ pc # "exited" => Reflects(auth, argv, optind)
    /\ pc \notin {"options", "exited"} => optind = Len(argv)
    /\ pc # "serving" => handler = [c \in Client |-> NoCall]
    /\ CallersAsConfigured

-----------------------------------------------------------------------------
(***************************************************************************)
(* Options.                                                                *)
(***************************************************************************)

\* The value found by LastIs is the one that Allows speaks of.
LEMMA GivenIsLast ==
    ASSUME NEW line \in Seq(Option), NEW flag, NEW v,
           LastIs(line, flag, Len(line), v)
    PROVE  Given(line, flag) = v
  <1> DEFINE at == {i \in 1 .. Len(line) : line[i].flag = flag}
  <1>1. CASE at = {}
    BY <1>1 DEF Given, LastIs
  <1>2. CASE at # {}
    <2>1. PICK i \in at : line[i].arg = v /\ \A j \in at : j <= i
      BY <1>2 DEF LastIs
    <2>2. \A k \in at : (\A j \in at : j <= k) => k = i
      BY <2>1
    <2>3. (CHOOSE k \in at : \A j \in at : j <= k) = i
      <3> HIDE DEF at
      <3> QED
        BY <2>1, <2>2
    <2>4. Given(line, flag) = line[CHOOSE k \in at : \A j \in at : j <= k].arg
      BY <1>2 DEF Given
    <2> QED
      BY <2>1, <2>3, <2>4
  <1> QED
    BY <1>1, <1>2

\* An option says what it says of its own kind, and nothing of the others.
LEMMA LastAfter ==
    ASSUME NEW line, NEW k \in Nat, NEW flag, NEW v, LastIs(line, flag, k, v)
    PROVE  LastIs(line, flag, k + 1,
                  IF line[k + 1].flag = flag THEN line[k + 1].arg ELSE v)
  <1>1. /\ k + 1 \in 1 .. k + 1
        /\ \A j \in 1 .. k + 1 : j <= k + 1 /\ (j = k + 1 \/ j \in 1 .. k)
        /\ \A j \in 1 .. k : j \in 1 .. k + 1
    OBVIOUS
  <1>2. CASE line[k + 1].flag = flag
    BY <1>1, <1>2 DEF LastIs
  <1>3. CASE line[k + 1].flag # flag
    <2>1. LastIs(line, flag, k + 1, v)
      BY <1>1, <1>3, Zenon DEF LastIs
    <2> QED
      BY <1>3, <2>1
  <1> QED
    BY <1>2, <1>3

\* A builder that reflects k options reflects one more with WithOption.
LEMMA OptionReflected ==
    ASSUME NEW a \in AuthBuilder, NEW line \in Seq(Option), NEW k \in Nat,
           k < Len(line), Reflects(a, line, k)
    PROVE  /\ WithOption(a, line[k + 1]) \in AuthBuilder
           /\ Reflects(WithOption(a, line[k + 1]), line, k + 1)
  <1>1. PICK o \in Option : o = line[k + 1]
    BY k + 1 \in 1 .. Len(line)
  <1>2. PICK b : b = WithOption(a, o)
    OBVIOUS
  <1>3. /\ b \in AuthBuilder
        /\ b.username = IF o.flag = "-u" THEN o.arg ELSE a.username
        /\ b.password = IF o.flag = "-p" THEN o.arg ELSE a.password
        /\ b.private_key_path =
                IF o.flag = "-k" THEN o.arg ELSE a.private_key_path
        /\ b.cert_path = IF o.flag = "-c" THEN o.arg ELSE a.cert_path
        /\ b.root_cert_path = IF o.flag = "-r" THEN o.arg ELSE a.root_cert_path
        /\ b.insecure <=> a.insecure \/ o.flag = "-f"
    <2>0. o.arg \in Value
      BY DEF Option
    <2>1. CASE o.flag \notin Setters
      BY <1>2, <2>1 DEF WithOption, AuthBuilder, Setters
    <2>2. CASE o.flag = "-u"
      <3>1. b = [a EXCEPT !["username"] = o.arg]
        BY <1>2, <2>2 DEF WithOption, Setters, SetBy
      <3> QED
        BY <2>0, <2>2, <3>1 DEF AuthBuilder
    <2>3. CASE o.flag = "-p"
      <3>1. b = [a EXCEPT !["password"] = o.arg]
        BY <1>2, <2>3 DEF WithOption, Setters, SetBy
      <3> QED
        BY <2>0, <2>3, <3>1 DEF AuthBuilder
    <2>4. CASE o.flag = "-k"
      <3>1. b = [a EXCEPT !["private_key_path"] = o.arg]
        BY <1>2, <2>4 DEF WithOption, Setters, SetBy
      <3> QED
        BY <2>0, <2>4, <3>1 DEF AuthBuilder
    <2>5. CASE o.flag = "-c"
      <3>1. b = [a EXCEPT !["cert_path"] = o.arg]
        BY <1>2, <2>5 DEF WithOption, Setters, SetBy
      <3> QED
        BY <2>0, <2>5, <3>1 DEF AuthBuilder
    <2>6. CASE o.flag = "-r"
      <3>1. b = [a EXCEPT !["root_cert_path"] = o.arg]
        BY <1>2, <2>6 DEF WithOption, Setters, SetBy
      <3> QED
        BY <2>0, <2>6, <3>1 DEF AuthBuilder
    <2> QED
      BY <2>1, <2>2, <2>3, <2>4, <2>5, <2>6 DEF Setters
  <1>4. /\ LastIs(line, "-u", k + 1, b.username)
        /\ LastIs(line, "-p", k + 1, b.password)
        /\ LastIs(line, "-k", k + 1, b.private_key_path)
        /\ LastIs(line, "-c", k + 1, b.cert_path)
        /\ LastIs(line, "-r", k + 1, b.root_cert_path)
    BY <1>1, <1>3, LastAfter DEF Reflects
  <1>5. b.insecure <=> \E i \in 1 .. k + 1 : line[i].flag = "-f"
    BY <1>1, <1>3 DEF Reflects
  <1> QED
    BY <1>1, <1>2, <1>3, <1>4, <1>5 DEF Reflects

\* Before any option is read, the builder is as it was made.
LEMMA NothingReflected ==
    ASSUME NEW line
    PROVE  NewAuth \in AuthBuilder /\ Reflects(NewAuth, line, 0)
  <1>1. 1 .. 0 = {}
    OBVIOUS
  <1>2. NewAuth \in AuthBuilder
    BY NoValue DEF NewAuth, AuthBuilder
  <1> QED
    BY <1>1, <1>2 DEF NewAuth, Reflects, LastIs

-----------------------------------------------------------------------------
(***************************************************************************)
(* Calls.                                                                  *)
(***************************************************************************)

\* A caller that is let in is one the command line lets in.
LEMMA AdmittedAsConfigured ==
    ASSUME AuthInv, pc = "serving", NEW c \in Client,
           NEW terminated \in BOOLEAN, Admitted(c, terminated)
    PROVE  Allows(argv, Presents[c])
  <1> USE DEF Allows
  <1>1. /\ Reflects(auth, argv, Len(argv))
        /\ argv \in Seq(Option) /\ auth \in AuthBuilder
    BY DEF AuthInv
  <1>2. /\ Given(argv, "-u") = auth.username
        /\ Given(argv, "-p") = auth.password
        /\ Given(argv, "-k") = auth.private_key_path
        /\ Given(argv, "-c") = auth.cert_path
    BY <1>1, GivenIsLast DEF Reflects
  <1>3. auth.insecure => \E i \in 1 .. Len(argv) : argv[i].flag = "-f"
    BY <1>1 DEF Reflects
  <1>4. Presents[c] \in Call
    BY ServerTyped
  <1>5. /\ Presents[c].tls \in BOOLEAN
        /\ Presents[c].certificate \in BOOLEAN
        /\ Presents[c].metadata \in Metadata
    BY <1>4 DEF Call
  <1>6. Transport(Presents[c], auth)
    BY DEF Admitted
  <1>7. CASE Method(auth) = "MUTUAL_TLS"
    <2>1. Presents[c].tls /\ Presents[c].certificate
      BY <1>6, <1>7 DEF Transport
    <2>2. Tls(auth) /\ auth.username = "" /\ auth.password = ""
      BY <1>7 DEF Method
    <2> QED
      BY <1>2, <2>1, <2>2 DEF TlsIsComplete, Tls
  <1>8. CASE Method(auth) = "USERPASS_TLS"
    <2>1. Presents[c].tls /\ Process(Presents[c], auth, terminated)
      BY <1>6, <1>8 DEF Transport, Admitted
    <2>2. Tls(auth) /\ auth.username # "" /\ auth.password # ""
      BY <1>8 DEF Method
    <2>3. Presents[c].metadata =
              [username |-> auth.username, password |-> auth.password]
      <3>1. PICK S \in SUBSET {"username", "password"} :
                Presents[c].metadata \in [S -> Value]
        BY <1>5 DEF Metadata
      <3>2. S = {"username", "password"}
        BY <2>1, <3>1 DEF Process
      <3> QED
        BY <2>1, <3>1, <3>2 DEF Process
    <2> QED
      BY <1>2, <2>1, <2>2, <2>3 DEF TlsIsComplete, Tls
  <1>9. CASE Method(auth) = "INSECURE"
    <2>1. ~Presents[c].tls
      BY <1>6, <1>9 DEF Transport
    <2>2. /\ ~(Tls(auth) /\ (auth.username = "" <=> auth.password = ""))
          /\ auth.insecure
      BY <1>9 DEF Method
    <2> QED
      BY <1>2, <1>3, <2>1, <2>2 DEF TlsIsComplete, Tls
  <1> QED
    BY <1>6, <1>7, <1>8, <1>9 DEF Transport

-----------------------------------------------------------------------------
(***************************************************************************)
(* AuthInv is inductive.                                                   *)
(***************************************************************************)

\* A step that moves the main thread on beyond the options, at most.
LEMMA AuthKept ==
    ASSUME AuthInv, UNCHANGED <<processVars, handler>>,
           \/ pc' = pc
           \/ /\ pc \notin {"options", "exited", "serving"}
              /\ pc' \notin {"options", "exited"}
           \/ pc = "options" /\ optind = Len(argv) /\ pc' = "connect"
    PROVE  AuthInv'
  BY DEF AuthInv, processVars, CallersAsConfigured

LEMMA AuthExit ==
    ASSUME AuthInv, Exit
    PROVE  AuthInv'
  <1>1. \A c \in Client : handler'[c] = NoCall
    BY DEF Exit
  <1>2. /\ handler' \in [Client -> Handler] /\ NewAuth \in AuthBuilder
        /\ CallersAsConfigured'
    BY <1>1, NoValue DEF Exit, Handler, NewAuth, AuthBuilder,
                         CallersAsConfigured
  <1> QED
    BY <1>2 DEF Exit, AuthInv

LEMMA AuthMain ==
    ASSUME AuthInv, MainRuns
    PROVE  AuthInv'
  <1>1. CASE ParseOption /\ ~ExitsAt(NextOption)
    <2>1. /\ pc = "options" /\ pc' = pc /\ optind < Len(argv)
          /\ auth' = WithOption(auth, NextOption)
          /\ optind' = optind + 1 /\ UNCHANGED <<argv, handler>>
      BY <1>1 DEF ParseOption, contextVars, callVars
    <2>2. auth' \in AuthBuilder /\ Reflects(auth', argv, optind')
      BY <2>1, OptionReflected DEF AuthInv, NextOption
    <2>3. \A c \in Client : handler'[c] = NoCall
      BY <2>1 DEF AuthInv
    <2>4. CallersAsConfigured'
      BY <2>3 DEF CallersAsConfigured
    <2> QED
      BY <2>1, <2>2, <2>4 DEF AuthInv
  <1>2. CASE BuildCredentials /\ Builds(auth)
    BY <1>2, AuthKept DEF BuildCredentials, GoTo, callVars
  <1>3. CASE Connect \/ BuildAndStart
    BY <1>3, AuthKept DEF Connect, BuildAndStart, GoTo, callVars
  <1>4. CASE ConstructsEncode
    <2>1. UNCHANGED <<processVars, handler>>
      BY <1>4 DEF ConstructsEncode, callVars
    <2>2. \/ pc' = pc
          \/ /\ pc \notin {"options", "exited", "serving"}
             /\ pc' \notin {"options", "exited"}
      BY <1>4 DEF ConstructsEncode, Encodes, ListSchemas, VisitSchema,
            LoadsListed, Load, Download, DownloadThrows, Parse, ParseThrows,
            GiveUp, AllVisited, SubscribeInstall, SubscribeFeatures, GoTo
    <2> QED
      BY <2>1, <2>2, AuthKept
  <1>5. CASE Exit
    BY <1>5, AuthExit
  <1> QED
    BY <1>1, <1>2, <1>3, <1>4, <1>5
    DEF MainRuns, ParseOption, BuildCredentials, DaemonFails, StartsNothing

LEMMA AuthCalls ==
    ASSUME AuthInv, NEW c \in Client, CallArrives(c) \/ Handles(c)
    PROVE  AuthInv'
  <1>1. UNCHANGED <<pc, argv, optind, auth>>
    BY DEF CallArrives, Handles, Capabilities, ParseAccepted, ParseRefused,
           StoreTree, contextVars, processVars
  <1>2. PICK h \in Handler :
            /\ handler' = [handler EXCEPT ![c] = h]
            /\ h # NoCall => \/ handler[c] # NoCall
                             \/ \E terminated \in BOOLEAN : Admitted(c, terminated)
    <2>1. NoCall \in Handler
      BY DEF Handler
    <2>2. CASE CallArrives(c)
      BY <2>2 DEF CallArrives, Handler
    <2>3. CASE ParseAccepted(c)
      <3>1. handler[c] \in Handler /\ handler[c].at = "parse"
        BY <2>3 DEF ParseAccepted, AuthInv
      <3>2. handler[c] \in [at : {"parse", "store"}, module : Module]
        BY <3>1 DEF Handler, NoCall
      <3>3. [handler[c] EXCEPT !.at = "store"] \in Handler
        BY <3>2 DEF Handler
      <3>4. handler[c] # NoCall
        BY <3>1 DEF NoCall
      <3> QED
        BY <2>3, <3>3, <3>4 DEF ParseAccepted
    <2>4. CASE Capabilities(c) \/ ParseRefused(c) \/ StoreTree(c)
      BY <2>1, <2>4 DEF Capabilities, ParseRefused, StoreTree, Answer
    <2> QED
      BY <2>2, <2>3, <2>4 DEF Handles
  <1>3. pc = "serving"
    <2>1. CASE CallArrives(c)
      BY <2>1 DEF CallArrives
    <2>2. CASE Handles(c)
      <3>1. handler[c].at # "none"
        BY <2>2 DEF Handles, Capabilities, ParseAccepted, ParseRefused, StoreTree
      <3> QED
        BY <3>1 DEF AuthInv, NoCall
    <2> QED
      BY <2>1, <2>2
  <1>4. handler' \in [Client -> Handler]
    BY <1>2 DEF AuthInv
  <1>5. CallersAsConfigured'
    <2> SUFFICES ASSUME NEW d \in Client, handler'[d] # NoCall
                 PROVE  Allows(argv, Presents[d])
      BY <1>1 DEF CallersAsConfigured
    <2>1. CASE handler[d] # NoCall
      BY <2>1 DEF AuthInv, CallersAsConfigured
    <2>2. CASE handler[d] = NoCall
      <3>1. d = c
        BY <1>2, <2>2 DEF AuthInv
      <3>2. \E terminated \in BOOLEAN : Admitted(d, terminated)
        BY <1>2, <2>2, <3>1 DEF AuthInv
      <3> QED
        BY <1>3, <3>2, AdmittedAsConfigured
    <2> QED
      BY <2>1, <2>2
  <1> QED
    BY <1>1, <1>3, <1>4, <1>5 DEF AuthInv

LEMMA AuthNext == AuthInv /\ [Next]_vars => AuthInv'
  <1> SUFFICES ASSUME AuthInv, [Next]_vars
               PROVE  AuthInv'
    OBVIOUS
  <1>1. CASE MainRuns
    BY <1>1, AuthMain
  <1>2. CASE SubscriptionRuns
    <2>1. pc' = pc
      BY <1>2 DEF SubscriptionRuns, CallbackRuns, Callback, LoadsReported,
            Load, Download, DownloadThrows, Parse, ParseThrows, GiveUp
    <2> QED
      BY <1>2, <2>1, AuthKept DEF SubscriptionRuns, callVars
  <1>3. CASE DaemonRuns
    <2>1. pc' = pc
      BY <1>3 DEF DaemonRuns, DaemonChanges, DaemonInstalls, DaemonUninstalls,
            DaemonTogglesFeature, Changed
    <2> QED
      BY <1>3, <2>1, AuthKept DEF DaemonRuns, callVars
  <1>4. CASE \E c \in Client : CallArrives(c) \/ Handles(c)
    BY <1>4, AuthCalls
  <1>5. CASE Dies
    BY <1>5, AuthExit DEF Dies
  <1>6. CASE Restart
    <2>1. /\ auth' = NewAuth /\ optind' = 0 /\ pc' = "options"
          /\ argv' \in CommandLine /\ handler' = handler
          /\ handler = [c \in Client |-> NoCall]
      BY <1>6 DEF Restart, AuthInv, GoTo, callVars
    <2>2. /\ argv' \in Seq(Option) /\ optind' \in 0 .. Len(argv')
      <3>1. argv' \in Seq(Option)
        BY <2>1, ServerTyped
      <3> QED
        BY <2>1, <3>1
    <2>3. auth' \in AuthBuilder /\ Reflects(auth', argv', optind')
      BY <2>1, NothingReflected
    <2>4. CallersAsConfigured'
      BY <2>1 DEF CallersAsConfigured
    <2> QED
      BY <2>1, <2>2, <2>3, <2>4 DEF AuthInv
  <1>7. CASE UNCHANGED vars
    BY <1>7, AuthKept DEF vars, contextVars, callVars
  <1> QED
    BY <1>1, <1>2, <1>3, <1>4, <1>5, <1>6, <1>7 DEF Next

LEMMA AuthInit == Init => AuthInv
  <1> SUFFICES ASSUME Init
               PROVE  AuthInv
    OBVIOUS
  <1>1. argv \in Seq(Option) /\ optind \in 0 .. Len(argv)
    <2>1. argv \in Seq(Option)
      BY ServerTyped DEF Init
    <2> QED
      BY <2>1 DEF Init
  <1>2. auth \in AuthBuilder /\ Reflects(auth, argv, optind)
    BY NothingReflected DEF Init
  <1> QED
    BY <1>1, <1>2 DEF Init, AuthInv, CallersAsConfigured, Handler

\* With whatever options the server was started, a call is handled only if
\* the last values of those options allow it: main.cpp:104-142,
\* authentication.cpp:83-194.
THEOREM CallersAlwaysAsConfigured == Spec => []CallersAsConfigured
  <1>1. AuthInv => CallersAsConfigured
    BY DEF AuthInv
  <1> QED
    BY <1>1, AuthInit, AuthNext, PTL DEF Spec

-----------------------------------------------------------------------------
(***************************************************************************)
(* The schema context.                                                     *)
(***************************************************************************)
\* What the three properties need of the state's shape: one module at a time
\* is loaded, and no feature is enabled before the modules are listed.
Shape ==
    /\ events \in Seq(Event)
    /\ handler \in [Client -> Handler]
    /\ fetching = {} \/ parsing = {}
    /\ pc \in {"options", "connect", "list", "exited"} => features = {}

ContextInv ==
    /\ Shape
    /\ ContextFollowsDaemon
    /\ FeaturesAsListed
    /\ SchemasInUseStay

-----------------------------------------------------------------------------
(***************************************************************************)
(* The queue of events.                                                    *)
(***************************************************************************)

\* An event that is added leaves the ones before it in the queue.
LEMMA ReportAdds ==
    ASSUME Shape, NEW m \in Module, NEW state \in State, NEW listens \in BOOLEAN,
           Report(listens, m, state)
    PROVE  /\ events' \in Seq(Event)
           /\ \A k : Pending(k) => Pending(k)'
           /\ listens /\ state = "IMPLEMENTED" => Pending(m)'
  <1> DEFINE e == [module |-> m, state |-> state]
  <1>1. e \in Event /\ events \in Seq(Event)
    BY DEF Event, Shape
  <1>2. CASE ~listens
    BY <1>1, <1>2 DEF Report, Pending
  <1>3. CASE listens
    <2>1. events' = Append(events, e)
      BY <1>3 DEF Report
    <2>2. /\ events' \in Seq(Event)
          /\ \A i \in DOMAIN events :
                 i \in DOMAIN events' /\ events'[i] = events[i]
          /\ Len(events) + 1 \in DOMAIN events'
          /\ events'[Len(events) + 1] = e
      <3> HIDE DEF e
      <3> QED
        BY <1>1, <2>1
    <2> QED
      BY <2>2 DEF Pending
  <1> QED
    BY <1>2, <1>3

\* What is taken off the queue is its head.
LEMMA TailKeeps ==
    ASSUME events \in Seq(Event), events # <<>>, events' = Tail(events),
           NEW m, Pending(m)
    PROVE  Pending(m)' \/ Head(events) = [module |-> m, state |-> "IMPLEMENTED"]
  <1>1. PICK i \in DOMAIN events :
            events[i] = [module |-> m, state |-> "IMPLEMENTED"]
    BY DEF Pending
  <1>2. CASE i = 1
    BY <1>1, <1>2
  <1>3. CASE i # 1
    <2>1. i \in 2 .. Len(events)
      BY <1>1, <1>3
    <2>2. i - 1 \in DOMAIN events' /\ events'[i - 1] = events[i]
      BY <2>1
    <2> QED
      BY <1>1, <2>2 DEF Pending
  <1> QED
    BY <1>2, <1>3

-----------------------------------------------------------------------------
(***************************************************************************)
(* One lemma for every thread.                                             *)
(***************************************************************************)

\* A step that changes nothing of this.
LEMMA StutterKeeps ==
    ASSUME ContextInv, UNCHANGED <<contextVars, handler>>
    PROVE  ContextInv'
  BY DEF ContextInv, Shape, ContextFollowsDaemon, FeaturesAsListed,
         SchemasInUseStay, Pending, Follows, Listening, contextVars,
         daemonVars, encodeVars

\* The main thread may move on within the part of its way that it is in.
LEMMA SamePlaceKeeps ==
    ASSUME ContextInv,
           UNCHANGED <<daemonVars, encodeVars, refused, missed, handler>>,
           \/ pc = "options" /\ pc' \in {"connect"}
           \/ pc = "connect" /\ pc' \in {"list"}
           \/ pc = "exited" /\ pc' \in {"options"}
           \/ /\ pc \in {"load", "subscribe", "subscribe_features", "listen"}
              /\ pc' \in {"subscribe", "subscribe_features", "listen", "serving"}
    PROVE  ContextInv'
  BY DEF ContextInv, Shape, ContextFollowsDaemon, FeaturesAsListed,
         SchemasInUseStay, Pending, Follows, Listening, daemonVars, encodeVars

\* Between two steps of the process the daemon may do what it likes.
LEMMA DaemonKeeps ==
    ASSUME ContextInv, DaemonRuns
    PROVE  ContextInv'
  <1> USE DEF ContextInv, DaemonRuns, callVars, encodeVars
  <1>1. PICK m \in Module :
            DaemonInstalls(m) \/ DaemonUninstalls(m) \/ DaemonTogglesFeature(m)
    BY DEF DaemonChanges
  <1>2. /\ UNCHANGED <<pc, schemas, toLoad, fetching, parsing, ctx, features,
                       refused, handler>>
        /\ Listening \in BOOLEAN /\ ListeningForFeatures \in BOOLEAN
    BY <1>1 DEF DaemonInstalls, DaemonUninstalls, DaemonTogglesFeature,
                Changed, Listening, ListeningForFeatures
  <1>3. FeaturesAsListed' /\ SchemasInUseStay'
    BY <1>2 DEF FeaturesAsListed, SchemasInUseStay, Follows, Listening
  <1>4. CASE DaemonInstalls(m)
    <2>1. Report(Listening, m, "IMPLEMENTED")
      BY <1>4 DEF DaemonInstalls
    <2>2. /\ events' \in Seq(Event)
          /\ \A k : Pending(k) => Pending(k)'
          /\ Listening => Pending(m)'
      BY <1>2, <2>1, ReportAdds DEF State
    <2>3. ContextFollowsDaemon'
      <3>1. SUFFICES ASSUME Follows, NEW k \in installed \cup {m}
                     PROVE  \/ k \in ctx \cup toLoad \cup fetching \cup parsing
                            \/ Pending(k)'
                            \/ k \in refused \cup missed'
        BY <1>2, <1>4 DEF ContextFollowsDaemon, DaemonInstalls, Follows, Listening
      <3>2. CASE k = m
        BY <1>4, <2>2, <3>1, <3>2 DEF DaemonInstalls, Missed, Follows
      <3>3. CASE k # m
        <4>1. k \in missed => k \in missed'
          BY <1>4, <3>3 DEF DaemonInstalls, Missed
        <4> QED
          BY <2>2, <3>1, <3>3, <4>1 DEF ContextFollowsDaemon
      <3> QED
        BY <3>2, <3>3
    <2> QED
      BY <1>2, <1>3, <2>2, <2>3 DEF Shape
  <1>5. CASE DaemonUninstalls(m) \/ DaemonTogglesFeature(m)
    <2>1. \E listens \in BOOLEAN, state \in State : Report(listens, m, state)
      BY <1>2, <1>5 DEF DaemonUninstalls, DaemonTogglesFeature, State
    <2>2. events' \in Seq(Event) /\ \A k : Pending(k) => Pending(k)'
      BY <2>1, ReportAdds
    <2>3. installed' \subseteq installed /\ missed' = missed
      BY <1>5 DEF DaemonUninstalls, DaemonTogglesFeature
    <2> QED
      BY <1>2, <1>3, <2>2, <2>3
      DEF Shape, ContextFollowsDaemon, Follows, Listening
  <1> QED
    BY <1>1, <1>4, <1>5

\* Downloading and parsing, whichever thread does it.
LEMMA LoadKeeps ==
    ASSUME ContextInv, Load, Follows, UNCHANGED <<processVars, callVars>>
    PROVE  ContextInv'
  <1> USE DEF ContextInv, callVars, daemonVars
  <1>1. PICK m \in Module :
            Download(m) \/ DownloadThrows(m) \/ Parse(m) \/ ParseThrows(m)
    BY DEF Load
  <1>2. /\ UNCHANGED <<installed, events, pc, schemas, missed, handler>>
        /\ ctx \subseteq ctx' /\ refused \subseteq refused'
        /\ toLoad' \subseteq toLoad
    BY <1>1 DEF Download, DownloadThrows, Parse, ParseThrows, GiveUp, Visited
  <1>3. SchemasInUseStay'
    BY <1>2 DEF SchemasInUseStay
  <1>4. /\ fetching' = {} \/ parsing' = {}
        /\ \A k \in toLoad \cup fetching \cup parsing :
               k \in ctx' \cup toLoad' \cup fetching' \cup parsing' \cup refused'
    BY <1>1 DEF Download, DownloadThrows, Parse, ParseThrows, GiveUp, Visited,
                Shape
  <1>5. ContextFollowsDaemon'
    <2>1. \A k : Pending(k) => Pending(k)'
      BY <1>2 DEF Pending
    <2> QED
      BY <1>2, <1>4, <2>1 DEF ContextFollowsDaemon, Follows, Listening
  <1>6. FeaturesAsListed'
    <2>1. CASE UNCHANGED features /\ toLoad \ toLoad' \subseteq refused'
      BY <1>2, <2>1 DEF FeaturesAsListed, Follows, Listening
    <2>2. CASE Visited(m) /\ m \in ctx'
      BY <1>2, <2>2 DEF FeaturesAsListed, Follows, Listening, Visited
    <2> QED
      BY <1>1, <2>1, <2>2
      DEF Download, DownloadThrows, Parse, ParseThrows, GiveUp
  <1>7. Shape'
    BY <1>2, <1>4 DEF Shape, Follows, Listening
  <1> QED
    BY <1>3, <1>5, <1>6, <1>7

\* The constructor: the list is taken as a whole, and then worked off.
LEMMA EncodeKeeps ==
    ASSUME ContextInv, ConstructsEncode
    PROVE  ContextInv'
  <1> USE DEF ContextInv, ConstructsEncode, callVars, daemonVars
  <1>1. CASE ListSchemas
    BY <1>1 DEF ListSchemas, GoTo, Shape, ContextFollowsDaemon,
                FeaturesAsListed, SchemasInUseStay, Follows, Listening
  <1>2. CASE VisitSchema
    <2>1. /\ UNCHANGED <<installed, events, pc, schemas, missed, handler,
                         refused, ctx, parsing>>
          /\ fetching = {} /\ parsing = {} /\ pc = "load"
      BY <1>2 DEF VisitSchema, Idle
    <2>2. PICK m \in toLoad :
            \/ m \in ctx /\ Visited(m) /\ fetching' = fetching
            \/ /\ m \notin ctx /\ fetching' = {m}
               /\ UNCHANGED <<toLoad, features>>
      BY <1>2 DEF VisitSchema
    <2>3. Shape' /\ SchemasInUseStay'
      BY <2>1 DEF Shape, SchemasInUseStay
    <2>4. ContextFollowsDaemon'
      <3>1. \A k : Pending(k) => Pending(k)'
        BY <2>1 DEF Pending
      <3> QED
        BY <2>1, <2>2, <3>1
        DEF ContextFollowsDaemon, Follows, Listening, Visited
    <2>5. FeaturesAsListed'
      BY <2>1, <2>2 DEF FeaturesAsListed, Follows, Listening, Visited
    <2> QED
      BY <2>3, <2>4, <2>5
  <1>3. CASE LoadsListed
    BY <1>3, LoadKeeps DEF LoadsListed, Follows
  <1>4. CASE AllVisited \/ SubscribeInstall \/ SubscribeFeatures
    <2>1. UNCHANGED <<daemonVars, encodeVars, refused, missed, handler>>
      BY <1>4 DEF AllVisited, SubscribeInstall, SubscribeFeatures
    <2>2. /\ pc \in {"load", "subscribe", "subscribe_features"}
          /\ pc' \in {"subscribe", "subscribe_features", "listen"}
      BY <1>4 DEF AllVisited, SubscribeInstall, SubscribeFeatures, GoTo
    <2> QED
      BY <2>1, <2>2, SamePlaceKeeps
  <1> QED
    BY <1>1, <1>2, <1>3, <1>4 DEF Encodes

\* The callback: a report of a new module starts its load, if it is needed.
LEMMA CallbackKeeps ==
    ASSUME ContextInv, SubscriptionRuns
    PROVE  ContextInv'
  <1> USE DEF ContextInv, SubscriptionRuns, callVars
  <1>1. CASE Callback
    <2>1. /\ events \in Seq(Event) /\ events # <<>> /\ events' = Tail(events)
          /\ UNCHANGED <<installed, pc, schemas, toLoad, parsing, features,
                         refused, missed, handler, ctx>>
          /\ fetching = {} /\ parsing = {} /\ Listening
      BY <1>1 DEF Callback, Kept, Idle, Shape
    <2>2. events' \in Seq(Event)
      BY <2>1
    <2>3. Shape' /\ FeaturesAsListed' /\ SchemasInUseStay'
      BY <2>1, <2>2
      DEF Shape, FeaturesAsListed, SchemasInUseStay, Follows, Listening
    <2>4. ASSUME NEW k, Pending(k)
          PROVE  k \in ctx \cup fetching' \/ Pending(k)'
      <3>1. Pending(k)' \/ Head(events) = [module |-> k, state |-> "IMPLEMENTED"]
        BY <2>1, <2>4, TailKeeps
      <3>2. CASE Head(events) = [module |-> k, state |-> "IMPLEMENTED"]
        BY <1>1, <3>2 DEF Callback, Installs
      <3> QED
        BY <3>1, <3>2
    <2>5. ContextFollowsDaemon'
      BY <2>1, <2>4 DEF ContextFollowsDaemon, Follows, Listening
    <2> QED
      BY <2>3, <2>5
  <1>2. CASE LoadsReported
    BY <1>2, LoadKeeps DEF LoadsReported, Follows
  <1> QED
    BY <1>1, <1>2 DEF CallbackRuns

\* With the process, everything is gone that it was responsible for.
LEMMA ExitKeeps ==
    ASSUME Exit
    PROVE  ContextInv'
  BY DEF Exit, LosesContext, NoSchemas, ContextInv, Shape, NoCall, Handler,
         ContextFollowsDaemon, FeaturesAsListed, SchemasInUseStay, Follows,
         Listening

\* The other steps of the main thread: its place is all that changes.
LEMMA MainKeeps ==
    ASSUME ContextInv, MainRuns
    PROVE  ContextInv'
  <1>1. CASE ParseOption
    <2>1. CASE ExitsAt(NextOption)
      BY <1>1, <2>1, ExitKeeps DEF ParseOption
    <2>2. CASE ~ExitsAt(NextOption)
      <3>1. UNCHANGED <<contextVars, callVars>>
        BY <1>1, <2>2 DEF ParseOption
      <3> QED
        BY <3>1, StutterKeeps DEF callVars
    <2> QED
      BY <2>1, <2>2
  <1>2. CASE BuildCredentials
    <2>1. CASE Builds(auth)
      BY <1>2, <2>1, SamePlaceKeeps DEF BuildCredentials, GoTo, callVars
    <2>2. CASE ~Builds(auth)
      BY <1>2, <2>2, ExitKeeps DEF BuildCredentials
    <2> QED
      BY <2>1, <2>2
  <1>3. CASE Connect \/ BuildAndStart
    BY <1>3, SamePlaceKeeps DEF Connect, BuildAndStart, GoTo, callVars
  <1>4. CASE DaemonFails \/ StartsNothing
    BY <1>4, ExitKeeps DEF DaemonFails, StartsNothing
  <1>5. CASE ConstructsEncode
    BY <1>5, EncodeKeeps
  <1> QED
    BY <1>1, <1>2, <1>3, <1>4, <1>5 DEF MainRuns

\* Calls only read the context, and use what they found there.
LEMMA CallsKeep ==
    ASSUME ContextInv, NEW c \in Client, CallArrives(c) \/ Handles(c)
    PROVE  ContextInv'
  <1> USE DEF ContextInv
  <1>1. UNCHANGED contextVars
    BY DEF CallArrives, Handles, Capabilities, ParseAccepted, ParseRefused,
           StoreTree
  <1>2. PICK h \in Handler :
            /\ handler' = [handler EXCEPT ![c] = h]
            /\ h.at = "store" => h.module \in ctx
    <2>1. NoCall \in Handler /\ NoCall.at # "store"
      BY DEF NoCall, Handler
    <2>2. CASE CallArrives(c)
      BY <2>2 DEF CallArrives, Handler
    <2>3. CASE ParseAccepted(c)
      <3>1. handler[c] \in Handler /\ handler[c].at = "parse"
        BY <2>3 DEF ParseAccepted, Shape
      <3>2. handler[c] \in [at : {"parse", "store"}, module : Module]
        BY <3>1 DEF Handler, NoCall
      <3>3. [handler[c] EXCEPT !.at = "store"] \in Handler
        BY <3>2 DEF Handler
      <3> QED
        BY <2>3, <3>2, <3>3 DEF ParseAccepted
    <2>4. CASE Capabilities(c) \/ ParseRefused(c) \/ StoreTree(c)
      BY <2>1, <2>4 DEF Capabilities, ParseRefused, StoreTree, Answer
    <2> QED
      BY <2>2, <2>3, <2>4 DEF Handles
  <1>3. handler' \in [Client -> Handler] /\ SchemasInUseStay'
    BY <1>1, <1>2 DEF Shape, SchemasInUseStay, contextVars, encodeVars
  <1> QED
    BY <1>1, <1>3
    DEF Shape, ContextFollowsDaemon, FeaturesAsListed, Pending, Follows,
        Listening, contextVars, daemonVars, encodeVars

-----------------------------------------------------------------------------
(***************************************************************************)
(* The three properties.                                                   *)
(***************************************************************************)

\* The process starts without a context.
LEMMA InitContext == Init => ContextInv
  BY DEF Init, ContextInit, NoContext, NoSchemas, ContextInv, Shape, NoCall,
         Handler, ContextFollowsDaemon, FeaturesAsListed, SchemasInUseStay,
         Follows, Listening

\* ContextInv is inductive.
LEMMA NextContext == ContextInv /\ [Next]_vars => ContextInv'
  <1> SUFFICES ASSUME ContextInv, [Next]_vars
               PROVE  ContextInv'
    OBVIOUS
  <1>1. CASE MainRuns
    BY <1>1, MainKeeps
  <1>2. CASE SubscriptionRuns
    BY <1>2, CallbackKeeps
  <1>3. CASE DaemonRuns
    BY <1>3, DaemonKeeps
  <1>4. CASE \E c \in Client : CallArrives(c) \/ Handles(c)
    BY <1>4, CallsKeep
  <1>5. CASE Dies
    BY <1>5, ExitKeeps DEF Dies
  <1>6. CASE Restart
    BY <1>6, SamePlaceKeeps DEF Restart, GoTo, callVars
  <1>7. CASE UNCHANGED vars
    BY <1>7, StutterKeeps DEF vars, callVars
  <1> QED
    BY <1>1, <1>2, <1>3, <1>4, <1>5, <1>6, <1>7 DEF Next

LEMMA ContextInvHolds == Spec => []ContextInv
  BY InitContext, NextContext, PTL DEF Spec

\* From the listing of the modules on, no module that the daemon has is lost
\* on its way into the context: load_models.cpp:51-114, runtime.cpp:35-65.
THEOREM ContextAlwaysFollows == Spec => []ContextFollowsDaemon
  <1>1. ContextInv => ContextFollowsDaemon
    BY DEF ContextInv
  <1> QED
    BY <1>1, ContextInvHolds, PTL

\* The modules that were listed have the features that were listed, however
\* they got into the context: load_models.cpp:83-110.
THEOREM FeaturesAlwaysAsListed == Spec => []FeaturesAsListed
  <1>1. ContextInv => FeaturesAsListed
    BY DEF ContextInv
  <1> QED
    BY <1>1, ContextInvHolds, PTL

\* What a Set stores was parsed with a schema that is still there, whatever
\* the callbacks were told meanwhile: runtime.cpp:69-107.
THEOREM SchemasAlwaysStay == Spec => []SchemasInUseStay
  <1>1. ContextInv => SchemasInUseStay
    BY DEF ContextInv
  <1> QED
    BY <1>1, ContextInvHolds, PTL

-----------------------------------------------------------------------------
(***************************************************************************)
(* Type correctness.  The rest of TypeOK, apart from what ContextInv and   *)
(* AuthInv say.  That the context is closed under imports depends on what  *)
(* a load brings in, and that features are of modules in it on the order   *)
(* of the two in the loading loop.                                         *)
(***************************************************************************)
DaemonTyped ==
    /\ installed \subseteq Module /\ Closed(installed)
    /\ enabled \subseteq installed
    /\ changes \in 0 .. MaxChanges

LoadingTyped ==
    /\ schemas \in Schemas
    /\ toLoad \subseteq schemas.modules
    /\ {fetching, parsing} \subseteq {{}} \cup {{m} : m \in Module}
    /\ fetching = {} \/ parsing = {}
    /\ ctx \subseteq Module /\ Closed(ctx)
    /\ features \subseteq ctx
    /\ refused \subseteq Module /\ missed \subseteq Module
    /\ Idle \/ pc = "load" \/ Listening
    /\ pc = "load" => fetching \cup parsing \subseteq toLoad

ProcessTyped ==
    /\ pc \in Label
    /\ argv \in CommandLine
    /\ starts \in 1 .. MaxStarts
    /\ offered \subseteq Module

Typed == DaemonTyped /\ LoadingTyped /\ ProcessTyped

LEMMA TypedSuffices == Typed /\ ContextInv /\ AuthInv => TypeOK
  BY DEF Typed, DaemonTyped, LoadingTyped, ProcessTyped, ContextInv, Shape,
         AuthInv, TypeOK, ContextTypeOK

LEMMA InitTyped == Init => Typed
  <1> SUFFICES ASSUME Init PROVE Typed
    OBVIOUS
  <1>1. DaemonTyped
    BY ImportsTyped DEF Init, ContextInit, DaemonTyped
  <1>2. LoadingTyped
    BY DEF Init, ContextInit, NoContext, NoSchemas, Schemas, LoadingTyped,
           Closed, Idle
  <1>3. ProcessTyped
    BY ServerTyped DEF Init, ProcessTyped, Label
  <1> QED
    BY <1>1, <1>2, <1>3 DEF Typed

\* A step that leaves the context and the daemon alone.
LEMMA PlaceTyped ==
    ASSUME Typed, UNCHANGED <<daemonVars, encodeVars, refused, missed>>,
           pc' = pc \/ Idle \/ Listening', pc' = "load" => pc' = pc,
           ProcessTyped'
    PROVE  Typed'
  BY DEF Typed, DaemonTyped, LoadingTyped, daemonVars, encodeVars, Closed,
         Idle, Listening

LEMMA ExitTyped ==
    ASSUME Typed, Exit
    PROVE  Typed'
  <1>1. DaemonTyped'
    BY DEF Exit, LosesContext, Typed, DaemonTyped, Closed
  <1>2. LoadingTyped'
    BY DEF Exit, LosesContext, NoSchemas, Schemas, LoadingTyped, Closed, Idle
  <1>3. ProcessTyped'
    BY DEF Exit, Typed, ProcessTyped, Label
  <1> QED
    BY <1>1, <1>2, <1>3 DEF Typed

LEMMA DaemonTypedKept ==
    ASSUME Typed, DaemonRuns
    PROVE  Typed'
  <1>1. PICK m \in Module :
            DaemonInstalls(m) \/ DaemonUninstalls(m) \/ DaemonTogglesFeature(m)
    BY DEF DaemonRuns, DaemonChanges
  <1>2. /\ changes < MaxChanges /\ changes' = changes + 1
        /\ UNCHANGED <<pc, encodeVars, refused, processVars, callVars>>
    BY <1>1 DEF DaemonRuns, DaemonInstalls, DaemonUninstalls,
                DaemonTogglesFeature, Changed
  <1>3. changes' \in 0 .. MaxChanges
    BY <1>2, ImportsTyped DEF Typed, DaemonTyped
  <1>4. DaemonTyped'
    <2>1. CASE DaemonInstalls(m)
      BY <1>3, <2>1 DEF Typed, DaemonTyped, DaemonInstalls, Closed
    <2>2. CASE DaemonUninstalls(m)
      BY <1>3, <2>2 DEF Typed, DaemonTyped, DaemonUninstalls, Closed
    <2>3. CASE DaemonTogglesFeature(m)
      BY <1>3, <2>3 DEF Typed, DaemonTyped, DaemonTogglesFeature, Closed
    <2> QED
      BY <1>1, <2>1, <2>2, <2>3
  <1>5. missed' \subseteq Module
    BY <1>1 DEF Typed, LoadingTyped, DaemonInstalls, DaemonUninstalls,
                DaemonTogglesFeature, Missed
  <1>6. LoadingTyped'
    BY <1>2, <1>5 DEF Typed, LoadingTyped, encodeVars, Closed, Idle, Listening
  <1>7. ProcessTyped'
    BY <1>2 DEF Typed, ProcessTyped, processVars, callVars
  <1> QED
    BY <1>4, <1>6, <1>7 DEF Typed

\* A load leaves the context closed, with whatever imports came on the way.
LEMMA LoadTyped ==
    ASSUME Typed, Load, UNCHANGED <<processVars, callVars>>
    PROVE  Typed'
  <1>1. PICK m \in Module :
            Download(m) \/ DownloadThrows(m) \/ Parse(m) \/ ParseThrows(m)
    BY DEF Load
  <1>2. UNCHANGED <<daemonVars, pc, schemas, missed, processVars, callVars>>
    BY <1>1 DEF Download, DownloadThrows, Parse, ParseThrows, GiveUp
  <1>3. DaemonTyped' /\ ProcessTyped'
    BY <1>2 DEF Typed, DaemonTyped, ProcessTyped, daemonVars, processVars,
                callVars, Closed
  <1>4. /\ ctx' \subseteq Module /\ Closed(ctx') /\ ctx \subseteq ctx'
        /\ features' \subseteq ctx'
    <2>1. CASE Download(m) \/ DownloadThrows(m)
      BY <2>1 DEF Download, DownloadThrows, GiveUp, Typed, LoadingTyped
    <2>2. CASE ParseThrows(m)
      BY <2>2, ImportsTyped
      DEF ParseThrows, GiveUp, ImportsLoaded, Typed, LoadingTyped
    <2>3. CASE Parse(m)
      <3>1. PICK I \in ImportsLoaded(m) :
                Imports[m] \subseteq ctx \cup I /\ ctx' = ctx \cup I \cup {m}
        BY <2>3 DEF Parse
      <3>2. I \subseteq Module /\ Closed(ctx \cup I)
        BY <3>1, ImportsTyped DEF ImportsLoaded
      <3>3. ctx' \subseteq Module /\ ctx \subseteq ctx' /\ m \in ctx'
        BY <3>1, <3>2 DEF Typed, LoadingTyped
      <3>4. Closed(ctx')
        BY <3>1, <3>2 DEF Closed
      <3>5. features' \subseteq features \cup {m}
        BY <2>3 DEF Parse, Visited
      <3> QED
        BY <3>3, <3>4, <3>5 DEF Typed, LoadingTyped
    <2> QED
      BY <1>1, <2>1, <2>2, <2>3
  <1>5. /\ refused' \subseteq Module
        /\ toLoad' \subseteq toLoad
        /\ fetching' = {} /\ parsing' \in {{}, {m}}
        /\ m \in fetching \cup parsing
        /\ parsing' # {} => toLoad' = toLoad
    <2> USE DEF Typed, LoadingTyped
    <2>1. CASE Download(m)
      BY <2>1 DEF Download
    <2>2. CASE DownloadThrows(m)
      BY <2>2 DEF DownloadThrows, GiveUp
    <2>3. CASE Parse(m)
      BY <2>3 DEF Parse, Visited
    <2>4. CASE ParseThrows(m)
      BY <2>4 DEF ParseThrows, GiveUp
    <2> QED
      BY <1>1, <2>1, <2>2, <2>3, <2>4
  <1>6. LoadingTyped'
    BY <1>2, <1>4, <1>5 DEF Typed, LoadingTyped, Idle, Listening
  <1> QED
    BY <1>3, <1>6 DEF Typed

\* The constructor, and the callbacks.
LEMMA EncodeTyped ==
    ASSUME Typed, ConstructsEncode
    PROVE  Typed'
  <1>1. CASE ListSchemas
    <2>1. UNCHANGED <<daemonVars, processVars, callVars>>
      BY <1>1 DEF ListSchemas, ConstructsEncode
    <2>2. DaemonTyped' /\ ProcessTyped'
      BY <1>1, <2>1 DEF ListSchemas, GoTo, Typed, DaemonTyped, ProcessTyped,
            Label, daemonVars, processVars, callVars, Closed
    <2>3. LoadingTyped'
      BY <1>1 DEF ListSchemas, GoTo, Typed, DaemonTyped, LoadingTyped, Schemas,
            Idle, Listening
    <2> QED
      BY <2>2, <2>3 DEF Typed
  <1>2. CASE VisitSchema
    <2>1. UNCHANGED <<daemonVars, pc, schemas, parsing, refused, missed, ctx,
                      processVars, callVars>>
      BY <1>2 DEF VisitSchema, ConstructsEncode
    <2>2. DaemonTyped' /\ ProcessTyped'
      BY <2>1 DEF Typed, DaemonTyped, ProcessTyped, daemonVars, processVars,
            callVars, Closed
    <2>3. LoadingTyped'
      <3>1. PICK m \in toLoad :
              \/ m \in ctx /\ Visited(m) /\ fetching' = fetching
              \/ fetching' = {m} /\ UNCHANGED <<toLoad, features>>
        BY <1>2 DEF VisitSchema
      <3>2. pc = "load" /\ fetching = {} /\ parsing = {}
        BY <1>2 DEF VisitSchema, Idle
      <3>3. m \in Module
        BY <3>1 DEF Typed, LoadingTyped, Schemas
      <3>4. toLoad' \subseteq toLoad /\ features' \subseteq ctx
        BY <3>1 DEF Visited, Typed, LoadingTyped
      <3>5. fetching' \in {{}, {m}} /\ fetching' \subseteq toLoad'
        BY <3>1, <3>2
      <3> QED
        BY <2>1, <3>2, <3>3, <3>4, <3>5 DEF Typed, LoadingTyped
    <2> QED
      BY <2>2, <2>3 DEF Typed
  <1>3. CASE LoadsListed
    BY <1>3, LoadTyped DEF LoadsListed, ConstructsEncode
  <1>4. CASE AllVisited \/ SubscribeInstall \/ SubscribeFeatures
    <2>1. /\ UNCHANGED <<daemonVars, encodeVars, refused, missed>>
          /\ UNCHANGED <<processVars, callVars>>
      BY <1>4 DEF AllVisited, SubscribeInstall, SubscribeFeatures,
                  ConstructsEncode
    <2>2. DaemonTyped' /\ ProcessTyped'
      BY <1>4, <2>1 DEF AllVisited, SubscribeInstall, SubscribeFeatures, GoTo,
            Typed, DaemonTyped, ProcessTyped, Label, daemonVars, processVars,
            callVars, Closed
    <2>3. LoadingTyped'
      BY <1>4, <2>1 DEF AllVisited, SubscribeInstall, SubscribeFeatures, GoTo,
            Typed, LoadingTyped, Closed, Idle, Listening, encodeVars
    <2> QED
      BY <2>2, <2>3 DEF Typed
  <1> QED
    BY <1>1, <1>2, <1>3, <1>4 DEF ConstructsEncode, Encodes

LEMMA CallbackTyped ==
    ASSUME Typed, ContextInv, SubscriptionRuns
    PROVE  Typed'
  <1>1. CASE Callback
    <2>1. /\ UNCHANGED <<installed, enabled, changes, pc, schemas, toLoad,
                         parsing, features, refused, missed>>
          /\ UNCHANGED <<processVars, callVars>>
          /\ ctx' = ctx /\ Idle /\ Listening /\ events # <<>>
          /\ fetching' \in {{}, {Head(events).module}}
      BY <1>1 DEF Callback, Kept, Installs, SubscriptionRuns
    <2>2. Head(events).module \in Module
      <3>1. Head(events) \in Event
        BY <2>1 DEF ContextInv, Shape
      <3> QED
        BY <3>1 DEF Event
    <2>3. DaemonTyped' /\ ProcessTyped'
      BY <2>1 DEF Typed, DaemonTyped, ProcessTyped, processVars, callVars, Closed
    <2>4. LoadingTyped'
      BY <2>1, <2>2 DEF Typed, LoadingTyped, Idle, Listening
    <2> QED
      BY <2>3, <2>4 DEF Typed
  <1>2. CASE LoadsReported
    BY <1>2, LoadTyped DEF LoadsReported, SubscriptionRuns
  <1> QED
    BY <1>1, <1>2 DEF CallbackRuns, SubscriptionRuns

\* The rest of the main thread, and calls: the context stays as it is.
LEMMA MainTyped ==
    ASSUME Typed, MainRuns
    PROVE  Typed'
  <1> USE DEF callVars, processVars
  <1>1. CASE ParseOption
    <2>1. CASE ExitsAt(NextOption)
      BY <1>1, <2>1, ExitTyped DEF ParseOption
    <2>2. CASE ~ExitsAt(NextOption)
      <3>1. UNCHANGED <<contextVars, argv, starts, callVars>>
        BY <1>1, <2>2 DEF ParseOption
      <3>2. ProcessTyped'
        BY <3>1 DEF Typed, ProcessTyped, contextVars
      <3> QED
        BY <3>1, <3>2, PlaceTyped DEF contextVars
    <2> QED
      BY <2>1, <2>2
  <1>2. CASE BuildCredentials
    <2>1. CASE Builds(auth)
      <3>1. ProcessTyped' /\ Idle
        BY <1>2, <2>1 DEF BuildCredentials, GoTo, Typed, ProcessTyped,
              LoadingTyped, Listening, Label
      <3> QED
        BY <1>2, <2>1, <3>1, PlaceTyped DEF BuildCredentials, GoTo
    <2>2. CASE ~Builds(auth)
      BY <1>2, <2>2, ExitTyped DEF BuildCredentials
    <2> QED
      BY <2>1, <2>2
  <1>3. CASE Connect
    <2>1. ProcessTyped' /\ Idle
      BY <1>3 DEF Connect, GoTo, Typed, ProcessTyped, LoadingTyped, Listening,
            Label
    <2> QED
      BY <1>3, <2>1, PlaceTyped DEF Connect, GoTo
  <1>4. CASE BuildAndStart
    <2>1. ProcessTyped' /\ Listening'
      BY <1>4 DEF BuildAndStart, GoTo, Typed, ProcessTyped, Listening, Label
    <2> QED
      BY <1>4, <2>1, PlaceTyped DEF BuildAndStart, GoTo
  <1>5. CASE DaemonFails \/ StartsNothing
    BY <1>5, ExitTyped DEF DaemonFails, StartsNothing
  <1>6. CASE ConstructsEncode
    BY <1>6, EncodeTyped
  <1> QED
    BY <1>1, <1>2, <1>3, <1>4, <1>5, <1>6 DEF MainRuns

LEMMA CallsTyped ==
    ASSUME Typed, NEW c \in Client, CallArrives(c) \/ Handles(c)
    PROVE  Typed'
  <1>1. UNCHANGED <<contextVars, processVars>>
    BY DEF CallArrives, Handles, Capabilities, ParseAccepted, ParseRefused,
           StoreTree
  <1>2. offered' \in {offered, installed}
    BY DEF CallArrives, Handles, Capabilities, ParseAccepted, ParseRefused,
           StoreTree
  <1>3. ProcessTyped'
    BY <1>1, <1>2 DEF Typed, ProcessTyped, DaemonTyped, contextVars, processVars
  <1> QED
    BY <1>1, <1>3, PlaceTyped DEF contextVars

LEMMA NextTyped == Typed /\ ContextInv /\ [Next]_vars => Typed'
  <1> SUFFICES ASSUME Typed, ContextInv, [Next]_vars
               PROVE  Typed'
    OBVIOUS
  <1>1. CASE MainRuns
    BY <1>1, MainTyped
  <1>2. CASE SubscriptionRuns
    BY <1>2, CallbackTyped
  <1>3. CASE DaemonRuns
    BY <1>3, DaemonTypedKept
  <1>4. CASE \E c \in Client : CallArrives(c) \/ Handles(c)
    BY <1>4, CallsTyped
  <1>5. CASE Dies
    BY <1>5, ExitTyped DEF Dies
  <1>6. CASE Restart
    <2>1. ProcessTyped' /\ Idle
      BY <1>6, ServerTyped DEF Restart, GoTo, Typed, ProcessTyped,
            LoadingTyped, Listening, Label, callVars
    <2> QED
      BY <1>6, <2>1, PlaceTyped DEF Restart, GoTo
  <1>7. CASE UNCHANGED vars
    <2>1. ProcessTyped'
      BY <1>7 DEF Typed, ProcessTyped, vars, contextVars, processVars, callVars
    <2> QED
      BY <1>7, <2>1, PlaceTyped DEF vars, contextVars
  <1> QED
    BY <1>1, <1>2, <1>3, <1>4, <1>5, <1>6, <1>7 DEF Next

\* The state of the process keeps its type: in particular the context holds
\* with every module what it imports, however loads fail and the daemon's
\* modules go (load_models.cpp:57-75, 94-105), and never a feature of a module
\* that is not in it.
THEOREM ServerTypeCorrect == Spec => []TypeOK
  <1>1. Init => Typed
    BY InitTyped
  <1>2. Typed /\ ContextInv /\ [Next]_vars => Typed'
    BY NextTyped
  <1>3. Typed /\ ContextInv /\ AuthInv => TypeOK
    BY TypedSuffices
  <1>4. Spec => []AuthInv
    BY AuthInit, AuthNext, PTL DEF Spec
  <1> QED
    BY <1>1, <1>2, <1>3, <1>4, ContextInvHolds, PTL DEF Spec
=============================================================================
