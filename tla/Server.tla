------------------------------- MODULE Server -------------------------------
(***************************************************************************)
(* The server process: main and RunServer (src/src/main.cpp), the          *)
(* constructor of GNMIService (src/src/gnmi/gnmi.h), the handlers as far   *)
(* as they depend on the libyang context, and the process's deaths and     *)
(* restarts.  The main thread, the thread of the sysrepo subscription, one *)
(* thread per call and the daemon all run at once.                         *)
(***************************************************************************)
EXTENDS SchemaContext, Authentication

CONSTANTS
    CommandLine,    \* the command lines the server may be started with
    Client,         \* its clients, each with at most one call at a time
    Presents,       \* what each client presents
    NoLevel,        \* the arguments of -l of which atoi makes no log level
    MaxStarts       \* how often the process is started

ASSUME ServerTyped ==
    /\ NoLevel \subseteq Value
    /\ CommandLine \subseteq Seq(Option)
    /\ Presents \in [Client -> Call]
    /\ MaxStarts \in Nat \ {0}

VARIABLES
    argv,       \* the options the process was started with
    optind,     \* how many of them getopt_long has returned
    starts,     \* how often the process was started
    handler,    \* what the handler of each client's call does next
    offered     \* the models the last Capabilities response listed

processVars == <<argv, optind, starts, auth>>
callVars == <<handler, offered>>
vars == <<contextVars, processVars, callVars>>

NoCall == [at |-> "none", module |-> "none"]

Handler ==
    {NoCall, [at |-> "capabilities", module |-> "none"]} \cup
    [at : {"parse", "store"}, module : Module]

Init ==
    /\ ContextInit
    /\ pc = "options" /\ argv \in CommandLine /\ optind = 0 /\ starts = 1
    /\ auth = NewAuth
    /\ handler = [c \in Client |-> NoCall] /\ offered = {}

-----------------------------------------------------------------------------
(***************************************************************************)
(* The main thread.                                                        *)
(***************************************************************************)

\* The process has ended, and with it all that it held.
Exit ==
    /\ pc' = "exited"
    /\ LosesContext
    /\ auth' = NewAuth
    /\ handler' = [c \in Client |-> NoCall] /\ offered' = {}
    /\ UNCHANGED <<argv, optind, starts>>

NextOption == argv[optind + 1]

\* `-h' and what is not understood show the usage; setLevel exits too.
ExitsAt(o) ==
    \/ o.flag \in {"-h", "-?"}
    \/ o.flag = "-l" /\ o.arg \in NoLevel

ParseOption ==
    /\ pc = "options" /\ optind < Len(argv)
    /\ IF ExitsAt(NextOption) THEN Exit
       ELSE /\ optind' = optind + 1
            /\ auth' = WithOption(auth, NextOption)
            /\ UNCHANGED <<contextVars, argv, starts, callVars>>

\* AuthBuilder::build, before RunServer is entered.
BuildCredentials ==
    /\ pc = "options" /\ optind = Len(argv)
    /\ IF Builds(auth)
       THEN GoTo("connect")
            /\ UNCHANGED <<daemonVars, encodeVars, refused, missed,
                           processVars, callVars>>
       ELSE Exit

\* The sysrepo connection and session of GNMIService.
Connect ==
    /\ pc = "connect" /\ GoTo("list")
    /\ UNCHANGED <<daemonVars, encodeVars, refused, missed,
                   processVars, callVars>>

\* The daemon does not answer to Connection, Session, list_schemas or one
\* of the two subscriptions: all of these exit.
DaemonFails ==
    /\ pc \in {"connect", "list", "subscribe", "subscribe_features"}
    /\ Exit

ConstructsEncode == Encodes /\ UNCHANGED <<processVars, callVars>>

BuildAndStart ==
    /\ pc = "listen" /\ GoTo("serving")
    /\ UNCHANGED <<daemonVars, encodeVars, refused, missed,
                   processVars, callVars>>

\* BuildAndStart returns a null pointer when it cannot listen on the address
\* or use the credentials, and server->Wait() is called on it.
StartsNothing == pc = "listen" /\ Exit

MainRuns ==
    \/ ParseOption \/ BuildCredentials \/ Connect \/ DaemonFails
    \/ ConstructsEncode \/ BuildAndStart \/ StartsNothing

\* The process is killed, or crashes; an operator starts it again.
Dies == pc # "exited" /\ Exit

Restart ==
    /\ pc = "exited" /\ starts < MaxStarts
    /\ starts' = starts + 1
    /\ argv' \in CommandLine /\ optind' = 0
    /\ GoTo("options")
    /\ UNCHANGED <<daemonVars, encodeVars, refused, missed, auth, callVars>>

-----------------------------------------------------------------------------
(***************************************************************************)
(* Calls.  Set's handler parses a JSON value with the context (parse), and *)
(* then stores the nodes it got, which point into their schema (store).    *)
(***************************************************************************)
Admitted(c, terminated) ==
    /\ Transport(Presents[c], auth)
    /\ Method(auth) = "USERPASS_TLS" => Process(Presents[c], auth, terminated)

CallArrives(c) ==
    /\ pc = "serving" /\ handler[c] = NoCall
    /\ \E terminated \in BOOLEAN : Admitted(c, terminated)
    /\ handler' \in {[handler EXCEPT ![c] = h] : h \in
            {[at |-> "capabilities", module |-> "none"]} \cup
            [at : {"parse"}, module : Module]}
    /\ UNCHANGED <<contextVars, processVars, offered>>

Answer(c) == handler' = [handler EXCEPT ![c] = NoCall]

\* Capabilities asks the daemon, not the context, for the models.  With an
\* extension, or when list_schemas throws, it answers with an error.
Capabilities(c) ==
    /\ handler[c].at = "capabilities" /\ Answer(c)
    /\ offered' \in {offered, installed}
    /\ UNCHANGED <<contextVars, processVars>>

ParseAccepted(c) ==
    /\ handler[c].at = "parse" /\ handler[c].module \in ctx
    /\ handler' = [handler EXCEPT ![c].at = "store"]
    /\ UNCHANGED <<contextVars, processVars, offered>>

\* The value is not one of a module of the context; while a callback changes
\* the context, what the parser makes of it is undefined, Dies included.
ParseRefused(c) ==
    /\ handler[c].at = "parse" /\ Answer(c)
    /\ handler[c].module \notin ctx \/ parsing # {}
    /\ UNCHANGED <<contextVars, processVars, offered>>

StoreTree(c) ==
    /\ handler[c].at = "store" /\ Answer(c)
    /\ UNCHANGED <<contextVars, processVars, offered>>

Handles(c) ==
    Capabilities(c) \/ ParseAccepted(c) \/ ParseRefused(c) \/ StoreTree(c)

-----------------------------------------------------------------------------
DaemonRuns == DaemonChanges /\ UNCHANGED <<processVars, callVars>>

SubscriptionRuns == CallbackRuns /\ UNCHANGED <<processVars, callVars>>

Next ==
    \/ MainRuns \/ SubscriptionRuns \/ DaemonRuns
    \/ \E c \in Client : CallArrives(c) \/ Handles(c)
    \/ Dies \/ Restart

Spec == Init /\ [][Next]_vars

\* Every thread of the server keeps running; the daemon, the clients and the
\* operator owe nothing.
Fairness ==
    /\ WF_vars(MainRuns)
    /\ WF_vars(SubscriptionRuns)
    /\ \A c \in Client : WF_vars(Handles(c))

FairSpec == Spec /\ Fairness

-----------------------------------------------------------------------------
Label ==
    {"options", "connect", "list", "load", "subscribe", "subscribe_features",
     "listen", "serving", "exited"}

TypeOK ==
    /\ ContextTypeOK
    /\ pc \in Label
    /\ argv \in CommandLine /\ optind \in 0 .. Len(argv)
    /\ starts \in 1 .. MaxStarts
    /\ auth \in AuthBuilder
    /\ handler \in [Client -> Handler]
    /\ offered \subseteq Module

(***************************************************************************)
(* Nodes in use keep their schema: the module a stored value was parsed    *)
(* with stays in the context until the handler is done, even when the      *)
(* daemon uninstalls the module meanwhile (json_ietf.cpp:38-55, the node's *)
(* schema pointers; runtime.cpp:81-83).                                    *)
(***************************************************************************)
SchemasInUseStay ==
    \A c \in Client : handler[c].at = "store" => handler[c].module \in ctx

(***************************************************************************)
(* Callers are held to what the command line says, the last value of an    *)
(* option counting.  In clear text they are served only with -f, and not   *)
(* even then if the options for TLS are complete: a key, a certificate,    *)
(* and both or neither of user and password.  Over TLS they are served     *)
(* only if those are complete; they have a certificate when there is no    *)
(* user and password, and otherwise present exactly the two                *)
(* (main.cpp:104-142, authentication.cpp:83-194).                          *)
(***************************************************************************)
Given(line, flag) ==
    LET at == {i \in 1 .. Len(line) : line[i].flag = flag} IN
    IF at = {} THEN ""
    ELSE line[CHOOSE i \in at : \A j \in at : j <= i].arg

TlsIsComplete(line) ==
    /\ Given(line, "-k") # "" /\ Given(line, "-c") # ""
    /\ Given(line, "-u") = "" <=> Given(line, "-p") = ""

Allows(line, call) ==
    /\ call.tls <=> TlsIsComplete(line)
    /\ ~call.tls => \E i \in 1 .. Len(line) : line[i].flag = "-f"
    /\ call.tls => IF Given(line, "-u") = "" THEN call.certificate
                   ELSE call.metadata = [username |-> Given(line, "-u"),
                                         password |-> Given(line, "-p")]

CallersAsConfigured ==
    \A c \in Client : handler[c] # NoCall => Allows(argv, Presents[c])

(***************************************************************************)
(* Starting up comes to an end, whatever the daemon does meanwhile and     *)
(* whichever loads fail: the process serves, or it has exited              *)
(* (main.cpp:32-49, load_models.cpp:79-117).                               *)
(***************************************************************************)
StartupEnds == []<>(pc \in {"serving", "exited"})

(***************************************************************************)
(* A model that a client was told of becomes usable: while the process     *)
(* lives and the daemon keeps the module, it gets into the context, unless *)
(* loading it failed, or it was installed in the gap of the constructor    *)
(* (capabilities.cpp:40-46, load_models.cpp:51-114, runtime.cpp:35-65).    *)
(***************************************************************************)
Unavailable(m) == m \notin offered \/ m \notin installed

OfferedBecomesUsable ==
    \A m \in Module :
        m \in offered ~> m \in ctx \cup refused \cup missed \/ Unavailable(m)
=============================================================================
