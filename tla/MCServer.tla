------------------------------ MODULE MCServer ------------------------------
(***************************************************************************)
(* Server on small instances: two modules of which one imports the other,  *)
(* and command lines for every method and every way to be turned down.     *)
(***************************************************************************)
EXTENDS Server

CONSTANTS a, b      \* the modules; b imports a

BImportsA == [m \in {a, b} |-> IF m = b THEN {a} ELSE {}]

Values == {"", "alice", "bob", "secret", "key.pem", "cert.pem", "ca.pem", "9"}

Readable == {"key.pem", "cert.pem"}

Levels == {"9"}

Opt(flag, arg) == [flag |-> flag, arg |-> arg]

Tls0 == <<Opt("-k", "key.pem"), Opt("-c", "cert.pem")>>

MutualLine == <<Opt("-f", "")>> \o Tls0

UserPassLine ==
    Tls0 \o <<Opt("-u", "bob"), Opt("-p", "secret"), Opt("-u", "alice")>>

InsecureLine == <<Opt("-f", ""), Opt("-u", "alice"), Opt("-p", "secret")>>

CommandLines ==
    {MutualLine, UserPassLine, InsecureLine,
     Tls0 \o <<Opt("-u", "alice")>>,
     <<Opt("-f", "")>> \o Tls0 \o <<Opt("-u", "alice")>>,
     Tls0 \o <<Opt("-r", "ca.pem")>>,
     <<Opt("-l", "9")>>, <<Opt("-h", "")>>}

Credentials(u, p) == [username |-> u, password |-> p]

AllClients == {"plain", "certified", "right", "wrong"}

Presented ==
    [plain |-> [tls |-> FALSE, certificate |-> FALSE,
                metadata |-> Credentials("alice", "secret")],
     certified |-> [tls |-> TRUE, certificate |-> TRUE, metadata |-> <<>>],
     right |-> [tls |-> TRUE, certificate |-> FALSE,
                metadata |-> Credentials("alice", "secret")],
     wrong |-> [tls |-> TRUE, certificate |-> FALSE,
                metadata |-> Credentials("alice", "")]]

PresentedBy == [c \in Client |-> Presented[c]]
=============================================================================
