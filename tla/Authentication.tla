--------------------------- MODULE Authentication ---------------------------
(***************************************************************************)
(* How the server authenticates its callers: the options of main that set  *)
(* up an AuthBuilder, the method that AuthBuilder::build chooses, and what *)
(* that method asks of a call (src/src/main.cpp,                           *)
(* src/src/security/authentication.cpp).                                   *)
(***************************************************************************)
EXTENDS Naturals, Sequences

CONSTANTS
    File,       \* the files that can be read when the server starts
    Value       \* the option arguments and metadata values, "" among them

ASSUME NoValue == "" \in Value

VARIABLE auth   \* the AuthBuilder of main

Setters == {"-u", "-p", "-k", "-c", "-r"}

\* `-?' stands for an option getopt_long does not know or finds incomplete.
Option == [flag : Setters \cup {"-f", "-h", "-?", "-b", "-l"}, arg : Value]

AuthBuilder ==
    [username : Value, password : Value, private_key_path : Value,
     cert_path : Value, root_cert_path : Value, insecure : BOOLEAN]

NewAuth ==
    [username |-> "", password |-> "", private_key_path |-> "",
     cert_path |-> "", root_cert_path |-> "", insecure |-> FALSE]

\* The field each option's setter assigns.
SetBy(flag) ==
    CASE flag = "-u" -> "username"
      [] flag = "-p" -> "password"
      [] flag = "-k" -> "private_key_path"
      [] flag = "-c" -> "cert_path"
      [] flag = "-r" -> "root_cert_path"

\* The builder after one more option: an option given twice is overwritten.
WithOption(a, o) ==
    IF o.flag \in Setters THEN [a EXCEPT ![SetBy(o.flag)] = o.arg]
    ELSE IF o.flag = "-f" THEN [a EXCEPT !.insecure = TRUE]
    ELSE a

Tls(a) == a.private_key_path # "" /\ a.cert_path # ""

\* Mutant of Method: a password is asked for when there is either of the two.
MethodEither(a) ==
    CASE Tls(a) /\ a.username = "" /\ a.password = "" -> "MUTUAL_TLS"
      [] Tls(a) /\ (a.username # "" \/ a.password # "") -> "USERPASS_TLS"
      [] ~Tls(a) /\ a.insecure -> "INSECURE"
      [] OTHER -> "UNSUPPORTED"

\* The branch AuthBuilder::build takes; it exits when it finds none.
Method(a) ==
    CASE Tls(a) /\ a.username = "" /\ a.password = "" -> "MUTUAL_TLS"
      [] Tls(a) /\ a.username # "" /\ a.password # "" -> "USERPASS_TLS"
      [] ~(Tls(a) /\ (a.username = "" <=> a.password = "")) /\ a.insecure ->
             "INSECURE"
      [] OTHER -> "UNSUPPORTED"

\* The files SslCredentialsHelper reads; GetFileContent exits without one.
FilesRead(a) ==
    IF Method(a) \in {"MUTUAL_TLS", "USERPASS_TLS"}
    THEN {a.private_key_path, a.cert_path, a.root_cert_path} \ {""}
    ELSE {}

Builds(a) == Method(a) # "UNSUPPORTED" /\ FilesRead(a) \subseteq File

-----------------------------------------------------------------------------
(***************************************************************************)
(* A call, as its client makes it: over TLS or not, with a certificate     *)
(* that verifies or without, and with the metadata it sends, if it sends   *)
(* them.  grpc itself (external) lets through what the transport allows.   *)
(***************************************************************************)
Metadata == UNION {[S -> Value] : S \in SUBSET {"username", "password"}}

Call == [tls : BOOLEAN, certificate : BOOLEAN, metadata : Metadata]

Transport(call, a) ==
    CASE Method(a) = "INSECURE" -> ~call.tls
      [] Method(a) = "USERPASS_TLS" -> call.tls
      [] Method(a) = "MUTUAL_TLS" -> call.tls /\ call.certificate
      [] OTHER -> FALSE

\* UserPassAuthenticator::Process returns OK.  The metadata are compared up
\* to the first NUL in memory (string_ref::data), so that a value is read as
\* it was sent only if one follows it: `terminated'.
Process(call, a, terminated) ==
    /\ {"username", "password"} \subseteq DOMAIN call.metadata
    /\ terminated
    /\ call.metadata["password"] = a.password
    /\ call.metadata["username"] = a.username
=============================================================================
