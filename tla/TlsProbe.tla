------------------------------- MODULE TlsProbe -------------------------------
(***************************************************************************)
(* tls.rs: probe_tls sends one hand-made ClientHello, reads once and takes *)
(* what it finds at fixed offsets of what it read for the server's choice. *)
(* compare_tls does it twice.                                              *)
(*                                                                         *)
(* A reply is what a server sends and how many of its bytes the one read   *)
(* returns; its bytes matter only at the offsets that are looked at.       *)
(***************************************************************************)
EXTENDS Integers, Sequences

CONSTANTS
    Servers,    \* the servers there are
    Tasks,      \* the servers probed by a call: one, or two that are compared
    Prefixes    \* how many bytes a read may return

\* A server: the version and cipher suite it chooses, the length of the
\* session id it echoes, how many bytes of other extensions come before
\* supported_versions, whether bytes of its reply look like that extension by
\* chance, and whether it checks the ClientHello it is sent.
Ciphers == {"AES", "CHACHA20", "CBC"}
ServerKinds ==
    [version : {"1.0", "1.1", "1.2", "1.3"}, cipher : Ciphers, sid : {0, 32},
     before : Nat, stray : BOOLEAN, strict : BOOLEAN]

ASSUME ServersAssumption ==
    /\ Servers \subseteq ServerKinds
    /\ Tasks \subseteq Seq(Servers) \ {<<>>}
    /\ Prefixes \subseteq Nat \ {0}

VARIABLES
    tls_task,   \* the servers still to be probed
    tls_at,
    tls_done    \* the TlsProbeResults, with the server and what was read

tlsVars == <<tls_task, tls_at, tls_done>>

----------------------------------------------------------------------------
(* build_client_hello.                                                      *)

\* The extensions of the ClientHello for a name of n bytes: the length each
\* one declares and the bytes that follow it.
Extensions(n) ==
    << [name |-> "server_name", declares |-> n + 5, carries |-> 2 + 1 + 2 + n],
       [name |-> "supported_versions", declares |-> 5, carries |-> 1 + 2 + 2],
       [name |-> "alpn", declares |-> 11, carries |-> 2 + 3 + 9] >>

WellFormed(es) == \A i \in 1..Len(es) : es[i].declares = es[i].carries

----------------------------------------------------------------------------
(* parse_tls_version and parse_cipher_suite, of the first n bytes of a      *)
(* reply [kind, server].                                                    *)

\* Offsets in a record with a ServerHello: 5 bytes of record header, 4 of
\* handshake header, 2 of version (9, 10), 32 of random, the session id's
\* length (43) and the session id; then the cipher suite, the compression
\* method, the length of the extensions and the extensions.
CipherAt(s) == 44 + s.sid
ExtensionsAt(s) == CipherAt(s) + 5

\* Mutant of Cipher: the session id is not skipped.
CipherUnskipped(r, n) ==
    IF n < 44 \/ r.kind # "hello" \/ n <= 45 THEN "none"
    ELSE IF r.server.sid = 0 THEN r.server.cipher ELSE "other"

Cipher(r, n) ==
    IF n < 44 \/ r.kind # "hello" \/ n <= CipherAt(r.server) + 1 THEN "none"
    ELSE r.server.cipher

\* find_tls13_indicator: any four bytes that begin like supported_versions,
\* and any two that say 1.3.
LooksLike13(r, n) ==
    \/ r.server.stray
    \/ /\ r.server.version = "1.3"
       /\ n >= ExtensionsAt(r.server) + r.server.before + 6

\* The version a ServerHello has at its fixed place: 1.3 hides behind 1.2.
Legacy(s) == IF s.version = "1.3" THEN "1.2" ELSE s.version

\* data[10] is read of ten bytes.
Panics(r, n) == r.kind = "hello" /\ n = 10

Version(r, n) ==
    CASE n <= 9 \/ r.kind # "hello" -> "unknown"
      [] /\ n > 50 /\ r.kind = "hello"
         /\ Legacy(r.server) = "1.2" /\ LooksLike13(r, n) -> "1.3"
      [] OTHER -> Legacy(r.server)

----------------------------------------------------------------------------
(* Actions.                                                                 *)

Server == Head(tls_task)

\* A result, with the server it is of and the reply it was read from.
Result(success, version, cipher, reply) ==
    [server |-> Server, success |-> success, version |-> version,
     cipher |-> cipher, reply |-> reply]

Failure == Result(FALSE, "unknown", "none", "nothing")

TlsInit ==
    /\ tls_task \in Tasks
    /\ tls_at = "resolve"
    /\ tls_done = <<>>

\* The probe of this server is over; compare_tls goes on to the next.
Ended(result) ==
    /\ tls_done' = Append(tls_done, result)
    /\ tls_task' = Tail(tls_task)
    /\ tls_at' = IF Tail(tls_task) = <<>> THEN "done" ELSE "resolve"

\* dns::resolve_ipv4 gives an IPv4 address.
TlsResolves ==
    /\ tls_at = "resolve"
    /\ tls_at' = "connect"
    /\ UNCHANGED <<tls_task, tls_done>>

\* It does not: compare_tls ends with the error as well.
TlsUnresolved ==
    /\ tls_at = "resolve"
    /\ tls_at' = "failed"
    /\ UNCHANGED <<tls_task, tls_done>>

Connects ==
    /\ tls_at = "connect"
    /\ tls_at' = "hello"
    /\ UNCHANGED <<tls_task, tls_done>>

\* A connect that fails or times out, a ClientHello that cannot be written,
\* a read that fails, ends the connection or times out.
TlsFails ==
    /\ tls_at \in {"connect", "hello", "read"}
    /\ Ended(Failure)

\* The ClientHello is written.
SaysHello ==
    /\ tls_at = "hello"
    /\ tls_at' = "read"
    /\ UNCHANGED <<tls_task, tls_done>>

\* What the server answers: a server that checks what it is sent answers a
\* malformed ClientHello with an alert, a record of seven bytes.
Reply ==
    IF Server.strict /\ ~WellFormed(Extensions(11))
    THEN [kind |-> "alert", server |-> Server]
    ELSE [kind |-> "hello", server |-> Server]

\* read returns the first n bytes.
Reads ==
    /\ tls_at = "read"
    /\ \E n \in Prefixes :
          /\ Reply.kind = "alert" => n <= 7
          /\ \/ /\ Panics(Reply, n)
                /\ tls_at' = "panicked"
                /\ UNCHANGED <<tls_task, tls_done>>
             \/ /\ ~Panics(Reply, n)
                /\ Ended(Result(TRUE, Version(Reply, n), Cipher(Reply, n),
                                  Reply.kind))

TlsNext ==
    \/ TlsResolves \/ TlsUnresolved \/ Connects \/ SaysHello \/ Reads \/ TlsFails

TlsSpec == TlsInit /\ [][TlsNext]_tlsVars

----------------------------------------------------------------------------
(* Properties.                                                              *)

Modern(result) == result.version \in {"1.2", "1.3"}

\* TlsComparison
SameVersion == tls_done[1].version = tls_done[2].version
SameCipher == tls_done[1].cipher = tls_done[2].cipher
BothModern == Modern(tls_done[1]) /\ Modern(tls_done[2])

\* However little of its reply one read returns, a server is not taken for
\* one with another cipher suite, or for one of another version: except 1.3
\* for 1.2 when the reply comes in pieces, and 1.2 for 1.3 by chance.  The
\* cipher suite is not known without the version.  A comparison finds a
\* difference only between different servers, or where a read came short.
ReportIsOfTheServer ==
    /\ \A i \in 1..Len(tls_done) :
          LET res == tls_done[i]
              s == res.server
          IN  /\ res.version # "unknown" \/ res.cipher # "none" =>
                    res.success /\ res.reply = "hello"
              /\ \/ res.version \in {"unknown", s.version}
                 \/ s.version = "1.3" /\ res.version = "1.2"
                 \/ s.version = "1.2" /\ res.version = "1.3" /\ s.stray
              /\ res.cipher # "none" =>
                    res.cipher = s.cipher /\ res.version # "unknown"
    /\ tls_at = "done" /\ Len(tls_done) = 2 =>
          /\ BothModern => tls_done[1].success /\ tls_done[2].success
          /\ tls_done[1].server = tls_done[2].server /\ ~SameCipher =>
                \E i \in 1..2 : tls_done[i].cipher = "none"

\* "Whether handshake succeeded": a success is a reply that goes on with the
\* handshake, no alert that ends it.
SuccessIsHandshake ==
    \A i \in 1..Len(tls_done) :
        tls_done[i].success => tls_done[i].reply = "hello"

=============================================================================
