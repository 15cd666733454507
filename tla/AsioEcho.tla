------------------------------ MODULE AsioEcho ------------------------------
(***************************************************************************)
(* example/coro/demo_coro_asio.cpp: demo_asio_network(), a server and a    *)
(* client that are coroutines of one io_context, and talk over TCP.  One   *)
(* thread runs both; a step is what a coroutine does between two           *)
(* suspensions.  Bytes are counted: the n-th of one direction is the n-th  *)
(* of the message.  An exception that leaves a coroutine is dropped, it    *)
(* was spawned detached.                                                   *)
(***************************************************************************)
EXTENDS Integers

CONSTANT Message  \* length of msg

ASSUME EchoAssumption == Message \in Nat \ {0}

VARIABLES
    server,     \* "start", "accept", "read", "write" or "over"
    client,     \* "start", "delay", "connect", "write", "read" or "over"
    port,       \* who listens on it: "nobody", "server" or "other", another program
    connection, \* "none", "backlog" before it is accepted, "open", "closed" by the client, or
                \*   "reset" if it closed before it had read everything
    toServer,   \* bytes the client has sent and the server has not read
    toClient,   \* bytes the server has sent and the client has not read
    toEcho,     \* bytes the server has read and not sent back
    reply       \* n, how many bytes the client has read

echoVars == <<server, client, port, connection, toServer, toClient, toEcho, reply>>

\* main() found the port with an acceptor that it has closed again.
EchoInit ==
    /\ server = "start"
    /\ client = "start"
    /\ port = "nobody"
    /\ connection = "none"
    /\ toServer = 0
    /\ toClient = 0
    /\ toEcho = 0
    /\ reply = 0

\* Another program may take the port meanwhile.
TakePort ==
    /\ port = "nobody"
    /\ server = "start"
    /\ port' = "other"
    /\ UNCHANGED <<server, client, connection, toServer, toClient, toEcho, reply>>

-----------------------------------------------------------------------------
(* asio_echo_server() *)

\* run() resumes the server: it was spawned, or what it awaits is there, or has failed.
ServerReady ==
    \/ server = "start"
    \/ server = "accept" /\ connection # "none"
    \/ server = "read" /\ (toServer > 0 \/ connection \in {"closed", "reset"})
    \/ server = "write"

\* The acceptor binds and listens, or throws.
Listen ==
    /\ server = "start" /\ ServerReady
    /\ IF port = "nobody" THEN port' = "server" /\ server' = "accept"
                          ELSE server' = "over" /\ UNCHANGED port
    /\ UNCHANGED <<client, connection, toServer, toClient, toEcho, reply>>

\* A client that has closed again is accepted as well.
Accept ==
    /\ server = "accept" /\ ServerReady
    /\ server' = "read"
    /\ connection' = IF connection = "backlog" THEN "open" ELSE connection
    /\ UNCHANGED <<client, port, toServer, toClient, toEcho, reply>>

\* async_read_some(): some of what has arrived; then the end of the stream, or an error.
ReadSome ==
    /\ server = "read" /\ ServerReady
    /\ \/ /\ connection # "reset"
          /\ \E n \in 1 .. toServer : toEcho' = n /\ toServer' = toServer - n
          /\ server' = "write"
       \/ /\ connection = "reset" \/ (connection = "closed" /\ toServer = 0)
          /\ server' = "over"
          /\ UNCHANGED <<toEcho, toServer>>
    /\ UNCHANGED <<client, port, connection, toClient, reply>>

\* A mistake that the property below must tell from the code: write_some().
Bug_WriteEcho ==
    /\ server = "write"
    /\ \E n \in 1 .. toEcho : toClient' = toClient + n
    /\ toEcho' = 0
    /\ server' = "read"
    /\ UNCHANGED <<client, port, connection, toServer, reply>>

\* async_write(): all of it, in pieces.  What is sent to a client that has closed is lost, and
\* its system answers with a reset; what comes after that is an error.
WriteEcho ==
    /\ server = "write" /\ ServerReady
    /\ \/ /\ connection # "reset"
          /\ \E n \in 1 .. toEcho :
                /\ toEcho' = toEcho - n
                /\ toClient' = IF connection = "open" THEN toClient + n ELSE toClient
                /\ server' = IF n = toEcho THEN "read" ELSE "write"
          /\ connection' = IF connection = "open" THEN "open" ELSE "reset"
       \/ /\ connection = "reset"
          /\ server' = "over"
          /\ UNCHANGED <<connection, toClient, toEcho>>
    /\ UNCHANGED <<client, port, toServer, reply>>

-----------------------------------------------------------------------------
(* asio_echo_client() *)

\* run() resumes the client, which was spawned after the server.
ClientReady ==
    \/ client = "start" /\ server # "start"
    \/ client \in {"delay", "connect", "write"}
    \/ client = "read" /\ toClient > 0

\* It waits until the timer expires.
BeginClient ==
    /\ client = "start" /\ ClientReady
    /\ client' = "delay"
    /\ UNCHANGED <<server, port, connection, toServer, toClient, toEcho, reply>>

Expire ==
    /\ client = "delay" /\ ClientReady
    /\ client' = "connect"
    /\ UNCHANGED <<server, port, connection, toServer, toClient, toEcho, reply>>

\* The system completes the connection before it is accepted.  It may fail, and it does if
\* nobody listens; what another program that listens may do is left out.
Connect ==
    /\ client = "connect" /\ ClientReady
    /\ \/ port = "server" /\ client' = "write" /\ connection' = "backlog"
       \/ client' = "over" /\ UNCHANGED connection
    /\ UNCHANGED <<server, port, toServer, toClient, toEcho, reply>>

\* async_write() of the message
SendMessage ==
    /\ client = "write" /\ ClientReady
    /\ client' = "read"
    /\ toServer' = Message
    /\ UNCHANGED <<server, port, connection, toClient, toEcho, reply>>

\* One async_read_some(), and close(): with bytes unread that is a reset.
ReadReply ==
    /\ client = "read" /\ ClientReady
    /\ \E n \in 1 .. toClient :
          /\ reply' = n
          /\ toClient' = toClient - n
    /\ connection' = IF toClient' > 0 THEN "reset" ELSE "closed"
    /\ client' = "over"
    /\ UNCHANGED <<server, port, toServer, toEcho>>

EchoNext ==
    \/ TakePort
    \/ Listen \/ Accept \/ ReadSome \/ WriteEcho
    \/ BeginClient \/ Expire \/ Connect \/ SendMessage \/ ReadReply

EchoSpec == EchoInit /\ [][EchoNext]_echoVars

-----------------------------------------------------------------------------
(* Properties *)

EchoTypeOK ==
    /\ server \in {"start", "accept", "read", "write", "over"}
    /\ client \in {"start", "delay", "connect", "write", "read", "over"}
    /\ connection \in {"none", "backlog", "open", "closed", "reset"}
    /\ {toServer, toClient, toEcho, reply} \subseteq 0 .. Message
    /\ server = "write" => toEcho > 0

\* As long as both are there no byte is lost between them or made up.
BytesKept ==
    client = "read" => /\ connection \in {"backlog", "open"}
                       /\ toServer + toEcho + toClient = Message

\* The server is over only after the client, unless it never listened: whatever the pieces
\* in which the bytes arrive, the client gets the beginning of its message at least, and
\* what it had not read by then is not missed by anyone.
ServerOutlivesClient ==
    server = "over" => \/ port = "other" /\ connection = "none"
                       \/ client = "over" /\ reply > 0

\* run() returns when both are over, and it does return unless the client could not connect
\* to a server that listens, which then accepts for ever.
RunReturnsUnlessAlone ==
    ~(\/ server = "over" /\ client = "over"
      \/ server = "accept" /\ client = "over" /\ connection = "none")
    => ServerReady \/ ClientReady

\* The client reads the beginning of its message, and the server serves until it is gone.
EchoCorrect == EchoTypeOK /\ BytesKept /\ ServerOutlivesClient /\ RunReturnsUnlessAlone
=============================================================================
