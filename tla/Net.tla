-------------------------------- MODULE Net --------------------------------
(***************************************************************************)
(* The socket layer of apps/korix/src/net.rs, as functions on the stack    *)
(* that STACK protects.  What smoltcp does with a socket is external: a    *)
(* TCP connection is made or not, and packets come and connections end     *)
(* whenever the interface is polled.                                       *)
(***************************************************************************)
EXTENDS Naturals, FiniteSets, TLC

CONSTANTS MaxSocket,     \* socket ids given out
          MaxQueue       \* packets waiting in a socket

SocketKind == {"Tcp", "Udp"}

\* The stack, which install has put in place: the next id, and the sockets by id.  link is
\* the connection of a TCP socket: "closed", "syn" (asked for), "up" or "half" (the peer has
\* ended it).
EmptyStack == [next |-> 1, states |-> <<>>]
IsOpen(net, id) == id \in DOMAIN net.states

\* socket: an id that was never used before.  It is spent also when a UDP socket is not
\* bound to its port.
NewSocket(net, kind, bound) ==
  CASE kind \notin SocketKind -> [result |-> "ESOCKTNOSUPPORT", net |-> net]
    [] kind = "Udp" /\ ~bound -> [result |-> "EADDRINUSE", net |-> [net EXCEPT !.next = @ + 1]]
    [] OTHER ->
         [result |-> "ok",
          net |-> [next |-> net.next + 1,
                   states |-> (net.next :> [kind |-> kind, remote |-> FALSE,
                                            link |-> "closed", queue |-> 0]) @@ net.states]]

\* close
CloseSocket(net, id) == [net EXCEPT !.states = [i \in DOMAIN @ \ {id} |-> @[i]]]

\* connect: the remote is noted first; a TCP connection is made within the timeout, or
\* refused, or still asked for then.  The lock is held until then.
Connect(net, id, link) ==
  CASE ~IsOpen(net, id) -> [result |-> "EBADF", net |-> net]
    [] IsOpen(net, id) /\ net.states[id].kind = "Udp" ->
         [result |-> "ok", net |-> [net EXCEPT !.states[id].remote = TRUE]]
    [] IsOpen(net, id) /\ net.states[id].kind = "Tcp" ->
         IF net.states[id].link # "closed"
         THEN [result |-> "ECONNREFUSED", net |-> [net EXCEPT !.states[id].remote = TRUE]]
         ELSE [result |-> IF link = "up" THEN "ok" ELSE "ETIMEDOUT",
               net |-> [net EXCEPT !.states[id].remote = TRUE, !.states[id].link = link]]

\* send; a destination stays the socket's remote.
Send(net, id, destination) ==
  CASE ~IsOpen(net, id) -> [result |-> "EBADF", net |-> net]
    [] IsOpen(net, id) /\ net.states[id].kind = "Tcp" ->
         [result |-> IF net.states[id].link \in {"up", "half"} THEN "ok" ELSE "EPIPE", net |-> net]
    [] IsOpen(net, id) /\ net.states[id].kind = "Udp" ->
         IF destination \/ net.states[id].remote
         THEN [result |-> "ok", net |-> [net EXCEPT !.states[id].remote = TRUE]]
         ELSE [result |-> "EDESTADDRREQ", net |-> net]

\* One turn of recv's loop: data, the end of a connection, or "again".
RecvTurn(net, id) ==
  CASE ~IsOpen(net, id) -> [result |-> "EBADF", net |-> net]
    [] IsOpen(net, id) /\ net.states[id].queue > 0 ->
         [result |-> "data", net |-> [net EXCEPT !.states[id].queue = @ - 1]]
    [] IsOpen(net, id) /\ net.states[id].queue = 0 ->
         [result |-> IF net.states[id].kind = "Tcp" /\ net.states[id].link # "up"
                     THEN "end" ELSE "again", net |-> net]

\* has_data
HasData(net, id) ==
  IsOpen(net, id) /\ (net.states[id].queue > 0
                      \/ (net.states[id].kind = "Tcp" /\ net.states[id].link # "up"))

\* What a poll of the interface brings in: a packet for a bound or connected socket, the
\* late answer to a connection asked for, or the peer's end of one.
Arrive(net, id) == [net EXCEPT !.states[id].queue = @ + 1]
CanArrive(net, id) == /\ IsOpen(net, id) /\ net.states[id].queue < MaxQueue
                      /\ (net.states[id].kind = "Udp" \/ net.states[id].link = "up")
Answers(net, id) ==
  CASE net.states[id].link = "syn" -> {"up", "closed"}
    [] net.states[id].link = "up"  -> {"half"}
    [] OTHER                       -> {}
PeerAnswers(net, id, link) == [net EXCEPT !.states[id].link = link]
=============================================================================
