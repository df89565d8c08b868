----------------------------- MODULE PicoClient -----------------------------
(***************************************************************************)
(* The example client of picocoap (picocoap/examples/posix/client.c): open  *)
(* a socket, then for ever send a request, wait for one datagram, compare   *)
(* it with the request and sleep.  There is no timeout and no retry; every  *)
(* round sends one datagram and takes one from the socket.                  *)
(*                                                                          *)
(* flight holds the requests that may still be answered, socket the         *)
(* datagrams waiting in the receive buffer.  An answer carries as history   *)
(* the age of its request: how many requests were sent after it.  The       *)
(* client never connects its socket and receives into the address it sends  *)
(* to, so peer is whoever sent the last datagram it took.  Anybody can send *)
(* it datagrams, and its requests may go to a host that is not the server.  *)
(***************************************************************************)
EXTENDS Integers, Sequences

CONSTANTS
  MidSpace,  \* message ids are 0..MidSpace-1 (2^16 in the code)
  RandMids,  \* what rand() may make the first message id
  Tokens,    \* what rand() may make a token
  StrayMids, \* message ids of datagrams that answer no request
  Lifetime,  \* the network delivers nothing for a request older than this
  Backlog    \* datagrams the receive buffer of the socket holds

Mids == 0..(MidSpace - 1)

ASSUME MidAssumption == /\ MidSpace \in Nat \ {0}
                        /\ RandMids \subseteq Mids /\ StrayMids \subseteq Mids
ASSUME TokenAssumption == Tokens \subseteq Nat
ASSUME NetworkAssumption == Lifetime \in Nat /\ Backlog \in Nat

\* At a request a second, 247 s of COAP_EXCHANGE_LIFETIME and a receive
\* buffer of some hundred kilobytes stay below 2^16 requests.
ASSUME AgeAssumption == Lifetime + Backlog < MidSpace

VARIABLES
  pc,                  \* where main() is
  message_id_counter,
  msg_send,            \* mid and token of the last request
  peer,                \* *q->ai_addr
  flight,
  socket,
  lost                 \* history: a request to the server, or its only
                       \* answer, was lost

client == <<pc, message_id_counter, msg_send, peer>>
vars == <<client, flight, socket, lost>>

Hosts == {"server", "other"}

Requests == [to : Hosts, mid : Mids, token : Nat, age : Nat, answered : BOOLEAN]

\* What the socket holds: an answer, CoAP that answers no request of the
\* client ("stray"), or bytes coap_validate_pkt refuses ("noise").
Datagrams == [from : Hosts, kind : {"answer", "stray", "noise"}, mid : Mids,
              token : Nat, age : Nat]

Answer(r) == [from |-> r.to, kind |-> "answer", mid |-> r.mid,
              token |-> r.token, age |-> r.age]

\* What nobody asked for.  It answers nothing, so it has no age.
Unasked ==
  [from : Hosts, kind : {"stray"}, mid : StrayMids, token : Tokens, age : {0}]
  \cup
  [from : Hosts, kind : {"noise"}, mid : StrayMids, token : {0}, age : {0}]

\* message_id_counter++ on a uint16_t.
NextMid(x) == IF x = MidSpace - 1 THEN 0 ELSE x + 1

Init ==
  /\ pc = "setup"
  /\ message_id_counter \in RandMids
  /\ msg_send = [mid |-> 0, token |-> 0]
  /\ peer = "server"
  /\ flight = {}
  /\ socket = <<>>
  /\ lost = FALSE

-----------------------------------------------------------------------------
(* The program.                                                             *)

\* getaddrinfo and socket succeed for one of the addresses.
Open == pc = "setup" /\ pc' = "send"
        /\ UNCHANGED <<message_id_counter, msg_send, peer, flight, socket, lost>>

\* No address, or no socket: main returns.
OpenFails == pc = "setup" /\ pc' = "exited"
             /\ UNCHANGED <<message_id_counter, msg_send, peer, flight, socket, lost>>

Older(d) == [d EXCEPT !.age = @ + 1]

\* A request the server has yet to answer.
Unserved(r) == r.to = "server" /\ ~r.answered

\* What is in flight once one more request was sent: answers to requests
\* older than Lifetime do not arrive any more.
Aged == {Older(r) : r \in {q \in flight : q.age < Lifetime}}

Expires == \E r \in flight : r.age >= Lifetime /\ Unserved(r)

Request(token) ==
  [to |-> peer, mid |-> message_id_counter, token |-> token, age |-> 0,
   answered |-> FALSE]

\* Build a GET under the next message id and a random token, and send it to
\* wherever the last datagram came from.
Send(token) ==
  /\ pc = "send" /\ pc' = "recv"
  /\ message_id_counter' = NextMid(message_id_counter)
  /\ msg_send' = [mid |-> message_id_counter, token |-> token]
  /\ flight' = Aged \cup {Request(token)}
  /\ socket' = [k \in DOMAIN socket |->
                  IF socket[k].kind = "answer" THEN Older(socket[k]) ELSE socket[k]]
  /\ lost' = (lost \/ Expires)
  /\ UNCHANGED peer

SendFailsUnnoticed ==
  /\ pc = "send" /\ pc' = "recv"
  /\ UNCHANGED <<message_id_counter, msg_send, peer, flight, socket, lost>>

\* sendto fails: main returns.
SendFails ==
  /\ pc = "send" /\ pc' = "exited"
  /\ UNCHANGED <<message_id_counter, msg_send, peer, flight, socket, lost>>

MatchesToken(d) == d.kind # "noise" /\ d.token = msg_send.token

\* "Is Response to Last Message": the datagram is valid CoAP and repeats the
\* message id and the token of the last request.  Nobody asks who sent it.
Matches(d) ==
  d.kind # "noise" /\ d.mid = msg_send.mid /\ d.token = msg_send.token

\* recvfrom takes the oldest datagram and stores its sender's address over
\* the one requests go to; whether it matches only decides what is printed.
Receive ==
  /\ pc = "recv" /\ socket # <<>>
  /\ pc' = "sleep"
  /\ peer' = Head(socket).from
  /\ socket' = Tail(socket)
  /\ UNCHANGED <<message_id_counter, msg_send, flight, lost>>

\* recvfrom fails: exit(EXIT_FAILURE).
ReceiveFails ==
  /\ pc = "recv" /\ pc' = "exited"
  /\ UNCHANGED <<message_id_counter, msg_send, peer, flight, socket, lost>>

Wake ==
  /\ pc = "sleep" /\ pc' = "send"
  /\ UNCHANGED <<message_id_counter, msg_send, peer, flight, socket, lost>>

-----------------------------------------------------------------------------
(* The server, other hosts, the network and the receive buffer.             *)

Answered(r) == (flight \ {r}) \cup {[r EXCEPT !.answered = TRUE]}

\* An answer to r arrives, the first or a repeated one, in any order.
Arrive(r) ==
  /\ Len(socket) < Backlog
  /\ socket' = Append(socket, Answer(r))
  /\ flight' = Answered(r)
  /\ UNCHANGED <<client, lost>>

\* The receive buffer is full.
Overflow(r) ==
  /\ Len(socket) = Backlog /\ ~r.answered
  /\ flight' = Answered(r)
  /\ lost' = (lost \/ Unserved(r))
  /\ UNCHANGED <<client, socket>>

\* The request or its answer does not get through, or no more repeats come.
Lose(r) ==
  /\ flight' = flight \ {r}
  /\ lost' = (lost \/ Unserved(r))
  /\ UNCHANGED <<client, socket>>

ArriveUnasked ==
  /\ Len(socket) < Backlog
  /\ \E d \in Unasked : socket' = Append(socket, d)
  /\ UNCHANGED <<client, flight, lost>>

Next ==
  \/ Open \/ OpenFails
  \/ \E token \in Tokens : Send(token)
  \/ SendFails \/ Receive \/ ReceiveFails \/ Wake
  \/ \E r \in flight : Arrive(r) \/ Overflow(r) \/ Lose(r)
  \/ ArriveUnasked

Spec == Init /\ [][Next]_vars

\* The program runs on, and the server answers a request that reached it.
Fairness ==
  /\ WF_vars(Open) /\ WF_vars(Receive) /\ WF_vars(Wake)
  /\ WF_vars(\E token \in Tokens : Send(token))
  /\ SF_vars(\E r \in flight : Unserved(r) /\ (Arrive(r) \/ Overflow(r) \/ Lose(r)))

FairSpec == Spec /\ Fairness

-----------------------------------------------------------------------------
(* Correctness.                                                             *)

\* Of the answers to its requests, the client prints as the response to its
\* last message only one to that message, from the host that message went to,
\* though every duplicate leaves it one answer further behind, the receive
\* buffer keeps answers while message ids go round, tokens may repeat, and
\* datagrams of others turn its requests from one host to another.
AcceptedIsOwn ==
  pc = "recv" /\ socket # <<>> =>
    LET d == Head(socket)
    IN  Matches(d) /\ d.kind = "answer" => d.age = 0 /\ d.from = peer

\* recvfrom has no timeout, so it must not be called with nothing to come:
\* when a request went to the server and no datagram was lost, an answer is
\* waiting or still under way, also after duplicates, late answers and
\* datagrams of others.
WaitsForSomething ==
  pc = "recv" /\ peer = "server" /\ ~lost =>
    socket # <<>> \/ \E r \in flight : Unserved(r)

\* Unless a datagram is lost, a datagram of another host has redirected the
\* client, or a call failed, the next request is always sent.
AsksAgain ==
  (pc = "recv" /\ peer = "server" /\ ~lost)
    ~> (pc \in {"send", "exited"} \/ lost \/ peer = "other")
=============================================================================
