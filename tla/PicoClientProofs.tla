-------------------------- MODULE PicoClientProofs --------------------------
(***************************************************************************)
(* Of all answers to its requests the example client accepts only those to  *)
(* its last one, and it does not wait in vain unless something was lost,    *)
(* for every space of message ids, lifetime and receive buffer with         *)
(* Lifetime + Backlog below MidSpace, and whatever other hosts send.        *)
(***************************************************************************)
EXTENDS PicoClient, TLAPS

TypeOK ==
  /\ pc \in {"setup", "send", "recv", "sleep", "exited"}
  /\ message_id_counter \in Mids
  /\ msg_send \in [mid : Mids, token : Nat]
  /\ peer \in Hosts
  /\ flight \subseteq Requests
  /\ socket \in Seq(Datagrams)
  /\ Len(socket) <= Backlog
  /\ lost \in BOOLEAN

\* The message id of a datagram tells its age, as far as ids do not repeat.
TellsAge(mid, age, counter) ==
  \/ mid + age + 1 = counter
  \/ mid + age + 1 = counter + MidSpace

\* How old the datagram at place k of the receive buffer will be when read.
AgeWhenRead(k) == socket[k].age + IF pc \in {"recv", "exited"} THEN k - 1 ELSE k

FlightAges ==
  \A r \in flight : /\ r.age <= Lifetime
                    /\ TellsAge(r.mid, r.age, message_id_counter)

SocketAges ==
  \A k \in 1..Len(socket) :
    socket[k].kind = "answer" =>
      /\ AgeWhenRead(k) <= Lifetime + Backlog
      /\ TellsAge(socket[k].mid, socket[k].age, message_id_counter)

LastRequest == pc = "recv" => TellsAge(msg_send.mid, 0, message_id_counter)

\* While the client waits, the request without age is the one sent to peer.
WentToPeer ==
  pc = "recv" =>
    /\ \A r \in flight : r.age = 0 => r.to = peer
    /\ \A k \in 1..Len(socket) :
         socket[k].kind = "answer" /\ socket[k].age = 0 => socket[k].from = peer

IInv == TypeOK /\ FlightAges /\ SocketAges /\ LastRequest /\ WentToPeer

USE MidAssumption, TokenAssumption, NetworkAssumption, AgeAssumption

\* The counter of message ids wraps around within 16 bits.
LEMMA NextMidType == ASSUME NEW x \in Mids PROVE NextMid(x) \in Mids
  BY DEF Mids, NextMid

\* Growing older changes the age of a request and nothing else.
LEMMA OlderRequest ==
  ASSUME NEW q \in Requests
  PROVE  /\ Older(q) \in Requests
         /\ Older(q).mid = q.mid /\ Older(q).age = q.age + 1
         /\ Older(q).answered = q.answered /\ Older(q).to = q.to
<1>1. Older(q).mid = q.mid /\ Older(q).token = q.token /\ Older(q).age = q.age + 1
  BY DEF Older, Requests
<1>2. Older(q).answered = q.answered /\ Older(q).to = q.to
  BY DEF Older, Requests
<1>3. Older(q) \in Requests
  BY SMT DEF Older, Requests
<1> QED
  BY <1>1, <1>2, <1>3

\* The same for a datagram on its way.
LEMMA OlderDatagram ==
  ASSUME NEW d \in Datagrams
  PROVE  /\ Older(d) \in Datagrams
         /\ Older(d).mid = d.mid /\ Older(d).from = d.from
         /\ Older(d).kind = d.kind /\ Older(d).age = d.age + 1
  BY DEF Older, Datagrams

\* The answer to a request has its message id and age, and comes from where
\* it went.
LEMMA AnswerType ==
  ASSUME NEW r \in Requests
  PROVE  /\ Answer(r) \in Datagrams /\ Answer(r).kind = "answer"
         /\ Answer(r).mid = r.mid /\ Answer(r).age = r.age /\ Answer(r).from = r.to
  BY DEF Requests, Datagrams, Answer

\* What nobody asked for is a datagram and no answer.
LEMMA UnaskedType ==
  ASSUME NEW d \in Unasked
  PROVE  d \in Datagrams /\ d.kind # "answer"
<1>1. CASE d \in [from : Hosts, kind : {"stray"}, mid : StrayMids, token : Tokens,
                  age : {0}]
  <2>1. /\ d = [from |-> d.from, kind |-> d.kind, mid |-> d.mid, token |-> d.token,
                age |-> d.age]
        /\ d.from \in Hosts /\ d.kind = "stray" /\ d.mid \in StrayMids
        /\ d.token \in Tokens /\ d.age = 0
    BY <1>1
  <2>2. d.mid \in Mids /\ d.token \in Nat /\ d.age \in Nat
    BY <2>1
  <2> QED
    BY <2>1, <2>2 DEF Datagrams
<1>2. CASE d \in [from : Hosts, kind : {"noise"}, mid : StrayMids, token : {0},
                  age : {0}]
  BY <1>2 DEF Datagrams
<1> QED
  BY <1>1, <1>2 DEF Unasked

\* What is in flight after a send was in flight before, or is the request.
LEMMA SentFlight ==
  ASSUME NEW token \in Tokens, Send(token), NEW r \in flight'
  PROVE  \/ \E q \in flight : q.age < Lifetime /\ r = Older(q)
         \/ r = Request(token)
  BY DEF Send, Aged

\* A new request has the current message id and no age.
LEMMA RequestType ==
  ASSUME TypeOK, NEW token \in Tokens
  PROVE  /\ Request(token) \in Requests
         /\ Request(token).mid = message_id_counter /\ Request(token).age = 0
         /\ Request(token).answered = FALSE /\ Request(token).to = peer
<1>1. /\ Request(token).mid = message_id_counter /\ Request(token).age = 0
      /\ Request(token).answered = FALSE /\ Request(token).to = peer
  BY DEF Request
<1>2. Request(token) \in Requests
  BY DEF TypeOK, Requests, Request
<1> QED
  BY <1>1, <1>2

\* The type invariant is inductive.
LEMMA TypeStep == TypeOK /\ [Next]_vars => TypeOK'
<1> SUFFICES ASSUME TypeOK, [Next]_vars PROVE TypeOK'
  OBVIOUS
<1> USE DEF TypeOK
<1>1. CASE Open \/ OpenFails \/ SendFails \/ ReceiveFails \/ Wake
  BY <1>1 DEF Open, OpenFails, SendFails, ReceiveFails, Wake
<1>2. ASSUME NEW token \in Tokens, Send(token) PROVE TypeOK'
  <2>1. message_id_counter' \in Mids
    BY <1>2, NextMidType DEF Send
  <2>2. flight' \subseteq Requests
    <3> SUFFICES ASSUME NEW r \in flight' PROVE r \in Requests
      OBVIOUS
    <3> HIDE DEF TypeOK
    <3>1. CASE r = Request(token)
      BY <3>1, RequestType
    <3>2. CASE \E q \in flight : q.age < Lifetime /\ r = Older(q)
      BY <3>2, OlderRequest DEF TypeOK
    <3> QED
      BY <1>2, <3>1, <3>2, SentFlight
  <2>3. socket' \in Seq(Datagrams) /\ Len(socket') <= Backlog
    <3>1. socket' = [k \in 1..Len(socket) |->
                       IF socket[k].kind = "answer" THEN Older(socket[k])
                       ELSE socket[k]]
      BY <1>2 DEF Send
    <3>2. \A k \in 1..Len(socket) :
            socket[k] \in Datagrams /\ Older(socket[k]) \in Datagrams
      <4>1. \A k \in 1..Len(socket) : socket[k] \in Datagrams
        OBVIOUS
      <4> QED
        BY <4>1, OlderDatagram
    <3>3. Len(socket) \in Nat
      OBVIOUS
    <3> QED
      BY <3>1, <3>2, <3>3
  <2>4. lost' \in BOOLEAN
    BY <1>2 DEF Send
  <2>5. pc' = "recv" /\ peer' = peer /\ msg_send' \in [mid : Mids, token : Nat]
    BY <1>2 DEF Send
  <2> QED
    BY <2>1, <2>2, <2>3, <2>4, <2>5
<1>3. CASE Receive
  <2>1. Head(socket) \in Datagrams
    BY <1>3 DEF Receive
  <2>2. peer' \in Hosts
    BY <1>3, <2>1 DEF Receive, Datagrams
  <2>3. socket' \in Seq(Datagrams) /\ Len(socket') <= Backlog
    BY <1>3 DEF Receive
  <2> QED
    BY <1>3, <2>2, <2>3 DEF Receive
<1>4. ASSUME NEW r \in flight, Arrive(r) PROVE TypeOK'
  <2>1. Answer(r) \in Datagrams
    BY AnswerType
  <2>2. socket' = Append(socket, Answer(r)) /\ Len(socket) < Backlog
    BY <1>4 DEF Arrive
  <2>3. socket' \in Seq(Datagrams) /\ Len(socket') <= Backlog
    BY <2>1, <2>2
  <2>4. flight' \subseteq Requests
    BY <1>4 DEF Arrive, Answered, Requests
  <2> QED
    BY <1>4, <2>3, <2>4 DEF Arrive, client
<1>5. ASSUME NEW r \in flight, Overflow(r) \/ Lose(r) PROVE TypeOK'
  <2>1. flight' \subseteq Requests /\ UNCHANGED <<client, socket>>
    BY <1>5 DEF Overflow, Lose, Answered, Requests
  <2>2. lost' \in BOOLEAN
    BY <1>5 DEF Overflow, Lose
  <2> QED
    BY <2>1, <2>2 DEF client
<1>6. CASE ArriveUnasked
  <2>1. PICK d \in Unasked : socket' = Append(socket, d)
    BY <1>6 DEF ArriveUnasked
  <2>2. socket' \in Seq(Datagrams) /\ Len(socket') <= Backlog
    BY <1>6, <2>1, UnaskedType DEF ArriveUnasked
  <2> QED
    BY <1>6, <2>2 DEF ArriveUnasked, client
<1>7. CASE UNCHANGED vars
  BY <1>7 DEF vars, client
<1> QED
  BY <1>1, <1>2, <1>3, <1>4, <1>5, <1>6, <1>7 DEF Next

\* Sending one more request makes every datagram one older, and the counter
\* moves by one: message ids keep telling ages.
LEMMA TellsAgeStep ==
  ASSUME NEW counter \in Mids, NEW mid \in Mids, NEW age \in Nat,
         TellsAge(mid, age, counter), age < MidSpace - 1
  PROVE  TellsAge(mid, age + 1, NextMid(counter))
  BY DEF TellsAge, NextMid, Mids

\* The three parts about ages, each from one step to the next.
LEMMA FlightStep == IInv /\ [Next]_vars => FlightAges'
<1> SUFFICES ASSUME IInv, [Next]_vars, NEW r \in flight'
             PROVE  r.age <= Lifetime /\ TellsAge(r.mid, r.age, message_id_counter')
  BY DEF FlightAges
<1>t. TypeOK /\ flight \subseteq Requests
  BY DEF IInv, TypeOK
<1>f. \A q \in flight : q.age <= Lifetime /\ TellsAge(q.mid, q.age, message_id_counter)
  BY DEF IInv, FlightAges
<1>1. ASSUME NEW token \in Tokens, Send(token)
      PROVE  r.age <= Lifetime /\ TellsAge(r.mid, r.age, message_id_counter')
  <2>m. message_id_counter \in Mids /\ message_id_counter' = NextMid(message_id_counter)
    BY <1>1, <1>t DEF Send, TypeOK
  <2>1. CASE r = Request(token)
    <3>1. TellsAge(message_id_counter, 0, message_id_counter')
      BY <2>m DEF TellsAge, NextMid, Mids
    <3>2. r.mid = message_id_counter /\ r.age = 0
      BY <2>1, <1>t, RequestType
    <3> QED
      BY <3>1, <3>2
  <2>2. ASSUME NEW q \in flight, q.age < Lifetime, r = Older(q)
        PROVE  r.age <= Lifetime /\ TellsAge(r.mid, r.age, message_id_counter')
    <3>1. q \in Requests /\ q.mid \in Mids /\ q.age \in Nat
      BY <1>t DEF Requests
    <3>2. r.mid = q.mid /\ r.age = q.age + 1
      BY <2>2, <3>1, OlderRequest
    <3>3. TellsAge(q.mid, q.age + 1, message_id_counter')
      BY <2>m, <3>1, <1>f, <2>2, TellsAgeStep
    <3> QED
      BY <3>1, <3>2, <3>3, <2>2
  <2> QED
    BY <1>1, <2>1, <2>2, SentFlight
<1>2. ASSUME message_id_counter' = message_id_counter,
             r \in flight \/ \E q \in flight : r = [q EXCEPT !.answered = TRUE]
      PROVE  r.age <= Lifetime /\ TellsAge(r.mid, r.age, message_id_counter')
  <2>1. PICK q \in flight : r.age = q.age /\ r.mid = q.mid
    BY <1>2, <1>t DEF Requests
  <2> QED
    BY <2>1, <1>2, <1>f DEF TellsAge
<1>3. CASE Open \/ OpenFails \/ SendFails \/ Receive \/ ReceiveFails \/ Wake
  BY <1>3, <1>2 DEF Open, OpenFails, SendFails, Receive, ReceiveFails, Wake
<1>4. ASSUME NEW q \in flight, Arrive(q) \/ Overflow(q) \/ Lose(q)
      PROVE  r.age <= Lifetime /\ TellsAge(r.mid, r.age, message_id_counter')
  BY <1>4, <1>2 DEF Arrive, Overflow, Lose, Answered, client
<1>5. CASE ArriveUnasked \/ UNCHANGED vars
  BY <1>5, <1>2 DEF ArriveUnasked, vars, client
<1> QED
  BY <1>1, <1>3, <1>4, <1>5 DEF Next

\* Every step keeps what is known of the last request.
LEMMA LastRequestStep == IInv /\ [Next]_vars => LastRequest'
<1> SUFFICES ASSUME IInv, [Next]_vars PROVE LastRequest'
  OBVIOUS
<1>t. TypeOK /\ LastRequest
  BY DEF IInv
<1>1. ASSUME NEW token \in Tokens, Send(token) PROVE LastRequest'
  BY <1>1, <1>t DEF Send, LastRequest, TellsAge, NextMid, TypeOK, Mids
<1>2. CASE Open \/ OpenFails \/ SendFails \/ Receive \/ ReceiveFails \/ Wake
  BY <1>2 DEF Open, OpenFails, SendFails, Receive, ReceiveFails, Wake, LastRequest
<1>3. CASE UNCHANGED client
  BY <1>3, <1>t DEF client, LastRequest, TellsAge
<1> QED
  BY <1>1, <1>2, <1>3 DEF Next, Arrive, Overflow, Lose, ArriveUnasked, vars

\* A datagram leaves the receive buffer no older than it was bound to be:
\* every round makes it one older and moves it one place on.
LEMMA SocketStep == IInv /\ TypeOK' /\ [Next]_vars => SocketAges'
<1> SUFFICES ASSUME IInv, TypeOK', [Next]_vars, NEW k \in 1..Len(socket')
             PROVE  socket'[k].kind = "answer" =>
                      /\ AgeWhenRead(k)' <= Lifetime + Backlog
                      /\ TellsAge(socket'[k].mid, socket'[k].age, message_id_counter')
  BY DEF SocketAges
<1> DEFINE Good == socket'[k].kind = "answer" =>
                     /\ AgeWhenRead(k)' <= Lifetime + Backlog
                     /\ TellsAge(socket'[k].mid, socket'[k].age, message_id_counter')
<1>t. TypeOK /\ socket \in Seq(Datagrams) /\ Len(socket) \in Nat
  BY DEF IInv, TypeOK
<1>d. \A j \in 1..Len(socket) :
        socket[j] \in Datagrams /\ socket[j].mid \in Mids /\ socket[j].age \in Nat
  <2>1. \A j \in 1..Len(socket) : socket[j] \in Datagrams
    BY <1>t
  <2>2. \A d \in Datagrams : d.mid \in Mids /\ d.age \in Nat
    BY DEF Datagrams
  <2> QED
    BY <2>1, <2>2
<1>s. \A j \in 1..Len(socket) :
        socket[j].kind = "answer" =>
          /\ AgeWhenRead(j) <= Lifetime + Backlog
          /\ TellsAge(socket[j].mid, socket[j].age, message_id_counter)
  BY DEF IInv, SocketAges
<1>1. ASSUME NEW token \in Tokens, Send(token) PROVE Good
  <2>1. Len(socket') = Len(socket)
    BY <1>1, <1>t DEF Send
  <2>2. k \in 1..Len(socket)
    BY <2>1
  <2> SUFFICES ASSUME socket'[k].kind = "answer"
               PROVE  /\ AgeWhenRead(k)' <= Lifetime + Backlog
                      /\ TellsAge(socket'[k].mid, socket'[k].age, message_id_counter')
    OBVIOUS
  <2>0. socket'[k] = Older(socket[k]) /\ socket[k].kind = "answer"
    BY <1>1, <1>t, <2>2 DEF Send
  <2>3. socket'[k].mid = socket[k].mid /\ socket'[k].age = socket[k].age + 1
    BY <2>0, <2>2, <1>d, OlderDatagram
  <2>4. socket[k].age + k <= Lifetime + Backlog
    BY <1>1, <1>s, <2>0, <2>2 DEF Send, AgeWhenRead
  <2>5. AgeWhenRead(k)' <= Lifetime + Backlog
    BY <1>1, <2>2, <2>3, <2>4, <1>d DEF Send, AgeWhenRead
  <2>6. message_id_counter \in Mids /\ message_id_counter' = NextMid(message_id_counter)
    BY <1>1, <1>t DEF Send, TypeOK
  <2>7. socket[k].age < MidSpace - 1
    BY <2>2, <2>4, <1>d
  <2>8. TellsAge(socket[k].mid, socket[k].age + 1, message_id_counter')
    BY <2>0, <2>2, <2>6, <2>7, <1>d, <1>s, TellsAgeStep
  <2> QED
    BY <2>3, <2>5, <2>8
<1>2. CASE Receive
  <2>1. Len(socket') = Len(socket) - 1 /\ socket'[k] = socket[k + 1]
    BY <1>2, <1>t DEF Receive
  <2>2. k + 1 \in 1..Len(socket)
    BY <2>1, <1>t
  <2>3. AgeWhenRead(k)' = AgeWhenRead(k + 1)
    BY <1>2, <2>1, <2>2, <1>d DEF Receive, AgeWhenRead
  <2> QED
    BY <1>2, <2>1, <2>2, <2>3, <1>s DEF Receive, TellsAge
<1>3. ASSUME socket' = socket, message_id_counter' = message_id_counter,
             pc' = pc \/ pc' = "exited" \/ (pc # "recv" /\ pc' # "recv" /\ pc # "exited")
      PROVE  Good
  <2>1. AgeWhenRead(k)' <= AgeWhenRead(k)
    BY <1>3, <1>d DEF AgeWhenRead
  <2>2. AgeWhenRead(k) \in Int /\ AgeWhenRead(k)' \in Int
    BY <1>3, <1>d DEF AgeWhenRead
  <2> QED
    BY <1>3, <1>s, <2>1, <2>2 DEF TellsAge
<1>4. CASE Open \/ OpenFails \/ SendFails \/ ReceiveFails \/ Wake
  BY <1>4, <1>3 DEF Open, OpenFails, SendFails, ReceiveFails, Wake
<1>5. ASSUME NEW d \in Datagrams,
             d.kind = "answer" => /\ d.age <= Lifetime
                                  /\ TellsAge(d.mid, d.age, message_id_counter),
             Len(socket) < Backlog, socket' = Append(socket, d), UNCHANGED client
      PROVE  Good
  <2>1. CASE k = Len(socket) + 1
    <3>1. socket'[k] = d
      BY <1>5, <2>1, <1>t
    <3>2. d.kind = "answer" => AgeWhenRead(k)' <= Lifetime + Backlog
      BY <1>5, <2>1, <1>t, <3>1 DEF AgeWhenRead, Datagrams
    <3> QED
      BY <1>5, <3>1, <3>2 DEF TellsAge, client
  <2>2. CASE k \in 1..Len(socket)
    <3>1. socket'[k] = socket[k]
      BY <1>5, <2>2, <1>t
    <3> QED
      BY <1>5, <2>2, <3>1, <1>s DEF TellsAge, client, AgeWhenRead
  <2> QED
    BY <2>1, <2>2, <1>5, <1>t
<1>6. ASSUME NEW r \in flight, Arrive(r) PROVE Good
  <2>1. r \in Requests /\ r.age <= Lifetime /\ TellsAge(r.mid, r.age, message_id_counter)
    BY DEF IInv, TypeOK, FlightAges
  <2>2. Answer(r) \in Datagrams /\ Answer(r).age = r.age /\ Answer(r).mid = r.mid
    BY <2>1, AnswerType
  <2>3. socket' = Append(socket, Answer(r)) /\ Len(socket) < Backlog /\ UNCHANGED client
    BY <1>6 DEF Arrive
  <2> QED
    BY <1>5, <2>1, <2>2, <2>3
<1>7. CASE ArriveUnasked
  <2>1. PICK d \in Unasked : socket' = Append(socket, d)
    BY <1>7 DEF ArriveUnasked
  <2>2. Len(socket) < Backlog /\ UNCHANGED client
    BY <1>7 DEF ArriveUnasked
  <2> QED
    BY <1>5, <2>1, <2>2, UnaskedType
<1>8. CASE UNCHANGED <<client, socket>>
  BY <1>8, <1>3 DEF client
<1> QED
  BY <1>1, <1>2, <1>4, <1>6, <1>7, <1>8 DEF Next, Overflow, Lose, vars

\* Sending makes every earlier request older; while the client waits for the
\* answer its peer stays.
LEMMA WentToPeerStep == IInv /\ TypeOK' /\ [Next]_vars => WentToPeer'
<1> SUFFICES ASSUME IInv, TypeOK', [Next]_vars, pc' = "recv"
             PROVE  WentToPeer'
  BY DEF WentToPeer
<1>t. /\ TypeOK /\ flight \subseteq Requests
      /\ socket \in Seq(Datagrams) /\ Len(socket) \in Nat
  BY DEF IInv, TypeOK
<1>1. ASSUME NEW token \in Tokens, Send(token) PROVE WentToPeer'
  <2>1. peer' = peer
    BY <1>1 DEF Send
  <2>2. ASSUME NEW r \in flight', r.age = 0 PROVE r.to = peer
    <3>1. \A q \in flight : Older(q).age # 0
      BY <1>t, OlderRequest DEF Requests
    <3>2. r = Request(token)
      BY <1>1, <2>2, <3>1, SentFlight
    <3> QED
      BY <1>t, <3>2, RequestType
  <2>3. ASSUME NEW k \in 1..Len(socket'), socket'[k].kind = "answer"
        PROVE  socket'[k].age # 0
    <3>1. Len(socket') = Len(socket)
      BY <1>1, <1>t DEF Send
    <3>2. socket'[k] = Older(socket[k]) /\ socket[k] \in Datagrams
      BY <1>1, <1>t, <2>3, <3>1 DEF Send
    <3> QED
      BY <3>2, OlderDatagram DEF Datagrams
  <2> QED
    BY <2>1, <2>2, <2>3 DEF WentToPeer
<1>2. CASE Open \/ OpenFails \/ SendFails \/ Receive \/ ReceiveFails \/ Wake
  BY <1>2 DEF Open, OpenFails, SendFails, Receive, ReceiveFails, Wake
<1>3. ASSUME UNCHANGED client PROVE WentToPeer /\ pc = "recv" /\ peer' = peer
  BY <1>3 DEF IInv, client
<1>4. ASSUME UNCHANGED client,
             \A r \in flight' : r \in flight \/ \E q \in flight : r.age = q.age /\ r.to = q.to,
             \/ socket' = socket
             \/ \E d \in Datagrams :
                  /\ socket' = Append(socket, d)
                  /\ d.kind = "answer" /\ d.age = 0 => d.from = peer
      PROVE  WentToPeer'
  <2>1. \A r \in flight' : r.age = 0 => r.to = peer
    BY <1>3, <1>4 DEF WentToPeer
  <2>2. ASSUME NEW k \in 1..Len(socket'), socket'[k].kind = "answer", socket'[k].age = 0
        PROVE  socket'[k].from = peer
    <3>1. CASE socket' = socket
      BY <1>3, <1>4, <2>2, <3>1 DEF WentToPeer
    <3>2. ASSUME NEW d \in Datagrams, socket' = Append(socket, d),
                 d.kind = "answer" /\ d.age = 0 => d.from = peer
          PROVE  socket'[k].from = peer
      <4>1. k = Len(socket) + 1 \/ k \in 1..Len(socket)
        BY <1>t, <2>2, <3>2
      <4>2. CASE k = Len(socket) + 1
        <5>1. socket'[k] = d
          BY <1>t, <3>2, <4>2
        <5> QED
          BY <2>2, <3>2, <5>1
      <4>3. CASE k \in 1..Len(socket)
        <5>1. socket'[k] = socket[k]
          BY <1>t, <3>2, <4>3
        <5> QED
          BY <1>3, <1>4, <2>2, <4>3, <5>1 DEF WentToPeer
      <4> QED
        BY <4>1, <4>2, <4>3
    <3> QED
      BY <1>4, <3>1, <3>2
  <2> QED
    BY <1>3, <1>4, <2>1, <2>2 DEF WentToPeer
<1>5. ASSUME NEW r \in flight, Arrive(r) PROVE WentToPeer'
  <2>1. UNCHANGED client /\ socket' = Append(socket, Answer(r)) /\ flight' = Answered(r)
    BY <1>5 DEF Arrive
  <2>2. \A q \in flight' : q \in flight \/ (q.age = r.age /\ q.to = r.to)
    BY <1>t, <2>1 DEF Answered, Requests
  <2>3. /\ Answer(r) \in Datagrams
        /\ Answer(r).age = 0 => Answer(r).from = peer
    BY <1>t, <1>3, <2>1, AnswerType DEF WentToPeer
  <2> QED
    BY <1>4, <2>1, <2>2, <2>3
<1>6. ASSUME NEW r \in flight, Overflow(r) \/ Lose(r) PROVE WentToPeer'
  <2>1. UNCHANGED client /\ socket' = socket
    BY <1>6 DEF Overflow, Lose
  <2>2. \A q \in flight' : q \in flight \/ (q.age = r.age /\ q.to = r.to)
    BY <1>t, <1>6 DEF Overflow, Lose, Answered, Requests
  <2> QED
    BY <1>4, <2>1, <2>2
<1>7. CASE ArriveUnasked
  <2>1. PICK d \in Unasked : socket' = Append(socket, d)
    BY <1>7 DEF ArriveUnasked
  <2>2. UNCHANGED client /\ flight' = flight
    BY <1>7 DEF ArriveUnasked
  <2>3. d \in Datagrams /\ d.kind # "answer"
    BY UnaskedType
  <2> QED
    BY <1>4, <2>1, <2>2, <2>3
<1>8. CASE UNCHANGED vars
  BY <1>4, <1>8 DEF vars
<1> QED
  BY <1>1, <1>2, <1>5, <1>6, <1>7, <1>8 DEF Next

\* The invariant holds from the start, on.
LEMMA IInvHolds == Spec => []IInv
<1>1. Init => IInv
  <2> SUFFICES ASSUME Init PROVE IInv
    OBVIOUS
  <2>1. TypeOK
    <3>1. message_id_counter \in Mids /\ 0 \in Mids
      BY DEF Init, Mids
    <3>2. socket \in Seq(Datagrams) /\ Len(socket) <= Backlog
      BY DEF Init
    <3>4. peer \in Hosts
      BY DEF Init, Hosts
    <3>3. msg_send \in [mid : Mids, token : Nat]
      BY <3>1 DEF Init
    <3> QED
      BY <3>1, <3>2, <3>3, <3>4 DEF Init, TypeOK
  <2>2. FlightAges /\ SocketAges /\ LastRequest /\ WentToPeer
    BY DEF Init, FlightAges, SocketAges, LastRequest, WentToPeer
  <2> QED
    BY <2>1, <2>2 DEF IInv
<1>2. IInv /\ [Next]_vars => IInv'
  BY TypeStep, FlightStep, SocketStep, LastRequestStep, WentToPeerStep DEF IInv
<1> QED
  BY <1>1, <1>2, PTL DEF Spec

\* Of the answers to its requests, client.c prints as the response to its
\* last message only one to that message, from the host it went to, whatever
\* was lost, repeated, delayed or kept in the receive buffer, however often
\* rand() repeats a token, and whichever hosts its requests have gone to.
THEOREM AcceptedIsOwnHolds == Spec => []AcceptedIsOwn
<1>1. IInv => AcceptedIsOwn
  <2> SUFFICES ASSUME IInv, pc = "recv", socket # <<>>, Matches(Head(socket)),
                      Head(socket).kind = "answer"
               PROVE  Head(socket).age = 0 /\ Head(socket).from = peer
    BY DEF AcceptedIsOwn
  <2>1. socket \in Seq(Datagrams) /\ Len(socket) \in Nat /\ 1 \in 1..Len(socket)
    BY DEF IInv, TypeOK
  <2>2. Head(socket) = socket[1] /\ socket[1] \in Datagrams
    BY <2>1
  <2>3. socket[1].kind = "answer" /\ socket[1].mid = msg_send.mid
    BY <2>2 DEF Matches
  <2>4. TellsAge(msg_send.mid, socket[1].age, message_id_counter)
        /\ socket[1].age <= Lifetime + Backlog
    <3>1. /\ AgeWhenRead(1) <= Lifetime + Backlog
          /\ TellsAge(socket[1].mid, socket[1].age, message_id_counter)
      BY <2>1, <2>3 DEF IInv, SocketAges
    <3>2. AgeWhenRead(1) = socket[1].age
      BY <2>2 DEF AgeWhenRead, Datagrams
    <3> QED
      BY <3>1, <3>2, <2>3
  <2>5. TellsAge(msg_send.mid, 0, message_id_counter)
    BY DEF IInv, LastRequest
  <2>6. socket[1].age \in Nat /\ msg_send.mid \in Mids /\ message_id_counter \in Mids
    BY <2>2 DEF IInv, TypeOK, Datagrams
  <2>7. socket[1].age = 0
    BY <2>4, <2>5, <2>6 DEF TellsAge, Mids
  <2>8. socket[1].from = peer
    BY <2>1, <2>3, <2>7 DEF IInv, WentToPeer
  <2> QED
    BY <2>2, <2>7, <2>8
<1> QED
  BY <1>1, IInvHolds, PTL

\* client.c calls recvfrom, which has no timeout, only with a datagram to
\* come, unless one was lost or its requests no longer go to the server.
THEOREM WaitsForSomethingHolds == Spec => []WaitsForSomething
<1>1. Init => WaitsForSomething
  BY DEF Init, WaitsForSomething
<1>2. TypeOK /\ WaitsForSomething /\ [Next]_vars => WaitsForSomething'
  <2> SUFFICES ASSUME TypeOK, WaitsForSomething, [Next]_vars,
                      pc' = "recv", peer' = "server", ~lost'
               PROVE  socket' # <<>> \/ \E r \in flight' : Unserved(r)
    BY DEF WaitsForSomething
  <2>1. ASSUME NEW token \in Tokens, Send(token) PROVE \E r \in flight' : Unserved(r)
    <3>1. Request(token) \in flight'
      BY <2>1 DEF Send
    <3> QED
      BY <2>1, <3>1, RequestType DEF Send, Unserved
  <2>2. CASE Open \/ OpenFails \/ SendFails \/ Receive \/ ReceiveFails \/ Wake
    BY <2>2 DEF Open, OpenFails, SendFails, Receive, ReceiveFails, Wake
  <2>3. ASSUME NEW r \in flight, Arrive(r) PROVE socket' # <<>>
    BY <2>3 DEF Arrive, TypeOK
  <2>4. CASE ArriveUnasked
    BY <2>4 DEF ArriveUnasked, TypeOK
  <2>5. ASSUME NEW r \in flight, Overflow(r)
        PROVE  socket' # <<>> \/ \E q \in flight' : Unserved(q)
    <3>1. ~Unserved(r) /\ ~lost
      BY <2>5 DEF Overflow
    <3>2. socket # <<>> \/ \E q \in flight : Unserved(q)
      BY <2>5, <3>1 DEF Overflow, client, WaitsForSomething
    <3> QED
      BY <2>5, <3>1, <3>2 DEF Overflow, Answered
  <2>6. ASSUME NEW r \in flight, Lose(r)
        PROVE  socket' # <<>> \/ \E q \in flight' : Unserved(q)
    <3>1. ~Unserved(r) /\ ~lost
      BY <2>6 DEF Lose
    <3>2. socket # <<>> \/ \E q \in flight : Unserved(q)
      BY <2>6, <3>1 DEF Lose, client, WaitsForSomething
    <3> QED
      BY <2>6, <3>1, <3>2 DEF Lose
  <2>7. CASE UNCHANGED vars
    BY <2>7 DEF vars, client, WaitsForSomething
  <2> QED
    BY <2>1, <2>2, <2>3, <2>4, <2>5, <2>6, <2>7 DEF Next
<1>3. IInv => TypeOK
  BY DEF IInv
<1> QED
  BY <1>1, <1>2, <1>3, IInvHolds, PTL DEF Spec
=============================================================================
