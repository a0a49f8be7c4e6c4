---------------------------- MODULE OrderServer ----------------------------
(***************************************************************************)
(* The exchange's order server between its clients and the matching engine:*)
(* the loop of OrderServer::run over TCPServer and TCPSocket, the sequence *)
(* checks of recvCallback, FIFOSequencer, and at the other end of each     *)
(* connection an OrderGateway.                                             *)
(*                                                                         *)
(* A connection is known by its client and a session number; a client that *)
(* restarts comes back with the next session and numbers from 1 again.     *)
(* The sockets are never registered for EPOLLOUT (tcp_server.cpp:16), so   *)
(* send_sockets_ is always empty and not modelled.                         *)
(***************************************************************************)
EXTENDS Integers, FiniteSets, SequencesExt

CONSTANTS receive_sockets,           \* the clients, in the order they were accepted
          MaxRequests,               \* bound on the requests of a session
          MaxSessions,               \* bound on the sessions of a client
          Restarting,                \* the clients that may be started again
          MaxClock,                  \* bound on the clock
          ME_MAX_PENDING_REQUESTS,
          SortThreshold,             \* std::sort is stable up to this length
          WouldBlock                 \* the kernel may have no room to send

ASSUME BoundAssumption == /\ MaxRequests \in Nat /\ MaxSessions \in Nat \ {0}
                          /\ MaxClock \in Nat
ASSUME PendingAssumption == ME_MAX_PENDING_REQUESTS \in Nat \ {0}
ASSUME SortAssumption == SortThreshold \in Nat /\ WouldBlock \in BOOLEAN

ClientIds == {receive_sockets[k] : k \in DOMAIN receive_sockets}
NumSockets == Len(receive_sockets)

ASSUME SocketAssumption ==
         /\ receive_sockets \in Seq(ClientIds)
         /\ \A i, j \in 1 .. NumSockets : receive_sockets[i] = receive_sockets[j] => i = j

VARIABLES
  clock,            \* kernel time, coarse enough for two packets to share it
  gateway,          \* client -> its OrderGateway
  wire,             \* client -> requests that have reached the exchange's kernel
  back,             \* client -> responses on their way to it
  polling,          \* socket the order server's loop is at; beyond the last: sending
  received,         \* some socket of this round had data
  pending,          \* pending_client_requests_ up to pending_size_
  cid_next_exp_seq_num,
  cid_tcp_socket,   \* client -> session of the socket it is known by, or 0
  incoming,         \* everything ever published to the matching engine
  processed,        \* how much of it the matching engine has processed
  responses,        \* outgoing_responses_: the clients answered to
  cid_next_outgoing_seq_num,
  send_buffer,      \* client -> responses in the buffer of its known socket
  fatal             \* FATAL has ended the process

serverVars == <<polling, received, pending, cid_next_exp_seq_num, cid_tcp_socket, fatal>>
engineVars == <<processed, responses>>
vars == <<clock, gateway, wire, back, serverVars, incoming, engineVars,
          cid_next_outgoing_seq_num, send_buffer>>

NewGateway(session) == [session |-> session, next_outgoing_seq_num |-> 1,
                        next_exp_seq_num |-> 1, rejected |-> FALSE]

Init == /\ clock = 0
        /\ gateway = [c \in ClientIds |-> NewGateway(1)]
        /\ wire = [c \in ClientIds |-> <<>>] /\ back = [c \in ClientIds |-> <<>>]
        /\ polling = 1 /\ received = FALSE /\ pending = <<>>
        /\ cid_next_exp_seq_num = [c \in ClientIds |-> 1]
        /\ cid_tcp_socket = [c \in ClientIds |-> 0]
        /\ incoming = <<>> /\ processed = 0 /\ responses = <<>>
        /\ cid_next_outgoing_seq_num = [c \in ClientIds |-> 1]
        /\ send_buffer = [c \in ClientIds |-> <<>>]
        /\ fatal = FALSE

-----------------------------------------------------------------------------
(* The client's side of the connection. *)

(* A request on the wire: its number, and when and over which connection it *)
(* gets to the exchange.                                                    *)
OMClientRequest(gw, now) ==
    [session |-> gw.session, seq_num |-> gw.next_outgoing_seq_num, time |-> now]

(* OrderGateway::run: a request goes out, and gets to the exchange now or a *)
(* moment after the one before.                                             *)
SendRequest(c) ==
    /\ gateway[c].next_outgoing_seq_num <= MaxRequests
    /\ \E now \in {clock, clock + 1} :
         /\ now <= MaxClock
         /\ clock' = now
         /\ wire' = [wire EXCEPT ![c] = Append(@, OMClientRequest(gateway[c], now))]
    /\ gateway' = [gateway EXCEPT ![c].next_outgoing_seq_num = @ + 1]
    /\ UNCHANGED <<back, serverVars, incoming, engineVars, cid_next_outgoing_seq_num, send_buffer>>

(* OrderGateway::recvCallback: a response out of sequence is logged and     *)
(* dropped.                                                                 *)
ReceiveResponse(c) ==
    /\ back[c] # <<>>
    /\ IF Head(back[c]) = gateway[c].next_exp_seq_num
       THEN gateway' = [gateway EXCEPT ![c].next_exp_seq_num = @ + 1]
       ELSE gateway' = [gateway EXCEPT ![c].rejected = TRUE]
    /\ back' = [back EXCEPT ![c] = Tail(@)]
    /\ UNCHANGED <<clock, wire, serverVars, incoming, engineVars, cid_next_outgoing_seq_num, send_buffer>>

(* The client's process ends and is started again.  What the old connection *)
(* has brought to the exchange can still be read unless it ended with a     *)
(* reset; of what the client sent last, any part may have got lost.         *)
Restart(c) ==
    /\ c \in Restarting /\ gateway[c].session < MaxSessions
    /\ gateway' = [gateway EXCEPT ![c] = NewGateway(@.session + 1)]
    /\ \E n \in 0 .. Len(wire[c]) :
         /\ \A k \in n + 1 .. Len(wire[c]) : wire[c][k].session = gateway[c].session
         /\ wire' = [wire EXCEPT ![c] = SubSeq(@, 1, n)]
    /\ back' = [back EXCEPT ![c] = <<>>]
    /\ UNCHANGED <<clock, serverVars, incoming, engineVars, cid_next_outgoing_seq_num, send_buffer>>

-----------------------------------------------------------------------------
(* The order server's loop.  Its state while it handles the requests of one *)
(* socket is a record: next_exp, known (socket), pending, fatal.            *)

RecvTimeClientRequest(rx_time, c, request) ==
    [recv_time |-> rx_time, client |-> c, session |-> request.session,
     seq_num |-> request.seq_num, time |-> request.time]

(* FIFOSequencer::addClientRequest *)
addClientRequest(s, rx_time, c, request) ==
    IF Len(s.pending) >= ME_MAX_PENDING_REQUESTS
    THEN [s EXCEPT !.fatal = TRUE]
    ELSE [s EXCEPT !.pending = Append(@, RecvTimeClientRequest(rx_time, c, request))]

(* Faulty: the socket is not checked. *)
acceptAnySocket(s, rx_time, c, request) ==
    IF request.seq_num # s.next_exp THEN s
    ELSE addClientRequest([s EXCEPT !.next_exp = @ + 1], rx_time, c, request)

(* OrderServer::recvCallback, one round of its loop. *)
accept(s, rx_time, c, request) ==
    LET known == IF s.known = 0 THEN request.session ELSE s.known
    IN  IF known # request.session \/ request.seq_num # s.next_exp
        THEN [s EXCEPT !.known = known]
        ELSE addClientRequest([s EXCEPT !.known = known, !.next_exp = @ + 1], rx_time, c, request)

(* What there is to read of a connection comes in one piece, with the       *)
(* kernel's time of its last part.                                          *)
rxTime(batch, session) ==
    batch[SelectLastInSeq(batch, LAMBDA r : r.session = session)].time

(* The connections of a client are polled in the order of their sessions;   *)
(* the model does so one right after the other.                             *)
recvCallback(c) ==
    LET batch == wire[c]
        after[k \in 0 .. Len(batch)] ==
          IF k = 0
          THEN [next_exp |-> cid_next_exp_seq_num[c], known |-> cid_tcp_socket[c],
                pending |-> pending, fatal |-> fatal]
          ELSE accept(after[k - 1], rxTime(batch, batch[k].session), c, batch[k])
    IN  after[Len(batch)]

(* Faulty: the buffer is not reset. *)
flushKeeping(c, room) == [sent |-> send_buffer[c], kept |-> send_buffer[c]]

(* The sending half of TCPSocket::sendAndRecv: with no room in the kernel   *)
(* the loop breaks off, and the buffer is reset all the same.               *)
flush(c, room) == [sent |-> IF room THEN send_buffer[c] ELSE <<>>, kept |-> <<>>]

(* Faulty: only the last socket counts. *)
lastReceived(c) == wire[c] # <<>>

(* The flag recv of TCPServer::sendAndRecv. *)
anyReceived(c) == received \/ wire[c] # <<>>

(* TCPSocket::sendAndRecv on the sockets of the next client.  What is sent  *)
(* to a session that has ended reaches nobody, and is left where it is.     *)
PollSocket ==
    /\ ~fatal /\ polling <= NumSockets
    /\ LET c == receive_sockets[polling]
           after == recvCallback(c)
       IN  /\ cid_next_exp_seq_num' = [cid_next_exp_seq_num EXCEPT ![c] = after.next_exp]
           /\ cid_tcp_socket' = [cid_tcp_socket EXCEPT ![c] = after.known]
           /\ pending' = after.pending
           /\ fatal' = after.fatal
           /\ received' = anyReceived(c)
           /\ wire' = [wire EXCEPT ![c] = <<>>]
           /\ \E room \in {TRUE} \cup (IF WouldBlock THEN {FALSE} ELSE {}) :
                IF gateway[c].session = after.known
                THEN /\ back' = [back EXCEPT ![c] = @ \o flush(c, room).sent]
                     /\ send_buffer' = [send_buffer EXCEPT ![c] = flush(c, room).kept]
                ELSE UNCHANGED <<back, send_buffer>>
    /\ polling' = polling + 1
    /\ UNCHANGED <<clock, gateway, incoming, engineVars, cid_next_outgoing_seq_num>>

(* What std::sort by recv_time_ may make of s. *)
sorted(s) ==
    LET n == Len(s)
        orders == {p \in [1 .. n -> 1 .. n] :
          /\ \A i, j \in 1 .. n : p[i] = p[j] => i = j
          /\ \A i, j \in 1 .. n : i < j =>
               /\ s[p[i]].recv_time <= s[p[j]].recv_time
               /\ n <= SortThreshold /\ s[p[i]].recv_time = s[p[j]].recv_time => p[i] < p[j]}
    IN  {[k \in 1 .. n |-> s[p[k]]] : p \in orders}

(* recv_finished_callback_ when anything was received: sequenceAndPublish.  *)
SequenceAndPublish ==
    /\ ~fatal /\ polling = NumSockets + 1
    /\ IF received
       THEN /\ \E t \in sorted(pending) : incoming' = incoming \o t
            /\ pending' = <<>>
       ELSE UNCHANGED <<incoming, pending>>
    /\ received' = FALSE
    /\ polling' = NumSockets + 2
    /\ UNCHANGED <<clock, gateway, wire, back, cid_next_exp_seq_num, cid_tcp_socket, fatal,
                   engineVars, cid_next_outgoing_seq_num, send_buffer>>

(* The loop over outgoing_responses_. *)
SendResponse ==
    /\ ~fatal /\ polling = NumSockets + 2
    /\ responses # <<>>
    /\ LET c == Head(responses)
       IN  /\ send_buffer' = [send_buffer EXCEPT ![c] = Append(@, cid_next_outgoing_seq_num[c])]
           /\ cid_next_outgoing_seq_num' = [cid_next_outgoing_seq_num EXCEPT ![c] = @ + 1]
    /\ responses' = Tail(responses)
    /\ UNCHANGED <<clock, gateway, wire, back, serverVars, incoming, processed>>

EndRound ==
    /\ ~fatal /\ polling = NumSockets + 2
    /\ responses = <<>>
    /\ polling' = 1
    /\ UNCHANGED <<clock, gateway, wire, back, received, pending, cid_next_exp_seq_num,
                   cid_tcp_socket, fatal, incoming, engineVars, cid_next_outgoing_seq_num,
                   send_buffer>>

(* The matching engine, as the order server sees it: every request is       *)
(* answered.                                                                *)
Process ==
    /\ ~fatal /\ processed < Len(incoming)
    /\ processed' = processed + 1
    /\ responses' = Append(responses, incoming[processed + 1].client)
    /\ UNCHANGED <<clock, gateway, wire, back, serverVars, incoming,
                   cid_next_outgoing_seq_num, send_buffer>>

Server == PollSocket \/ SequenceAndPublish \/ SendResponse \/ EndRound

Next == \/ \E c \in ClientIds : SendRequest(c) \/ ReceiveResponse(c) \/ Restart(c)
        \/ Server
        \/ Process

Spec == Init /\ [][Next]_vars

(* The loops of the order server and the matching engine go round for ever. *)
FairSpec == Spec /\ WF_vars(Server) /\ WF_vars(Process)
                 /\ \A c \in ClientIds : WF_vars(ReceiveResponse(c))

-----------------------------------------------------------------------------
(* The numbers of the requests of c among the first k of s. *)
Numbers(s, c, k) == {s[i].seq_num : i \in {i \in 1 .. k : s[i].client = c}}

(* Whatever a client and its restarts send, the matching engine gets of it  *)
(* the first requests of its first session that had any, each once and in   *)
(* the order they were sent: before a request are those with a lower number,*)
(* and no others (order_server.h:121).                                      *)
ClientOrder ==
    \A k \in DOMAIN incoming :
      LET r == incoming[k]
      IN  /\ r.session = cid_tcp_socket[r.client]
          /\ Numbers(incoming, r.client, k - 1) = 1 .. r.seq_num - 1

(* "FIFO sequencer responsible for making sure incoming client requests are *)
(* processed in the order in which they were received" (order_server.h:121).*)
ReceivedOrder ==
    \A i, j \in DOMAIN incoming : i < j => incoming[i].time <= incoming[j].time

(* A response out of sequence "should never happen since we use a reliable  *)
(* TCP protocol" (order_gateway.cpp:51).                                    *)
NoResponseRejected == \A c \in ClientIds : ~gateway[c].rejected

(* The sequencer never has "Too many pending requests" (fifo_sequencer.h:20)*)
NotFatal == ~fatal

(* No response is lost, doubled or overtaken while the client it is for     *)
(* stays connected: those it has had, those under way and those in the      *)
(* socket's buffer are the numbers given out so far.                        *)
ResponsesAccountedFor ==
    \A c \in ClientIds : gateway[c].session = cid_tcp_socket[c] =>
      back[c] \o send_buffer[c] =
        [k \in 1 .. cid_next_outgoing_seq_num[c] - gateway[c].next_exp_seq_num |->
           gateway[c].next_exp_seq_num + k - 1]

(* Every request of a client that keeps its connection is processed, what-  *)
(* ever the other clients send and however often they are started again.    *)
EveryRequestProcessed ==
    \A c \in ClientIds \ Restarting, n \in 1 .. MaxRequests :
      gateway[c].next_outgoing_seq_num > n
        ~> (Len(SelectSeq(SubSeq(incoming, 1, processed), LAMBDA r : r.client = c)) >= n)
=============================================================================
