------------------------------- MODULE TCPServer -------------------------------
(***************************************************************************)
(* The exchange's end of its connections: createSocket (socket_utils.h),   *)
(* TCPServer with its edge-triggered epoll instance (tcp_server.cpp), and  *)
(* the byte streams of TCPSocket (tcp_socket.cpp), as the loop of          *)
(* OrderServer::run uses them.  OrderServer has whole messages where this  *)
(* module has their bytes, and the numbering this one leaves out.          *)
(*                                                                         *)
(* The kernel is external: it hands over bytes in any pieces, keeps        *)
(* connections in a backlog until they are accepted, reports a descriptor  *)
(* once for each time something happened to it, and may fail a call.       *)
(***************************************************************************)
EXTENDS Integers, SequencesExt

CONSTANTS Clients,         \* the connections, one each
          MsgLen,          \* sizeof(OMClientRequest), in bytes
          MaxMessages,     \* bound on the requests of all clients
          MaxResponses,    \* bound on the responses to a client
          Congested        \* the kernel may take no or only a part of what is sent

ASSUME TCPAssumption == /\ MsgLen \in Nat \ {0} /\ MaxMessages \in Nat
                        /\ MaxResponses \in Nat /\ Congested \in BOOLEAN

VARIABLES
  link,        \* client -> "none", "refused", "backlog", "open", "fin",
               \* "reset"
  queued,      \* the backlog of the listening socket
  om_socket,   \* client -> what OrderGateway::start takes its socket for
  net,         \* client -> bytes it has sent and that have not arrived
  kernel,      \* client -> bytes that have arrived and have not been read
  ready,       \* epoll: what has happened since the last epoll_wait
  pc,          \* "listen", "poll", "accept", "recv", "finish", "respond", "failed"
  sockets_, receive_sockets_, disconnected_sockets_,
  at,          \* position of the loop in receive_sockets_
  recv,        \* the flag of TCPServer::sendAndRecv
  rcv_buffer_, \* client -> bytes read and not yet made a request of
  send_buffer_,\* client -> responses written and not yet sent
  delivered,   \* client -> requests recvCallback has taken from the buffer
  published,   \* client -> how many of them recv_finished_callback_ has passed on
  answered,    \* client -> responses written for it
  arrived,     \* history: client -> bytes that have arrived
  missed       \* history: connections a failing accept has left without an event

kernelVars == <<link, queued, om_socket, net, kernel, arrived, missed>>
listVars == <<sockets_, receive_sockets_, disconnected_sockets_>>
bufferVars == <<rcv_buffer_, send_buffer_, delivered, published, answered>>
tcpVars == <<kernelVars, ready, pc, listVars, at, recv, bufferVars>>

listener == "listener"
ASSUME ClientAssumption == listener \notin Clients

(* The bytes of the n-th request of a client, and how many it has sent. *)
Bytes(n) == [b \in 1 .. MsgLen |-> <<n, b>>]
Messages(c) == (arrived[c] + Len(net[c])) \div MsgLen

-----------------------------------------------------------------------------
(* createSocket: the calls it makes, in order, for one address. *)
if(b, s) == IF b THEN <<s>> ELSE <<>>

(* A socket that is not blocking sends what it has at once, too. *)
NonBlocking(is_udp) == <<"setNonBlocking">> \o if(~is_udp, "setNoDelay")
SetTTL(multicast) == IF multicast THEN "setMcastTTL" ELSE "setTTL"
(* atoi(ip) & 0xe0 *)
is_multicast(octet) == (octet \div 32) % 8 # 0
Steps(is_udp, is_blocking, is_listening, ttl, octet, needs_so_timestamp) ==
    <<"getaddrinfo", "socket">>
    \o (IF is_blocking THEN <<>> ELSE NonBlocking(is_udp))
    \o if(~is_listening, "connect")
    \o if(is_listening, "setsockopt SO_REUSEADDR") \o if(is_listening, "bind")
    \o if(~is_udp /\ is_listening, "listen")
    \o if(is_udp /\ ttl # 0, SetTTL(is_multicast(octet)))
    \o if(needs_so_timestamp, "setSOTimestamp")

(* Any call may fail.  Each failure makes the function return -1 but that   *)
(* of connect: line 142 compares its result with 1, which connect never     *)
(* returns, and the rest goes on with a socket that is not connected.       *)
createSocket(steps) ==
    {[fd |-> TRUE, done |-> {steps[i] : i \in DOMAIN steps}]}
    \cup {[fd |-> FALSE, done |-> {steps[i] : i \in 1 .. k - 1}] :
            k \in {i \in DOMAIN steps : steps[i] # "connect"}}
    \cup {[fd |-> TRUE, done |-> {steps[i] : i \in DOMAIN steps} \ {"connect"}] :
            k \in {i \in DOMAIN steps : steps[i] = "connect"}}

ListeningSocket == createSocket(Steps(FALSE, FALSE, TRUE, 0, 127, TRUE))
ConnectingSocket == createSocket(Steps(FALSE, FALSE, FALSE, 0, 127, TRUE))

TCPInit == /\ link = [c \in Clients |-> "none"] /\ queued = <<>>
           /\ om_socket = [c \in Clients |-> "stopped"]
           /\ net = [c \in Clients |-> <<>>] /\ kernel = [c \in Clients |-> <<>>]
           /\ ready = {} /\ pc = "listen"
           /\ sockets_ = <<>> /\ receive_sockets_ = <<>> /\ disconnected_sockets_ = <<>>
           /\ at = 1 /\ recv = FALSE
           /\ rcv_buffer_ = [c \in Clients |-> <<>>]
           /\ send_buffer_ = [c \in Clients |-> 0]
           /\ delivered = [c \in Clients |-> <<>>]
           /\ published = [c \in Clients |-> 0] /\ answered = [c \in Clients |-> 0]
           /\ arrived = [c \in Clients |-> 0] /\ missed = {}

-----------------------------------------------------------------------------
(* The clients and the kernel. *)

(* OrderGateway::start: TCPSocket::connect, with an ASSERT on its result.   *)
(* A connection gets into the backlog of a listening socket only.           *)
Connect(c) ==
    /\ om_socket[c] = "stopped"
    /\ \E s \in ConnectingSocket :
         /\ s.fd /\ "connect" \in s.done => pc # "listen"
         /\ om_socket' = [om_socket EXCEPT ![c] = IF s.fd THEN "started" ELSE "failed"]
         /\ IF s.fd /\ "connect" \in s.done
            THEN /\ link' = [link EXCEPT ![c] = "backlog"]
                 /\ queued' = Append(queued, c)
                 /\ ready' = ready \cup {listener}
                 /\ missed' = missed \ ToSet(queued)
            ELSE /\ link' = [link EXCEPT ![c] = "refused"]
                 /\ UNCHANGED <<queued, ready, missed>>
    /\ UNCHANGED <<net, kernel, arrived, pc, listVars, at, recv, bufferVars>>

Send(c) ==
    /\ link[c] \in {"backlog", "open"} /\ MapThenSumSet(Messages, Clients) < MaxMessages
    /\ net' = [net EXCEPT ![c] = @ \o Bytes(Messages(c) + 1)]
    /\ UNCHANGED <<link, queued, om_socket, kernel, arrived, missed, ready, pc, listVars, at,
                   recv, bufferVars>>

(* Bytes arrive in pieces of any length; an accepted socket is registered   *)
(* for EPOLLIN.                                                             *)
Arrive(c) ==
    /\ link[c] \in {"backlog", "open"}
    /\ \E n \in 1 .. Len(net[c]) :
         /\ kernel' = [kernel EXCEPT ![c] = @ \o SubSeq(net[c], 1, n)]
         /\ net' = [net EXCEPT ![c] = SubSeq(@, n + 1, Len(@))]
         /\ arrived' = [arrived EXCEPT ![c] = @ + n]
    /\ ready' = IF Contains(sockets_, c) THEN ready \cup {c} ELSE ready
    /\ UNCHANGED <<link, queued, om_socket, missed, pc, listVars, at, recv, bufferVars>>

(* The client's process ends: in good order, which the server sees as the   *)
(* end of what there is to read, or with a reset, which epoll reports as    *)
(* EPOLLERR | EPOLLHUP.  What has arrived can still be read.                *)
Leave(c) ==
    /\ link[c] \in {"backlog", "open"}
    /\ \E how \in {"fin", "reset"} : link' = [link EXCEPT ![c] = how]
    /\ net' = [net EXCEPT ![c] = <<>>]
    /\ ready' = IF Contains(sockets_, c) THEN ready \cup {c} ELSE ready
    /\ UNCHANGED <<queued, om_socket, kernel, arrived, missed, pc, listVars, at, recv, bufferVars>>

-----------------------------------------------------------------------------
(* TCPServer::listen.  Every failure is an ASSERT that ends the process. *)
Listen ==
    /\ pc = "listen"
    /\ \E s \in ListeningSocket : pc' = IF s.fd THEN "poll" ELSE "failed"
    /\ UNCHANGED <<kernelVars, ready, listVars, at, recv, bufferVars>>

Minus(list, gone) == SelectSeq(list, LAMBDA c : ~Contains(gone, c))

(* The first half of poll: del for every disconnected socket, epoll_wait    *)
(* and the loop over its events.  There are at most 1 + sockets_.size() of  *)
(* them, so none is left for the next time.  Sockets are not registered for *)
(* EPOLLOUT, so that send_sockets_ stays empty and is left out.             *)
Poll ==
    /\ pc = "poll"
    /\ sockets_' = Minus(sockets_, disconnected_sockets_)
    /\ receive_sockets_' = Minus(receive_sockets_, disconnected_sockets_)
    /\ LET seen == {c \in ready \ {listener} : Contains(sockets_', c) /\ link[c] = "reset"}
       IN  disconnected_sockets_' = disconnected_sockets_
             \o SetToSeq({c \in seen : ~Contains(disconnected_sockets_, c)})
    /\ ready' = {}
    /\ pc' = IF listener \in ready THEN "accept" ELSE "recv"
    /\ UNCHANGED <<kernelVars, at, recv, bufferVars>>

(* setNonBlocking, setNoDelay or epoll_add fails: an ASSERT ends the        *)
(* process.                                                                 *)
AcceptFails == pc' = "failed" /\ UNCHANGED <<link, ready, sockets_, receive_sockets_>>

(* Faulty: one connection is accepted for one event. *)
AcceptOne ==
    /\ pc = "accept" /\ queued # <<>>
    /\ queued' = Tail(queued)
    /\ LET c == Head(queued)
       IN  \/ /\ sockets_' = Append(sockets_, c)
              /\ receive_sockets_' = Append(receive_sockets_, c)
              /\ link' = [link EXCEPT ![c] = IF @ = "backlog" THEN "open" ELSE @]
              /\ ready' = IF kernel[c] # <<>> \/ link[c] # "backlog" THEN ready \cup {c} ELSE ready
              /\ pc' = "recv"
           \/ AcceptFails
    /\ UNCHANGED <<om_socket, net, kernel, arrived, missed, disconnected_sockets_, at, recv,
                   bufferVars>>

(* One round of the loop while (have_new_connection) with a connection.     *)
(* EPOLL_CTL_ADD looks at the socket: what it already has is an event.      *)
Accept ==
    /\ pc = "accept" /\ queued # <<>>
    /\ queued' = Tail(queued)
    /\ LET c == Head(queued)
       IN  \/ /\ sockets_' = Append(sockets_, c)
              /\ receive_sockets_' = Append(receive_sockets_, c)
              /\ link' = [link EXCEPT ![c] = IF @ = "backlog" THEN "open" ELSE @]
              /\ ready' = IF kernel[c] # <<>> \/ link[c] # "backlog" THEN ready \cup {c} ELSE ready
              /\ pc' = pc
           \/ AcceptFails
    /\ UNCHANGED <<om_socket, net, kernel, arrived, missed, disconnected_sockets_, at, recv,
                   bufferVars>>

(* accept returns -1: the backlog is empty; or there is no descriptor or no *)
(* memory left, and the backlog stays; or its first connection had an error *)
(* and is dropped.  The loop ends all the same.                             *)
NoConnection ==
    /\ pc = "accept"
    /\ pc' = "recv"
    /\ \/ UNCHANGED <<link, queued>>
       \/ /\ queued # <<>>
          /\ queued' = Tail(queued)
          /\ link' = [link EXCEPT ![Head(queued)] = IF @ = "backlog" THEN "reset" ELSE @]
    /\ missed' = missed \cup ToSet(queued)
    /\ UNCHANGED <<om_socket, net, kernel, arrived, ready, listVars, at, recv, bufferVars>>

(* OrderServer::recvCallback on a buffer: the whole requests in it, each    *)
(* the MsgLen bytes at its place, and what is kept.                         *)
Whole(buffer) == [k \in 1 .. Len(buffer) \div MsgLen |->
                    SubSeq(buffer, (k - 1) * MsgLen + 1, k * MsgLen)]
(* Faulty: what has been taken stays in the buffer. *)
RestAndTaken(buffer) == buffer
Rest(buffer) == SubSeq(buffer, (Len(buffer) \div MsgLen) * MsgLen + 1, Len(buffer))

(* The sending half of TCPSocket::sendAndRecv, on the buffer of c: all of   *)
(* it goes; or nothing does and the buffer is reset all the same; or a part *)
(* does, and the ASSERT ends the process.                                   *)
Flushed == IF Congested THEN {"sent", "blocked", "partial"} ELSE {"sent"}

(* TCPSocket::sendAndRecv on the next of receive_sockets_. *)
SendAndRecv ==
    /\ pc = "recv" /\ at <= Len(receive_sockets_)
    /\ LET c == receive_sockets_[at]
           buffer == rcv_buffer_[c] \o kernel[c]
       IN  /\ IF kernel[c] = <<>>
              THEN UNCHANGED <<rcv_buffer_, delivered, recv>>
              ELSE /\ rcv_buffer_' = [rcv_buffer_ EXCEPT ![c] = Rest(buffer)]
                   /\ delivered' = [delivered EXCEPT ![c] = @ \o Whole(buffer)]
                   /\ recv' = TRUE
           /\ kernel' = [kernel EXCEPT ![c] = <<>>]
           /\ \E how \in IF send_buffer_[c] = 0 THEN {"sent"} ELSE Flushed :
                pc' = IF how = "partial" THEN "failed" ELSE "recv"
           /\ IF send_buffer_[c] # 0 /\ link[c] = "fin"
              THEN link' = [link EXCEPT ![c] = "reset"] /\ ready' = ready \cup {c}
              ELSE UNCHANGED <<link, ready>>
           /\ send_buffer_' = [send_buffer_ EXCEPT ![c] = 0]
    /\ at' = at + 1
    /\ UNCHANGED <<queued, om_socket, net, arrived, missed, listVars, published, answered>>

(* recv_finished_callback_ if anything was received. *)
Finish ==
    /\ pc = "recv" /\ at > Len(receive_sockets_)
    /\ published' = IF recv THEN [c \in Clients |-> Len(delivered[c])] ELSE published
    /\ at' = 1 /\ recv' = FALSE
    /\ pc' = "respond"
    /\ UNCHANGED <<kernelVars, ready, listVars, rcv_buffer_, send_buffer_, delivered, answered>>

(* A response to c, which the order server has known since its first        *)
(* request: TCPSocket::send on the socket it is known by, whatever has      *)
(* become of that.  The orders of a client that has gone are filled as any. *)
Respond(c) ==
    /\ pc = "respond" /\ published[c] > 0 /\ answered[c] < MaxResponses
    /\ send_buffer_' = [send_buffer_ EXCEPT ![c] = @ + 1]
    /\ answered' = [answered EXCEPT ![c] = @ + 1]
    /\ UNCHANGED <<kernelVars, ready, pc, listVars, at, recv, rcv_buffer_, delivered, published>>

RoundEnds ==
    /\ pc = "respond"
    /\ pc' = "poll"
    /\ UNCHANGED <<kernelVars, ready, listVars, at, recv, bufferVars>>

TCPLoop == Poll \/ Accept \/ NoConnection \/ SendAndRecv \/ Finish \/ RoundEnds
Ended == pc = "failed" /\ UNCHANGED tcpVars

(* Of a process that has ended nothing more is told, nor of its clients. *)
TCPNext == \/ /\ pc # "failed"
              /\ \/ \E c \in Clients : Connect(c) \/ Send(c) \/ Arrive(c) \/ Leave(c) \/ Respond(c)
                 \/ Listen \/ TCPLoop
           \/ Ended

TCPSpec == TCPInit /\ [][TCPNext]_tcpVars

(* The order server's loop goes round for ever; clients and kernel need not *)
(* do anything.                                                             *)
FairTCPSpec == TCPSpec /\ WF_tcpVars(TCPLoop)

-----------------------------------------------------------------------------
(* Whatever pieces a request arrives in and however long its other bytes    *)
(* take, the order server sees each client's requests whole, once and in    *)
(* the order they were sent (order_server.h:58-90, tcp_socket.cpp:30-56).   *)
RequestsAreWhole ==
    \A c \in Clients : \A k \in DOMAIN delivered[c] : delivered[c][k] = Bytes(k)

(* Every request whose last byte has arrived is published: of a connection  *)
(* made while another was being accepted, of a client that has gone since,  *)
(* and, when accept failed with connections queued, of those as soon as one *)
(* more comes - until then nothing looks at them.  An event is reported     *)
(* once, and the listening socket's stands for any number of connections    *)
(* (tcp_server.cpp:103-109).                                                *)
EveryRequestPublished ==
    \A c \in Clients, n \in 1 .. MaxMessages :
      arrived[c] >= n * MsgLen /\ c \notin missed /\ pc # "failed"
        ~> published[c] >= n \/ c \in missed \/ pc = "failed"

(* "Accept new connection if one was detected" (tcp_server.cpp:101): while  *)
(* the loop is anywhere else no connection waits without an event.          *)
NoConnectionForgotten ==
    pc # "accept" /\ queued # <<>> => listener \in ready \/ pc = "failed"

(* A gateway that has started has a connection: "Unable to connect to ip"   *)
(* (order_gateway.h) ends it otherwise.                                     *)
StartedIsConnected == \A c \in Clients : om_socket[c] = "started" => link[c] # "refused"

(* A round of the loop leaves nothing in a send buffer: what a round writes *)
(* has TCPBufferSize bytes of room (tcp_socket.h:7, tcp_socket.cpp:20).     *)
BuffersEmptied ==
    pc = "recv" /\ at > Len(receive_sockets_) => \A c \in Clients : send_buffer_[c] = 0
=============================================================================
