-------------------------------- MODULE Relay --------------------------------
(***************************************************************************)
(* The event loops of the two samples (src/samples/fec_kcp_client.cpp and  *)
(* fec_kcp_server.cpp): a local application talks to the client end over   *)
(* UDP, the server end talks to a remote application, and the client       *)
(* reaches the server from an address that may change.                     *)
(*                                                                         *)
(* KCP and the FEC layer below it are what KcpLink and FecLink show them   *)
(* to be: out is a stream of messages, of which the peer has the first     *)
(* got, and a flush writes one datagram with what is not yet acknowledged. *)
(* epoll_wait reports each ready descriptor once in its batch, so a        *)
(* handler is one action.  The timer descriptor is never read and so is    *)
(* always ready.                                                           *)
(***************************************************************************)
EXTENDS Naturals, Sequences, FiniteSets

CONSTANTS
    Addrs,      \* addresses the client's datagrams may come from
    NoAddr,     \* all zeros
    Lens,       \* lengths of the applications' messages
    MaxMsgs,    \* bound: messages each application sends
    MaxFaults,  \* bound: changes of address and failed calls of recvfrom
    MaxNet      \* bound: datagrams in flight

Ends == {"client", "server"}
Peer(e) == IF e = "client" THEN "server" ELSE "client"

ASSUME RelayAssumption ==
    /\ Addrs # {} /\ NoAddr \notin Addrs \union {"server"}
    /\ Lens \subseteq Nat
    /\ MaxMsgs \in [Ends -> Nat]
    /\ MaxFaults \in Nat /\ MaxNet \in Nat

VARIABLES
    running,    \* "yes", or "no" before and if init fails "failed"
    out,        \* lengths of the messages given to ikcp_send
    acked,      \* how many of them are known to have arrived
    got,        \* how many of the peer's have arrived
    owe,        \* acknowledgements to send
    read,       \* how many of those that arrived ikcp_recv has handed out
    net,        \* datagrams in flight
    addr,       \* the address the client's datagrams come from
    addr_,      \* sp_conn->addr_ of the server: where its datagrams go (not
                \* initialized, and not used before the first recvfrom)
    local_client,   \* the client has heard from its application
    asked,          \* the remote application has heard from the server
    faults

kcpVars == <<out, acked, got, owe>>
appVars == <<read, local_client, asked>>
vars == <<running, kcpVars, appVars, net, addr, addr_, faults>>

Up(e) == running[e] = "yes"

\* there is something a flush would write
Speaks(e) == acked[e] < Len(out[e]) \/ owe[e]

Init ==
    /\ running = [e \in Ends |-> "no"]
    /\ out = [e \in Ends |-> <<>>]
    /\ acked = [e \in Ends |-> 0]
    /\ got = [e \in Ends |-> 0]
    /\ owe = [e \in Ends |-> FALSE]
    /\ read = [e \in Ends |-> 0]
    /\ net = {}
    /\ addr = CHOOSE a \in Addrs : TRUE
    /\ addr_ = NoAddr
    /\ local_client = FALSE
    /\ asked = FALSE
    /\ faults = 0

\* init: sockets, epoll and timer.  new_listen_socket returns nothing when it
\* succeeds and its result is tested, so success may be taken for a failure.
Start(e, taken) ==
    /\ running[e] = "no"
    /\ running' = [running EXCEPT ![e] = IF taken THEN "yes" ELSE "failed"]
    /\ UNCHANGED <<kcpVars, appVars, net, addr, addr_, faults>>

(***************************************************************************)
(* The application's socket: recvfrom or recv, then ikcp_send.  The remote *)
(* application only answers: it does not know the server's port before.    *)
(***************************************************************************)
\* mutant: the sender is not remembered
HeardFromNobody(e) == local_client

HeardFrom(e) == local_client \/ e = "client"

HandleApp(e, len) ==
    /\ Up(e)
    /\ Len(out[e]) < MaxMsgs[e]
    /\ e = "server" => asked
    /\ out' = [out EXCEPT ![e] = Append(@, len)]
    /\ local_client' = HeardFrom(e)
    /\ UNCHANGED <<running, acked, got, owe, read, asked, net, addr, addr_,
                   faults>>

(***************************************************************************)
(* The timer: ikcp_update flushes (or not, if that is not due yet), and    *)
(* what can be read is handed on.                                          *)
(***************************************************************************)
\* FecEncodeManager::send_data: the client's socket is connected
Destination(e) == IF e = "client" THEN "server" ELSE addr_

Datagram(e) ==
    [to |-> Destination(e), from |-> IF e = "client" THEN addr ELSE "server",
     low |-> acked[e], high |-> Len(out[e]), ack |-> got[e]]

\* udpout is called and its result not looked at: a send to no address fails
\* and its acknowledgements are forgotten all the same
Flush(e) ==
    IF Speaks(e)
    THEN /\ net' = IF Destination(e) = NoAddr THEN net
                   ELSE net \union {Datagram(e)}
         /\ owe' = [owe EXCEPT ![e] = FALSE]
    ELSE UNCHANGED <<net, owe>>

Message(e, i) == out[Peer(e)][i]

\* mutant: an empty message is taken for an empty queue and not removed
DrainBefore(e, n, fails) ==
    /\ \A i \in (read[e] + 1)..n : Message(e, i) > 0
    /\ n < got[e] => Message(e, n + 1) = 0

\* the loop around ikcp_recv ends with message n: nothing is left, or n is
\* empty, or the server could not send it on
Drain(e, n, fails) ==
    /\ \A i \in (read[e] + 1)..(n - 1) : Message(e, i) > 0
    /\ IF fails THEN e = "server" /\ n > read[e] /\ Message(e, n) > 0
       ELSE n = got[e] \/ (n > read[e] /\ Message(e, n) = 0)

\* the server has sent a message on: not an empty one, nor one that failed
SentOn(n, fails) ==
    \E i \in (read["server"] + 1)..n :
        Message("server", i) > 0 /\ ~(fails /\ i = n)

HandleTimer(e, n, flush, fails) ==
    /\ Up(e)
    /\ IF flush THEN Flush(e) ELSE UNCHANGED <<net, owe>>
    /\ Drain(e, n, fails)
    /\ read' = [read EXCEPT ![e] = n]
    /\ asked' = (asked \/ (e = "server" /\ SentOn(n, fails)))
    /\ UNCHANGED <<running, out, acked, got, local_client, addr, addr_, faults>>

(***************************************************************************)
(* The network socket: FecDecode and ikcp_input.  The server keeps the     *)
(* address the datagram came from, and zeros if there was none.            *)
(***************************************************************************)
\* mutant: the first address is kept
ReplyFirst(from) == IF addr_ = NoAddr THEN from ELSE addr_

ReplyTo(from) == from

Reaches(d, e) == d.to = IF e = "client" THEN addr ELSE "server"

imax(a, b) == IF a >= b THEN a ELSE b

\* whole: what came completes a datagram of KCP, and ikcp_input gets it; else
\* it waits in the decoder, and for KCP the datagram may never come
HandleNet(e, d, whole) ==
    /\ Up(e)
    /\ Reaches(d, e)
    /\ net' = net \ {d}
    /\ IF whole
       THEN /\ got' = [got EXCEPT ![e] = imax(@, d.high)]
            /\ acked' = [acked EXCEPT ![e] = imax(@, d.ack)]
            /\ owe' = [owe EXCEPT ![e] = @ \/ d.low < d.high]
       ELSE UNCHANGED <<got, acked, owe>>
    /\ addr_' = IF e = "server" THEN ReplyTo(d.from) ELSE addr_
    /\ UNCHANGED <<running, out, appVars, addr, faults>>

HandleNetFailed ==
    /\ Up("server")
    /\ faults < MaxFaults
    /\ faults' = faults + 1
    /\ addr_' = NoAddr
    /\ UNCHANGED <<running, kcpVars, appVars, net, addr>>

(***************************************************************************)
(* The network: a datagram is lost, the client's address changes.          *)
(***************************************************************************)
Lose(d) ==
    /\ net' = net \ {d}
    /\ UNCHANGED <<running, kcpVars, appVars, addr, addr_, faults>>

Rebind(a) ==
    /\ a # addr
    /\ faults < MaxFaults
    /\ faults' = faults + 1
    /\ addr' = a
    /\ UNCHANGED <<running, kcpVars, appVars, net, addr_>>

Timer(e, flush) ==
    \E n \in read[e]..got[e], fails \in BOOLEAN :
        HandleTimer(e, n, flush, fails) /\ Cardinality(net') <= MaxNet

Next ==
    \/ \E e \in Ends :
        \/ \E taken \in BOOLEAN : Start(e, taken)
        \/ \E len \in Lens : HandleApp(e, len)
        \/ \E flush \in BOOLEAN : Timer(e, flush)
        \/ \E d \in net, whole \in BOOLEAN : HandleNet(e, d, whole)
    \/ HandleNetFailed
    \/ \E d \in net : Lose(d)
    \/ \E a \in Addrs : Rebind(a)

Spec == Init /\ [][Next]_vars

(***************************************************************************)
(* Fairness: the loop runs and flushes again and again; a datagram leaves  *)
(* the network in the end, and not all those that bring news are lost.     *)
(***************************************************************************)
News(d, e) ==
    /\ Reaches(d, e)
    /\ \/ d.high > got[e] \/ d.ack > acked[e]
       \/ e = "server" /\ d.from = addr /\ addr_ # addr

Hears(e) == \E d \in net : News(d, e) /\ HandleNet(e, d, TRUE)

Leaves(d) == Lose(d) \/ \E e \in Ends : HandleNet(e, d, TRUE)

Fairness ==
    /\ WF_vars(\E d \in net : Leaves(d))
    /\ \A e \in Ends :
        /\ SF_vars(Timer(e, TRUE))
        /\ SF_vars(Hears(e))

FairSpec == Spec /\ Fairness

-------------------------------------------------------------------------------
(***************************************************************************)
(* Properties                                                              *)
(***************************************************************************)

\* The server's answers reach the client, whatever address it comes from and
\* although a failed recvfrom or a late datagram of an old address makes the
\* server forget the right one, unless the client has nothing to say: the
\* server does not find it then, but any message of the local application
\* sets that right (fec_kcp_server.cpp:72-76, fec_manager.cpp:38-46).
AnswersReturn ==
    \A n \in 1..MaxMsgs["server"] :
        Len(out["server"]) >= n ~>
            \/ got["client"] >= n
            \/ addr_ # addr /\ ~Speaks("client")

\* What has arrived is read in the end, also behind an empty message, which
\* ends the loop as an empty queue does, and behind a failed send
\* (fec_kcp_client.cpp:114-123, fec_kcp_server.cpp:113-127).
NothingStuck ==
    \A e \in Ends : \A n \in 1..MaxMsgs[Peer(e)] :
        got[e] >= n ~> read[e] >= n

\* The client never has an answer before it knows where to send it: what it
\* reads it can forward (fec_kcp_client.cpp:42, 96, 122).
AnswersHaveAddressee == read["client"] > 0 => local_client
=============================================================================
