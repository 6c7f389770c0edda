-------------------------------- MODULE Tcp --------------------------------
(***************************************************************************)
(* GNRC TCP (sys/net/gnrc/transport_layer/tcp): a client that opens        *)
(* connections and a server with one listening TCB, each with a user       *)
(* thread that calls the API and an event loop that hands packets and      *)
(* timeouts to the FSM, over a network that loses, delays and duplicates   *)
(* packets.  A call of the FSM holds fsm_lock and is one step.             *)
(*                                                                         *)
(* The operators on a TCB `s' follow gnrc_tcp_fsm.c and gnrc_tcp_pkt.c;    *)
(* s.out collects the packets handed to the network during the call.       *)
(***************************************************************************)
EXTENDS Naturals, Sequences

CONSTANTS
    Client, Server,
    None,           \* no packet (NULL)
    SeqMod,         \* sequence numbers are taken modulo SeqMod (2^32)
    Iss, FirstIss,  \* the initial sequence numbers random_uint32() draws
    MSS,            \* CONFIG_GNRC_TCP_MSS
    Window,         \* CONFIG_GNRC_TCP_DEFAULT_WINDOW, also GNRC_TCP_RCV_BUF_SIZE
    ToSend,         \* how many bytes a peer has to send on a connection
    MaxOpens,       \* how often the client opens a connection
    MaxFaults,      \* how many packets the network loses, delays, duplicates,
                    \* and how many timeouts, aborts and stops there are
    MaxInFlight     \* timers fire while fewer packets are under way, and
                    \* packets are duplicated while there are no more

Peers == {Client, Server}

ASSUME TcpAssumption ==
    /\ Client # Server
    /\ {SeqMod, MSS, Window, MaxOpens, MaxFaults, MaxInFlight} \subseteq Nat
    /\ Iss \subseteq 0 .. SeqMod - 1 /\ FirstIss \in Iss
    /\ MSS >= 1 /\ Window >= MSS /\ SeqMod > 4 * Window
    /\ ToSend \in [Peers -> Nat]

VARIABLES
    tcb,            \* gnrc_tcp_tcb_t of each peer
    user,           \* the API call of each peer's user thread and its locals
    loop,           \* what each peer's event loop is about to do, and to which packet
    net,            \* the packets on their way to each peer
    opens,          \* connections opened by the client so far
    faults,         \* faults so far
    sent,           \* bytes a peer has given to each connection (history)
    gave_up,        \* the connections on which a timeout of the user cleared the
                    \* retransmission queue (history)
    read            \* bytes a peer's user has received (history)

vars == <<tcb, user, loop, net, opens, faults, sent, gave_up, read>>

Other(p) == IF p = Client THEN Server ELSE Client

Plus(x, y) == (x + y) % SeqMod
Minus(x, y) == (x + SeqMod - y) % SeqMod

\* The build wraps signed integers (-fwrapv), so x - y is negative when it is
\* in the upper half of the range.
LSS_32_BIT(x, y) == 2 * Minus(x, y) >= SeqMod
LEQ_32_BIT(x, y) == x = y \/ LSS_32_BIT(x, y)
INSIDE_WND(l_ed, seq_num, r_ed) ==
    LEQ_32_BIT(l_ed, seq_num) /\ LSS_32_BIT(seq_num, r_ed)

-----------------------------------------------------------------------------
(* Packets (gnrc_tcp_pkt.c)                                                *)

\* conn is the history of a packet: the connection it was sent on.
pkt_build(s, ctl, seq_num, ack_num, payload) ==
    [ctl |-> ctl, seq |-> seq_num, ack |-> ack_num, wnd |-> s.rcv_wnd,
     data |-> payload, conn |-> s.conn]

get_pay_len(pkt) == Len(pkt.data)

get_seg_len(pkt) ==
    get_pay_len(pkt) + (IF "SYN" \in pkt.ctl THEN 1 ELSE 0)
                     + (IF "FIN" \in pkt.ctl THEN 1 ELSE 0)

pkt_send(s, pkt, seq_con) ==
    [s EXCEPT !.snd_nxt = Plus(@, seq_con), !.out = Append(@, pkt)]

\* The queue holds one packet: a second one is sent, but never again.
\* The retransmission timer is set for as long as the queue holds a packet.
setup_retransmit(s, pkt) ==
    IF s.pkt_retransmit = None THEN [s EXCEPT !.pkt_retransmit = pkt] ELSE s

sends_reliably(s, pkt) == pkt_send(setup_retransmit(s, pkt), pkt, get_seg_len(pkt))

sends_ack(s) ==
    pkt_send(s, pkt_build(s, {"ACK"}, s.snd_nxt, s.rcv_nxt, <<>>), 0)

sends_reset(s, seq_num, ack_num) ==
    pkt_send(s, pkt_build(s, {"RST"}, seq_num, ack_num, <<>>), 0)

build_reset_from_pkt(pkt) ==
    [ctl |-> IF "ACK" \in pkt.ctl THEN {"RST"} ELSE {"RST", "ACK"},
     seq |-> IF "ACK" \in pkt.ctl THEN pkt.ack ELSE 0,
     ack |-> IF "ACK" \in pkt.ctl THEN 0 ELSE Plus(pkt.seq, get_seg_len(pkt)),
     wnd |-> 0, data |-> <<>>, conn |-> pkt.conn]

chk_seq_num(s, seq_num, seg_len) ==
    LET r_edge == Plus(s.rcv_nxt, s.rcv_wnd)
        last_seq == Minus(Plus(seq_num, seg_len), 1)
    IN  \/ seg_len = 0 /\ s.rcv_wnd = 0 /\ s.rcv_nxt = seq_num
        \/ seg_len = 0 /\ s.rcv_wnd > 0 /\ INSIDE_WND(s.rcv_nxt, seq_num, r_edge)
        \/ /\ seg_len > 0 /\ s.rcv_wnd > 0
           /\ \/ INSIDE_WND(s.rcv_nxt, seq_num, r_edge)
              \/ INSIDE_WND(s.rcv_nxt, last_seq, r_edge)

acknowledge(s, ack) ==
    LET pkt == s.pkt_retransmit
    IN  IF /\ pkt # None
           /\ LSS_32_BIT(Minus(Plus(pkt.seq, get_seg_len(pkt)), 1), ack)
        THEN [s EXCEPT !.pkt_retransmit = None]
        ELSE s

-----------------------------------------------------------------------------
(* The FSM (gnrc_tcp_fsm.c)                                                *)

clear_retransmit(s) == [s EXCEPT !.pkt_retransmit = None]

to_listen(s) == [s EXCEPT !.state = "LISTEN", !.accepted = FALSE]

\* A listening TCB goes back to LISTEN with the receive buffer it has.
to_closed(s) ==
    LET c == [clear_retransmit(s) EXCEPT !.notify = TRUE]
    IN  IF s.listening
        THEN to_listen(c)
        ELSE [c EXCEPT !.state = "CLOSED", !.raw = FALSE]

\* Mutant of to_connected: the waiting thread is not told.
to_connected_quietly(s, state) ==
    [s EXCEPT !.state = state,
              !.event_timeout = IF s.listening THEN "none" ELSE @]

to_connected(s, state) ==
    [s EXCEPT !.state = state, !.notify = TRUE,
              !.event_timeout = IF s.listening THEN "none" ELSE @]

transition_to(s, state) ==
    CASE state = "CLOSED" -> to_closed(s)
      [] state = "LISTEN" -> to_listen(s)
      [] state = "SYN_RCVD" ->
            [s EXCEPT !.state = state,
                      !.event_timeout = IF s.listening THEN "CONNECTION" ELSE @]
      [] state \in {"ESTABLISHED", "CLOSE_WAIT"} -> to_connected(s, state)
      [] state = "TIME_WAIT" -> [s EXCEPT !.state = state, !.event_timeout = "TIMEWAIT"]
      [] OTHER -> [s EXCEPT !.state = state]

fsm_call_open(s, iss) ==
    LET b == [s EXCEPT !.raw = TRUE, !.rcv_wnd = Window,
                       !.rcv_buf = IF s.raw THEN @ ELSE <<>>]
        a == transition_to([b EXCEPT !.iss = iss, !.snd_nxt = iss, !.snd_una = iss],
                           "SYN_SENT")
    IN  IF s.listening
        THEN transition_to(b, "LISTEN")
        ELSE sends_reliably(a, pkt_build(a, {"SYN"}, iss, 0, <<>>))

\* How many bytes _fsm_call_send() takes of len.
sendable(s, len) ==
    LET payload == Minus(Plus(s.snd_una, s.snd_wnd), s.snd_nxt)
    IN  IF payload > 0 /\ s.snd_wnd > 0 /\ s.pkt_retransmit = None
        THEN CHOOSE n \in {payload, MSS, len} : \A k \in {payload, MSS, len} : n <= k
        ELSE 0

fsm_call_send(s, data) ==
    LET n == sendable(s, Len(data))
    IN  IF n = 0 THEN s
        ELSE sends_reliably(s, pkt_build(s, {"ACK"}, s.snd_nxt, s.rcv_nxt,
                                         SubSeq(data, 1, n)))

\* Bound: a call reads one byte (len is 1).
fsm_call_recv(s) ==
    IF s.rcv_buf = <<>> THEN s
    ELSE LET g == [s EXCEPT !.rcv_buf = Tail(@)]
             free == Window - Len(g.rcv_buf)
         IN  IF free >= MSS THEN sends_ack([g EXCEPT !.rcv_wnd = free]) ELSE g

\* Mutant of fsm_call_close: the FIN is not put into the retransmission queue.
fsm_call_close_once(s) ==
    IF s.state \in {"SYN_RCVD", "ESTABLISHED", "CLOSE_WAIT"}
    THEN transition_to(pkt_send(s, pkt_build(s, {"FIN", "ACK"}, s.snd_nxt, s.rcv_nxt,
                                             <<>>), 1),
                       IF s.state = "CLOSE_WAIT" THEN "LAST_ACK" ELSE "FIN_WAIT_1")
    ELSE IF s.state = "LISTEN" THEN transition_to(s, "CLOSED") ELSE s

fsm_call_close(s) ==
    LET f == IF s.state \in {"SYN_RCVD", "ESTABLISHED", "CLOSE_WAIT"}
             THEN sends_reliably(s, pkt_build(s, {"FIN", "ACK"}, s.snd_nxt,
                                              s.rcv_nxt, <<>>))
             ELSE s
    IN  CASE s.state = "LISTEN" -> transition_to(f, "CLOSED")
          [] s.state \in {"SYN_RCVD", "ESTABLISHED"} -> transition_to(f, "FIN_WAIT_1")
          [] s.state = "CLOSE_WAIT" -> transition_to(f, "LAST_ACK")
          [] OTHER -> f

fsm_call_abort(s) ==
    transition_to(IF s.state \in {"SYN_RCVD", "ESTABLISHED", "FIN_WAIT_1",
                                  "FIN_WAIT_2", "CLOSE_WAIT"}
                  THEN sends_reset(s, s.snd_nxt, s.rcv_nxt) ELSE s, "CLOSED")

fsm_timeout_retransmit(s) == [s EXCEPT !.out = Append(@, s.pkt_retransmit)]

Garbage == <<0, 0>>

\* Mutant of fsm_send_probe: with the number of the next byte.
fsm_send_probe_next(s) ==
    pkt_send(s, pkt_build(s, {"ACK"}, s.snd_una, s.rcv_nxt, <<Garbage>>), 0)

fsm_send_probe(s) ==
    pkt_send(s, pkt_build(s, {"ACK"}, Minus(s.snd_una, 1), s.rcv_nxt, <<Garbage>>), 0)

-----------------------------------------------------------------------------
(* The FSM: a packet has been received (_fsm_rcvd_pkt)                     *)

\* The search for another TCB that handles the SYN finds none: a peer has one
\* TCB, and in LISTEN it has no peer_port.
rcvd_listen(s, pkt, iss) ==
    LET a == [s EXCEPT !.rcv_nxt = Plus(pkt.seq, 1), !.iss = iss, !.snd_una = iss,
                       !.snd_nxt = iss, !.snd_wnd = pkt.wnd, !.conn = pkt.conn]
    IN  IF "RST" \in pkt.ctl THEN s
        ELSE IF "ACK" \in pkt.ctl THEN pkt_send(s, build_reset_from_pkt(pkt), 0)
        ELSE IF "SYN" \in pkt.ctl
        THEN transition_to(sends_reliably(a, pkt_build(a, {"SYN", "ACK"}, iss, a.rcv_nxt,
                                                       <<>>)), "SYN_RCVD")
        ELSE s

\* A SYN without ACK never reaches a TCB in SYN_SENT (see Matches).
rcvd_syn_sent(s, pkt) ==
    LET a == [acknowledge([s EXCEPT !.rcv_nxt = Plus(pkt.seq, 1), !.snd_una = pkt.ack],
                          pkt.ack)
              EXCEPT !.snd_wnd = pkt.wnd, !.snd_wl1 = pkt.seq, !.snd_wl2 = pkt.ack]
    IN  IF "ACK" \in pkt.ctl /\ (pkt.ack <= s.iss \/ pkt.ack > s.snd_nxt)
        THEN IF "RST" \in pkt.ctl THEN s ELSE sends_reset(s, pkt.ack, 0)
        ELSE IF "RST" \in pkt.ctl
        THEN IF "ACK" \in pkt.ctl THEN transition_to(s, "CLOSED") ELSE s
        ELSE IF "SYN" \in pkt.ctl
        THEN transition_to(sends_ack(a), "ESTABLISHED")
        ELSE s

Synchronised == {"ESTABLISHED", "FIN_WAIT_1", "FIN_WAIT_2", "CLOSE_WAIT",
                 "CLOSING", "LAST_ACK"}

ack_establishes(s, pkt) ==
    IF s.state # "SYN_RCVD" THEN s
    ELSE IF LSS_32_BIT(s.snd_una, pkt.ack) /\ LEQ_32_BIT(pkt.ack, s.snd_nxt)
    THEN transition_to([s EXCEPT !.snd_wnd = pkt.wnd, !.snd_wl1 = pkt.seq,
                                 !.snd_wl2 = pkt.ack], "ESTABLISHED")
    ELSE sends_reset(s, pkt.ack, 0)

ack_acknowledges(s, pkt) ==
    IF LSS_32_BIT(s.snd_una, pkt.ack) /\ LEQ_32_BIT(pkt.ack, s.snd_nxt)
    THEN acknowledge([s EXCEPT !.snd_una = pkt.ack], pkt.ack)
    ELSE s

ack_updates_window(s, pkt) ==
    IF /\ LEQ_32_BIT(s.snd_una, pkt.ack) /\ LEQ_32_BIT(pkt.ack, s.snd_nxt)
       /\ \/ LSS_32_BIT(s.snd_wl1, pkt.seq)
          \/ s.snd_wl1 = pkt.seq /\ LEQ_32_BIT(s.snd_wl2, pkt.ack)
    THEN [s EXCEPT !.snd_wnd = pkt.wnd, !.snd_wl1 = pkt.seq, !.snd_wl2 = pkt.ack,
                   !.notify = TRUE]
    ELSE s

ack_of_fin(s) ==
    IF s.pkt_retransmit # None THEN s
    ELSE CASE s.state = "FIN_WAIT_1" -> transition_to(s, "FIN_WAIT_2")
           [] s.state = "CLOSING" -> transition_to(s, "TIME_WAIT")
           [] s.state = "LAST_ACK" -> transition_to(s, "CLOSED")
           [] OTHER -> s

rcvd_payload(s, pkt) ==
    LET n == IF Window - Len(s.rcv_buf) < get_pay_len(pkt)
             THEN Window - Len(s.rcv_buf) ELSE get_pay_len(pkt)
        b == IF s.rcv_nxt = pkt.seq
             THEN [s EXCEPT !.rcv_nxt = Plus(@, n),
                            !.rcv_buf = @ \o SubSeq(pkt.data, 1, n),
                            !.rcv_wnd = Window - Len(s.rcv_buf) - n,
                            !.notify = TRUE]
             ELSE s
    IN  IF /\ get_pay_len(pkt) > 0
           /\ s.state \in {"ESTABLISHED", "FIN_WAIT_1", "FIN_WAIT_2"}
        THEN IF "FIN" \in pkt.ctl THEN b ELSE sends_ack(b)
        ELSE s

rcvd_fin(s, pkt) ==
    LET f == sends_ack([s EXCEPT !.rcv_nxt = Plus(pkt.seq, get_seg_len(pkt))])
    IN  IF "FIN" \notin pkt.ctl THEN s
        ELSE CASE s.state \in {"SYN_RCVD", "ESTABLISHED"} -> transition_to(f, "CLOSE_WAIT")
               [] s.state = "FIN_WAIT_1" ->
                    transition_to(f, IF s.pkt_retransmit = None
                                     THEN "TIME_WAIT" ELSE "CLOSING")
               [] s.state \in {"FIN_WAIT_2", "TIME_WAIT"} -> transition_to(f, "TIME_WAIT")
               [] OTHER -> f

rcvd_other(s, pkt) ==
    LET e == ack_establishes(s, pkt)
        a == IF e.state \in Synchronised
             THEN ack_of_fin(ack_updates_window(ack_acknowledges(e, pkt), pkt))
             ELSE e
    IN  IF ~chk_seq_num(s, pkt.seq, get_pay_len(pkt))
        THEN IF "RST" \in pkt.ctl THEN s ELSE sends_ack(s)
        ELSE IF "RST" \in pkt.ctl
        THEN transition_to(s, IF s.state = "SYN_RCVD" /\ s.listening
                              THEN "LISTEN" ELSE "CLOSED")
        ELSE IF "SYN" \in pkt.ctl
        THEN transition_to(sends_reset(s, s.snd_nxt, s.rcv_nxt), "CLOSED")
        ELSE IF "ACK" \notin pkt.ctl THEN s
        ELSE IF e.state \in Synchronised /\ LSS_32_BIT(e.snd_nxt, pkt.ack)
        THEN sends_ack(e)
        ELSE IF e.state = "LAST_ACK" /\ a.state # "LAST_ACK" THEN a
        ELSE rcvd_fin(rcvd_payload(a, pkt), pkt)

fsm_rcvd_pkt(s, pkt, iss) ==
    CASE s.state = "LISTEN" -> rcvd_listen(s, pkt, iss)
      [] s.state = "SYN_SENT" -> rcvd_syn_sent(s, pkt)
      [] OTHER -> rcvd_other(s, pkt)

-----------------------------------------------------------------------------
(* The event loop (gnrc_tcp_eventloop.c)                                   *)

\* reopened is the history of a call: the event loop has put the TCB back to
\* LISTEN, or given it to the next connection, during the call.
Idle == [call |-> "none", at |-> "none", ret |-> 0, seen |-> "none",
         mbox |-> FALSE, note |-> FALSE, probing |-> FALSE, probe |-> FALSE,
         reopened |-> FALSE]

\* The event loop is in msg_receive().
Waiting == [at |-> "idle", pkt |-> None]

\* gnrc_tcp_tcb_init(), and gnrc_tcp_listen() on the server.
tcb_init ==
    [state |-> "CLOSED", listening |-> FALSE, accepted |-> FALSE, iss |-> FirstIss,
     snd_una |-> 0, snd_nxt |-> 0, snd_wnd |-> 0, snd_wl1 |-> 0, snd_wl2 |-> 0,
     rcv_nxt |-> 0, rcv_wnd |-> 0, rcv_buf |-> <<>>, raw |-> FALSE,
     pkt_retransmit |-> None, event_timeout |-> "none", expired |-> "none",
     notify |-> FALSE, out |-> <<>>, conn |-> 0]

Init ==
    /\ tcb = [p \in Peers |->
                IF p = Server
                THEN fsm_call_open([tcb_init EXCEPT !.listening = TRUE], 0)
                ELSE tcb_init]
    /\ user = [p \in Peers |-> Idle]
    /\ loop = [p \in Peers |-> Waiting]
    /\ net = [p \in Peers |-> <<>>]
    /\ opens = 0
    /\ faults = 0
    /\ sent = [p \in Peers |-> [c \in 1 .. MaxOpens |-> 0]]
    /\ gave_up = {}
    /\ read = [p \in Peers |-> <<>>]

\* A call of the FSM leaves the TCB s: its packets go to the network, and the
\* thread that waits at the mailbox is notified (mbox_try_put: a message more
\* makes no difference).
gnrc_tcp_fsm(p, s, u, n) ==
    /\ tcb' = [tcb EXCEPT ![p] = [s EXCEPT !.out = <<>>, !.notify = FALSE]]
    /\ user' = [user EXCEPT ![p] = [u EXCEPT !.note = @ \/ (s.notify /\ u.mbox)]]
    /\ net' = [n EXCEPT ![Other(p)] = @ \o s.out]

\* The TCB _receive() finds: a SYN is for a TCB in LISTEN, any other packet
\* for the TCB of its connection.
Matches(s, pkt) ==
    IF pkt.ctl = {"SYN"} THEN s.state = "LISTEN" ELSE s.state \notin {"CLOSED", "LISTEN"}

\* The user of p, whose TCB the event loop reopens.
Reopens(p) ==
    [user[p] EXCEPT !.reopened = user[p].call \in {"send", "recv", "close"}]

\* The TCB is found under the lock of the list, and the FSM is called after
\* the lock is given back: the packet is handed to a TCB that a call of the
\* user may have closed or put back to LISTEN meanwhile.
receive(p) ==
    /\ loop[p].at = "idle"
    /\ net[p] # <<>>
    /\ LET pkt == Head(net[p])
           rest == [net EXCEPT ![p] = Tail(@)]
       IN  IF Matches(tcb[p], pkt)
           THEN /\ loop' = [loop EXCEPT ![p] = [at |-> "found", pkt |-> pkt]]
                /\ net' = rest
           ELSE /\ net' = IF "RST" \in pkt.ctl THEN rest
                          ELSE [rest EXCEPT ![Other(p)] =
                                    Append(@, build_reset_from_pkt(pkt))]
                /\ UNCHANGED loop
    /\ UNCHANGED <<tcb, user, opens, faults, sent, gave_up, read>>

receive_calls(p) ==
    /\ loop[p].at = "found"
    /\ loop' = [loop EXCEPT ![p] = Waiting]
    /\ \E iss \in IF tcb[p].state = "LISTEN" THEN Iss \ {tcb[p].iss} ELSE {0} :
          gnrc_tcp_fsm(p, fsm_rcvd_pkt(tcb[p], loop[p].pkt, iss),
                       IF tcb[p].state = "LISTEN" THEN Reopens(p) ELSE user[p], net)
    /\ UNCHANGED <<opens, faults, sent, gave_up, read>>

Fault == faults < MaxFaults /\ faults' = faults + 1

Quiet(p) ==
    /\ net[Other(p)] = <<>> /\ Len(net[p]) < MaxInFlight
    /\ \A q \in Peers : loop[q].at = "idle"

\* MSG_TYPE_RETRANSMISSION.
retransmission(p) ==
    /\ loop[p].at = "idle"
    /\ tcb[p].pkt_retransmit # None
    /\ Quiet(p)
    /\ gnrc_tcp_fsm(p, fsm_timeout_retransmit(tcb[p]), user[p], net)
    /\ UNCHANGED <<loop, opens, faults, sent, gave_up, read>>

\* A timer that has expired is still in the queue of the event loop when it
\* is stopped: expired holds its message.
event_timeout(p) ==
    /\ tcb[p].event_timeout # "none"
    /\ IF tcb[p].event_timeout = "CONNECTION" THEN Fault ELSE UNCHANGED faults
    /\ tcb' = [tcb EXCEPT ![p].event_timeout = "none", ![p].expired = tcb[p].event_timeout]
    /\ UNCHANGED <<user, net, loop, opens, sent, gave_up, read>>

\* MSG_TYPE_TIMEWAIT.
timewait(p) ==
    /\ loop[p].at = "idle"
    /\ tcb[p].expired = "TIMEWAIT"
    /\ gnrc_tcp_fsm(p, transition_to([tcb[p] EXCEPT !.expired = "none"], "CLOSED"),
                    user[p], net)
    /\ UNCHANGED <<loop, opens, faults, sent, gave_up, read>>

\* MSG_TYPE_CONNECTION_TIMEOUT: two calls of the FSM.
listen_timeout(p) ==
    /\ loop[p].at = "idle"
    /\ tcb[p].expired = "CONNECTION"
    /\ loop' = [loop EXCEPT ![p].at = "reopen"]
    /\ gnrc_tcp_fsm(p, clear_retransmit([tcb[p] EXCEPT !.expired = "none"]), user[p], net)
    /\ UNCHANGED <<opens, faults, sent, gave_up, read>>

listen_reopens(p) ==
    /\ loop[p].at = "reopen"
    /\ loop' = [loop EXCEPT ![p] = Waiting]
    /\ gnrc_tcp_fsm(p, fsm_call_open(tcb[p], FirstIss), Reopens(p), net)
    /\ UNCHANGED <<opens, faults, sent, gave_up, read>>

-----------------------------------------------------------------------------
(* The API (gnrc_tcp.c): a call sets a mailbox, then tests and waits.      *)

Calls(call) == [Idle EXCEPT !.call = call, !.at = "test", !.mbox = TRUE]

In(p, call, at) == user[p].call = call /\ user[p].at = at

Goto(p, at) == user' = [user EXCEPT ![p].at = at]

Returns(p) == user' = [user EXCEPT ![p] = Idle]

gnrc_tcp_open(p) ==
    /\ p = Client
    /\ user[p] = Idle
    /\ tcb[p].state = "CLOSED"
    /\ opens < MaxOpens
    /\ opens' = opens + 1
    /\ \E iss \in Iss \ {tcb[p].iss} :
          gnrc_tcp_fsm(p, fsm_call_open([tcb[p] EXCEPT !.conn = opens + 1], iss),
                       Calls("open"), net)
    /\ UNCHANGED <<loop, faults, sent, gave_up, read>>

open_tests(p) ==
    /\ In(p, "open", "test")
    /\ IF tcb[p].state \in {"CLOSED", "ESTABLISHED", "CLOSE_WAIT"}
       THEN Returns(p) ELSE Goto(p, "wait")
    /\ UNCHANGED <<tcb, net, loop, opens, faults, sent, gave_up, read>>

\* accept looks for a connection before it sets the mailbox.
gnrc_tcp_accept(p) ==
    /\ user[p] = Idle
    /\ tcb[p].listening
    /\ ~tcb[p].accepted
    /\ IF tcb[p].state \in {"ESTABLISHED", "CLOSE_WAIT"}
       THEN tcb' = [tcb EXCEPT ![p].accepted = TRUE] /\ UNCHANGED user
       ELSE /\ user' = [user EXCEPT ![p] = [Calls("accept") EXCEPT !.mbox = FALSE]]
            /\ UNCHANGED tcb
    /\ UNCHANGED <<net, loop, opens, faults, sent, gave_up, read>>

accept_sets_mbox(p) ==
    /\ In(p, "accept", "test")
    /\ user' = [user EXCEPT ![p].at = "wait", ![p].mbox = TRUE]
    /\ UNCHANGED <<tcb, net, loop, opens, faults, sent, gave_up, read>>

accept_notified(p) ==
    /\ In(p, "accept", "wait")
    /\ user[p].note
    /\ IF tcb[p].state \in {"ESTABLISHED", "CLOSE_WAIT"}
       THEN tcb' = [tcb EXCEPT ![p].accepted = TRUE] /\ Returns(p)
       ELSE user' = [user EXCEPT ![p].note = FALSE] /\ UNCHANGED tcb
    /\ UNCHANGED <<net, loop, opens, faults, sent, gave_up, read>>

Connected(p) == p = Client \/ tcb[p].accepted

gnrc_tcp_send(p) ==
    /\ user[p] = Idle
    /\ Connected(p)
    /\ tcb[p].state \in {"ESTABLISHED", "CLOSE_WAIT"}
    /\ sent[p][tcb[p].conn] < ToSend[p]
    /\ user' = [user EXCEPT ![p] = Calls("send")]
    /\ UNCHANGED <<tcb, net, loop, opens, faults, sent, gave_up, read>>

\* Mutant of send_tests: returns when something was sent.
send_tests_once(p) ==
    /\ In(p, "send", "test")
    /\ IF user[p].ret # 0 \/ tcb[p].state = "CLOSED"
       THEN Returns(p)
       ELSE user' = [user EXCEPT ![p].at = "call",
                                 ![p].probing = @ \/ tcb[p].snd_wnd = 0,
                                 ![p].probe = @ \/ tcb[p].snd_wnd = 0]
    /\ UNCHANGED <<tcb, net, loop, opens, faults, sent, gave_up, read>>

\* Until something was sent and acknowledged.  A closed window: probing.
send_tests(p) ==
    /\ In(p, "send", "test")
    /\ IF \/ user[p].ret # 0 /\ tcb[p].pkt_retransmit = None
          \/ tcb[p].state = "CLOSED"
       THEN Returns(p)
       ELSE user' = [user EXCEPT ![p].at = "call",
                                 ![p].probing = @ \/ tcb[p].snd_wnd = 0,
                                 ![p].probe = @ \/ tcb[p].snd_wnd = 0]
    /\ UNCHANGED <<tcb, net, loop, opens, faults, sent, gave_up, read>>

send_calls(p) ==
    LET c == tcb[p].conn
        len == ToSend[p] - sent[p][c]
        data == [i \in 1 .. len |-> <<c, sent[p][c] + i>>]
        u == [user[p] EXCEPT !.at = "wait"]
        n == sendable(tcb[p], len)
    IN  /\ In(p, "send", "call")
        /\ IF user[p].ret = 0 /\ ~user[p].probing
           THEN /\ gnrc_tcp_fsm(p, fsm_call_send(tcb[p], data), [u EXCEPT !.ret = n], net)
                /\ sent' = [sent EXCEPT ![p][c] = @ + n]
           ELSE user' = [user EXCEPT ![p] = u] /\ UNCHANGED <<tcb, net, sent>>
        /\ UNCHANGED <<loop, opens, faults, gave_up, read>>

send_probes(p) ==
    /\ In(p, "send", "wait")
    /\ user[p].probe
    /\ Quiet(p)
    /\ gnrc_tcp_fsm(p, fsm_send_probe(tcb[p]),
                    [user[p] EXCEPT !.at = "test", !.probe = FALSE], net)
    /\ UNCHANGED <<loop, opens, faults, sent, gave_up, read>>

\* MSG_TYPE_NOTIFY_USER; send() stops probing when the window is open.
notified(p) ==
    LET open == user[p].call = "send" /\ tcb[p].snd_wnd > 0
    IN  /\ user[p].at = "wait"
        /\ user[p].note
        /\ user[p].call # "accept"
        /\ user' = [user EXCEPT ![p] =
                [@ EXCEPT !.at = "test", !.note = FALSE,
                          !.probing = @ /\ ~open,
                          !.probe = @ /\ ~(open /\ user[p].probing)]]
        /\ UNCHANGED <<tcb, net, loop, opens, faults, sent, gave_up, read>>

gnrc_tcp_recv(p) ==
    /\ user[p] = Idle
    /\ Connected(p)
    /\ tcb[p].state \in {"ESTABLISHED", "FIN_WAIT_1", "FIN_WAIT_2"}
    /\ user' = [user EXCEPT ![p] = Calls("recv")]
    /\ UNCHANGED <<tcb, net, loop, opens, faults, sent, gave_up, read>>

\* After the FIN, or with a timeout of 0, what is there is read without waiting.
recv_nonblocking(p) ==
    /\ user[p] = Idle
    /\ Connected(p)
    /\ tcb[p].state \in {"ESTABLISHED", "FIN_WAIT_1", "FIN_WAIT_2", "CLOSE_WAIT"}
    /\ tcb[p].rcv_buf # <<>>
    /\ gnrc_tcp_fsm(p, fsm_call_recv(tcb[p]), user[p], net)
    /\ read' = [read EXCEPT ![p] = Append(@, Head(tcb[p].rcv_buf))]
    /\ UNCHANGED <<loop, opens, faults, sent, gave_up>>

recv_tests(p) ==
    /\ In(p, "recv", "test")
    /\ IF tcb[p].state = "CLOSED" THEN Returns(p)
       ELSE user' = [user EXCEPT ![p].at = "call", ![p].seen = tcb[p].state]
    /\ UNCHANGED <<tcb, net, loop, opens, faults, sent, gave_up, read>>

recv_calls(p) ==
    LET got == tcb[p].rcv_buf # <<>>
    IN  /\ In(p, "recv", "call")
        /\ gnrc_tcp_fsm(p, fsm_call_recv(tcb[p]),
                        IF got \/ user[p].seen = "CLOSE_WAIT" THEN Idle
                        ELSE [user[p] EXCEPT !.at = "wait", !.seen = "none"], net)
        /\ read' = IF got THEN [read EXCEPT ![p] = Append(@, Head(tcb[p].rcv_buf))]
                   ELSE read
        /\ UNCHANGED <<loop, opens, faults, sent, gave_up>>

gnrc_tcp_close(p) ==
    /\ user[p] = Idle
    /\ Connected(p)
    /\ tcb[p].state # "CLOSED"
    /\ gnrc_tcp_fsm(p, fsm_call_close(tcb[p]), Calls("close"), net)
    /\ UNCHANGED <<loop, opens, faults, sent, gave_up, read>>

\* The server's TCB is no longer reopened when it is closed.  Clearing the
\* flag, outside of fsm_lock, is taken together with the call of the FSM.
gnrc_tcp_stop_listen(p) ==
    /\ Fault
    /\ user[p] = Idle
    /\ tcb[p].listening
    /\ gnrc_tcp_fsm(p, fsm_call_close([tcb[p] EXCEPT !.listening = FALSE]),
                    Calls("close"), net)
    /\ UNCHANGED <<loop, opens, sent, gave_up, read>>

close_tests(p) ==
    /\ In(p, "close", "test")
    /\ IF tcb[p].state \in {"CLOSED", "LISTEN"} THEN Returns(p) ELSE Goto(p, "wait")
    /\ UNCHANGED <<tcb, net, loop, opens, faults, sent, gave_up, read>>

gnrc_tcp_abort(p) ==
    /\ Fault
    /\ user[p] = Idle
    /\ Connected(p)
    /\ tcb[p].state # "CLOSED"
    /\ gnrc_tcp_fsm(p, fsm_call_abort(tcb[p]), Idle, net)
    /\ UNCHANGED <<loop, opens, sent, gave_up, read>>

\* MSG_TYPE_CONNECTION_TIMEOUT in the user's mailbox ends the connection.
connection_timeout(p) ==
    /\ Fault
    /\ user[p].at = "wait"
    /\ user[p].call # "accept"
    /\ gnrc_tcp_fsm(p, transition_to(tcb[p], "CLOSED"), Idle, net)
    /\ UNCHANGED <<loop, opens, sent, gave_up, read>>

\* MSG_TYPE_USER_SPEC_TIMEOUT ends the call.
user_timeout(p) ==
    /\ Fault
    /\ user[p].at = "wait"
    /\ user[p].call \in {"accept", "send", "recv"}
    /\ gnrc_tcp_fsm(p, IF user[p].call = "accept" THEN tcb[p] ELSE clear_retransmit(tcb[p]),
                    Idle, net)
    /\ gave_up' = IF user[p].call # "accept" /\ tcb[p].pkt_retransmit # None
                  THEN gave_up \cup {<<p, tcb[p].conn>>} ELSE gave_up
    /\ UNCHANGED <<loop, opens, sent, read>>

-----------------------------------------------------------------------------
(* The network                                                             *)

\* A packet is lost, overtaken by those behind it, or arrives twice.
network_fault(p) ==
    /\ net[p] # <<>>
    /\ Fault
    /\ \/ net' = [net EXCEPT ![p] = Tail(@)]
       \/ Len(net[p]) > 1 /\ net' = [net EXCEPT ![p] = Append(Tail(@), Head(@))]
       \/ Len(net[p]) <= MaxInFlight /\ net' = [net EXCEPT ![p] = Append(@, Head(@))]
    /\ UNCHANGED <<tcb, user, loop, opens, sent, gave_up, read>>

EventLoop(p) ==
    \/ receive(p) \/ receive_calls(p) \/ retransmission(p) \/ event_timeout(p)
    \/ timewait(p) \/ listen_timeout(p) \/ listen_reopens(p)

\* The steps of a call under way.
CallStep(p) ==
    \/ open_tests(p) \/ accept_sets_mbox(p) \/ accept_notified(p)
    \/ send_tests(p) \/ send_calls(p) \/ send_probes(p) \/ notified(p)
    \/ recv_tests(p) \/ recv_calls(p) \/ close_tests(p)

User(p) ==
    \/ gnrc_tcp_open(p) \/ gnrc_tcp_accept(p) \/ gnrc_tcp_send(p)
    \/ gnrc_tcp_recv(p) \/ recv_nonblocking(p) \/ gnrc_tcp_close(p)
    \/ gnrc_tcp_stop_listen(p) \/ gnrc_tcp_abort(p)
    \/ connection_timeout(p) \/ user_timeout(p)

Next == \E p \in Peers : EventLoop(p) \/ CallStep(p) \/ User(p) \/ network_fault(p)

Spec == Init /\ [][Next]_vars

-----------------------------------------------------------------------------
(* Properties                                                              *)

Received(p, c) == SelectSeq(read[p] \o tcb[p].rcv_buf, LAMBDA b : b[1] = c)

\* Whatever the network does, the bytes of a connection reach the peer's
\* buffer in order, none of them twice and none left out, and the byte a
\* window probe carries never does.
StreamInOrder ==
    \A p \in Peers : \A c \in 0 .. MaxOpens :
        LET r == Received(p, c) IN \A i \in DOMAIN r : r[i] = <<c, i>>

\* A connection is seen to be closed by the peer (the FIN is accepted) only
\* when all that the peer's gnrc_tcp_send() has sent on it has been received,
\* unless such a call gave up with -ETIMEDOUT.
EndOfStream ==
    \A p \in Peers :
        tcb[p].state \in {"CLOSE_WAIT", "LAST_ACK", "CLOSING", "TIME_WAIT"} =>
            LET c == tcb[p].conn
            IN  \/ Len(Received(p, c)) = sent[Other(p)][c]
                \/ <<Other(p), c>> \in gave_up

\* A thread that waits at its mailbox, with no message there, waits for
\* something that has not happened: the loops of gnrc_tcp_open(), _send(),
\* _recv() and _close() miss no change of the TCB, until it is reopened for
\* another connection.
NoLostNotify ==
    \A p \in Peers :
        LET s == tcb[p]
        IN  user[p].at = "wait" /\ ~user[p].note /\ ~user[p].reopened =>
                CASE user[p].call = "open" ->
                        s.state \notin {"CLOSED", "ESTABLISHED", "CLOSE_WAIT"}
                  [] user[p].call = "send" ->
                        /\ s.state # "CLOSED"
                        /\ user[p].ret = 0 \/ s.pkt_retransmit # None
                        /\ user[p].probing => user[p].probe
                  [] user[p].call = "recv" ->
                        s.rcv_buf = <<>> /\ s.state \notin {"CLOSED", "CLOSE_WAIT"}
                  [] user[p].call = "close" -> s.state \notin {"CLOSED", "LISTEN"}
                  [] OTHER -> TRUE

\* What has been sent and not acknowledged is in the retransmission queue,
\* although the queue has room for one packet only and a full queue is passed
\* over in silence.  Not so after gnrc_tcp_send() gave up and cleared the
\* queue, after gnrc_tcp_stop_listen(), which may close in SYN_RCVD, with the
\* SYN in the queue, and between the two calls of the FSM with which the event
\* loop clears the queue and reopens a listening TCB.
UnackedIsQueued ==
    \A p \in Peers :
        LET s == tcb[p]
        IN  /\ s.state \in Synchronised \cup {"SYN_SENT", "SYN_RCVD"}
            /\ s.snd_una # s.snd_nxt
            /\ p = Server => s.listening
            /\ loop[p].at # "reopen"
            => s.pkt_retransmit # None \/ <<p, s.conn>> \in gave_up
=============================================================================
