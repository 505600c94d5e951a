----------------------------- MODULE UdpSwitch -----------------------------
(***************************************************************************)
(* The switch of an established call from Tor to direct UDP and back       *)
(* (libdesktop/tcp.c: do_nat, setaddr, readudpout, stopudp and the NAT     *)
(* daemon of do_read; go_chat and the counters of libdesktop/crypto.c).    *)
(*                                                                         *)
(* The user of each end commands -S.  The ends tell each other over Tor    *)
(* where their new UDP sockets are, send SYNs there, and the first SYN     *)
(* that is heard switches an end to UDP.  -O switches both ends back.      *)
(* Tor keeps the order of what it carries, UDP loses and delays it, and    *)
(* either may overtake the other.                                          *)
(***************************************************************************)
EXTENDS Integers, Sequences, FiniteSets

CONSTANTS
    Ends,      \* the two ends of the call
    Tries,     \* NATTRIES: SYNs sent before an end gives up
    MaxStart,  \* bound: -S commands of an end
    MaxStop,   \* bound: -O commands of both ends
    MaxTalk,   \* bound: voice packets of an end
    MaxFail,   \* bound: errors of UDP sockets
    MaxHeld    \* bound: datagrams on their way to an end

ASSUME EndsAssumption == \E a, b \in Ends : a # b /\ Ends = {a, b}
ASSUME TriesAssumption == Tries \in Nat \ {0}
ASSUME BoundsAssumption ==
    /\ MaxStart \in Nat /\ MaxStop \in Nat /\ MaxTalk \in Nat
    /\ MaxFail \in Nat /\ MaxHeld \in Nat

VARIABLES
    end,     \* what each end knows
    tcp,     \* what is on its way to each end over Tor, in order
    udp,     \* the datagrams on their way to each end
    path,    \* the network carries datagrams to internal or to external addresses
    starts,  \* history: -S commands of each end
    stops,   \* history: -O commands
    fails,   \* history: errors of UDP sockets
    talks,   \* history: voice packets of each end
    notes    \* history: what has happened to each end, see Note

vars == <<end, tcp, udp, path, starts, stops, fails, talks, notes>>

-----------------------------------------------------------------------------
Peer(e) == CHOOSE p \in Ends : p # e

Via == {"int", "ext"}
\* Sockets are numbered: every one has a random port.  An address is a socket and
\* the way to it; the sender of a datagram is seen at the address of the same way.
Sock == 0 .. MaxStart
Addr == [sock : 1 .. MaxStart, via : Via]
Nowhere == [sock |-> 0, via |-> "int"]

Knowledge ==
    [sock : Sock,             \* udp_outsock, 0 when there is none
     inuse : BOOLEAN,         \* udp_outsock_flag is SOCK_INUSE, not SOCK_READY
     to : Addr \cup {Nowhere},  \* saddrUDPTo
     u_cnt : 0 .. Tries,
     int : Sock, ext : Sock,  \* Their_portUDPint, Their_portUDPext
     stun : BOOLEAN,          \* a STUN answer is on its way to the socket
     out_ctr : Nat, in_ctr : Nat]

Packet(t, n, s) == [t |-> t, n |-> n, sock |-> s]  \* "voice", "-U", "-S", "-O"
Syn(n, ask) == [t |-> "syn", n |-> n, ask |-> ask]
Datagram(m, from, dest, via) == [m |-> m, from |-> from, dest |-> dest, via |-> via]

\* stopped: -O was the last command given by anyone.  spent: an end has sent all its
\* SYNs.  failed: its UDP socket has failed and no SYN was sent since.  late: a
\* datagram has moved its in_ctr back.
Note == [stopped : BOOLEAN, spent : SUBSET Ends, failed : SUBSET Ends, late : SUBSET Ends]

-----------------------------------------------------------------------------
(* Sending.                                                                *)

Tor(e, m) == tcp' = [tcp EXCEPT ![Peer(e)] = Append(@, m)]

\* sendto: only the way the network carries leads anywhere.
Udp(e, from, m, a) ==
    IF a.via = path
    THEN /\ Cardinality(udp[Peer(e)]) < MaxHeld
         /\ udp' = [udp EXCEPT ![Peer(e)] = @ \cup {Datagram(m, from, a.sock, a.via)}]
    ELSE UNCHANGED udp

\* do_send: over UDP when the socket is in use, else over Tor.
DoSend(e, k, m) ==
    IF k.sock # 0 /\ k.inuse /\ k.to # Nowhere
    THEN Udp(e, k.sock, m, k.to) /\ UNCHANGED tcp
    ELSE Tor(e, m) /\ UNCHANGED udp

Know(e, k) == end' = [end EXCEPT ![e] = k]

\* do_data and do_send of a chat or voice packet.
Say(e, k, t, s) ==
    /\ Know(e, [k EXCEPT !.out_ctr = @ + 1])
    /\ DoSend(e, k, Packet(t, k.out_ctr, s))

-----------------------------------------------------------------------------
(* The switch to UDP.                                                      *)

\* connectudp("-U"): a socket on a new random port, and saddrUDPTo is cleared.
WithSocket(e) ==
    IF end[e].sock = 0
    THEN [end[e] EXCEPT !.sock = starts[e] + 1, !.inuse = FALSE, !.to = Nowhere]
    ELSE end[e]

\* do_nat, for -S (a STUN server is asked) and -S0.
DoNat(e, ask) ==
    LET k == [WithSocket(e) EXCEPT !.u_cnt = Tries, !.stun = @ \/ ask]
    IN  /\ starts[e] < MaxStart
        /\ ~end[e].inuse
        /\ Say(e, k, "-U", k.sock)
        /\ starts' = [starts EXCEPT ![e] = @ + 1]
        /\ notes' = [notes EXCEPT !.stopped = FALSE]
        /\ UNCHANGED <<path, stops, fails, talks>>

\* readudpout: the STUN answer counts only while the SYNs go on.
StunAnswer(e) ==
    LET k == [end[e] EXCEPT !.stun = FALSE]
    IN  /\ end[e].stun
        /\ IF k.u_cnt > 0 THEN Say(e, k, "-S", k.sock)
           ELSE Know(e, k) /\ UNCHANGED <<tcp, udp>>
        /\ UNCHANGED <<path, starts, stops, fails, talks, notes>>

StunLost(e) ==
    /\ end[e].stun
    /\ end' = [end EXCEPT ![e].stun = FALSE]
    /\ UNCHANGED <<tcp, udp, path, starts, stops, fails, talks, notes>>

\* Mutant: SYNs go on as long as an address is known.
TryingKnown(k) == k.int # 0 \/ k.ext # 0

Trying(k) == k.u_cnt > 0 /\ (k.int # 0 \/ k.ext # 0)

\* The NAT daemon of do_read: one SYN to the internal address, all others to the
\* external one; the addresses are forgotten with the last.
AfterSyn(k) ==
    LET left == [k EXCEPT !.u_cnt = @ - 1, !.int = 0]
    IN  IF left.u_cnt = 0 THEN [left EXCEPT !.ext = 0] ELSE left
NatSyn(e) ==
    LET k == end[e]
        a == IF k.int # 0 THEN [sock |-> k.int, via |-> "int"]
                          ELSE [sock |-> k.ext, via |-> "ext"]
    IN  /\ Trying(k)
        /\ Know(e, AfterSyn(k))
        /\ IF k.sock # 0 THEN Udp(e, k.sock, Syn(k.out_ctr, TRUE), a) ELSE UNCHANGED udp
        /\ notes' = [notes EXCEPT !.spent =
                        IF Trying(AfterSyn(k)) THEN @ ELSE @ \cup {e}]
        /\ UNCHANGED <<tcp, path, starts, stops, fails, talks>>

-----------------------------------------------------------------------------
(* Back to Tor.                                                            *)

\* stopudp: closes the socket; the SYN goes over Tor now.
StopUdp(k) ==
    [k EXCEPT !.sock = 0, !.inuse = FALSE, !.int = 0, !.ext = 0, !.u_cnt = 0, !.stun = FALSE]

\* Mutant: stopudp sends no SYN.
CommandOPlain(e) ==
    LET k == StopUdp(end[e])
    IN  /\ stops < MaxStop
        /\ stops' = stops + 1
        /\ Know(e, [k EXCEPT !.out_ctr = @ + 1])
        /\ Tor(e, Packet("-O", k.out_ctr, 0))
        /\ notes' = [notes EXCEPT !.stopped = TRUE, !.failed = @ \ {e}]
        /\ UNCHANGED <<udp, path, starts, fails, talks>>

\* The command -O: stopudp, and the chat message to the peer.
CommandO(e) ==
    LET k == StopUdp(end[e])
    IN  /\ stops < MaxStop
        /\ stops' = stops + 1
        /\ Know(e, [k EXCEPT !.out_ctr = @ + 1])
        /\ tcp' = [tcp EXCEPT ![Peer(e)] =
                      @ \o <<Syn(k.out_ctr, TRUE), Packet("-O", k.out_ctr, 0)>>]
        /\ notes' = [notes EXCEPT !.stopped = TRUE, !.failed = @ \ {e}]
        /\ UNCHANGED <<udp, path, starts, fails, talks>>

\* sock_close(-1): after an error the UDP socket is closed and nobody is told.
SocketFails(e) ==
    /\ fails < MaxFail
    /\ end[e].sock # 0
    /\ fails' = fails + 1
    /\ end' = [end EXCEPT ![e].sock = 0, ![e].inuse = FALSE, ![e].stun = FALSE]
    /\ notes' = [notes EXCEPT !.failed = @ \cup {e}]
    /\ UNCHANGED <<tcp, udp, path, starts, stops, talks>>

-----------------------------------------------------------------------------
(* Receiving.                                                              *)

\* go_syn: the counter shown counts only when it is ahead.
GoSyn(k, m) == [k EXCEPT !.in_ctr = IF m.n > @ THEN m.n ELSE @]

\* go_chat: what a message commands, besides being shown.
GoChat(k, m) ==
    CASE m.t = "-U" -> [k EXCEPT !.int = m.sock]
      [] m.t = "-S" -> [k EXCEPT !.ext = m.sock]
      [] m.t = "-O" -> StopUdp(k)
      [] OTHER -> k

\* Mutant: the end that is told to leave UDP sends no SYN.
ReplySynOnly(k, m) ==
    IF m.t = "syn" /\ m.ask THEN <<Syn(k.out_ctr, FALSE)>> ELSE <<>>

\* A SYN is answered over the connection it came by, -O is followed by a SYN.
Reply(k, m) ==
    CASE m.t = "syn" /\ m.ask -> <<Syn(k.out_ctr, FALSE)>>
      [] m.t = "-O" -> <<Syn(k.out_ctr, TRUE)>>
      [] OTHER -> <<>>

\* A packet over Tor is taken when it is the very next one (go_data).
Taken(k, m) == m.t = "syn" \/ m.n = k.in_ctr
HearTor(e) ==
    LET m == Head(tcp[e])
        k == end[e]
        rest == [tcp EXCEPT ![e] = Tail(@)]
    IN  /\ tcp[e] # <<>>
        /\ IF Taken(k, m)
           THEN /\ Know(e, IF m.t = "syn" THEN GoSyn(k, m)
                            ELSE GoChat([k EXCEPT !.in_ctr = m.n + 1], m))
                /\ tcp' = [rest EXCEPT ![Peer(e)] = @ \o Reply(k, m)]
                /\ notes' = IF m.t = "-O" THEN [notes EXCEPT !.failed = @ \ {e}] ELSE notes
           ELSE tcp' = rest /\ UNCHANGED <<end, notes>>
        /\ UNCHANGED <<udp, path, starts, stops, fails, talks>>

\* Mutant: an end switches to the address it was invited to, not to its sender's.
SwitchedInvited(k, d) ==
    [k EXCEPT !.to = IF k.ext # 0 THEN [sock |-> k.ext, via |-> "ext"] ELSE Nowhere,
              !.inuse = TRUE, !.u_cnt = 0, !.int = 0, !.ext = 0]

\* readudpout switches the socket to the sender of the SYN.
Switched(k, d) ==
    [k EXCEPT !.to = [sock |-> d.from, via |-> d.via], !.inuse = TRUE,
              !.u_cnt = 0, !.int = 0, !.ext = 0]

\* The answer to a SYN shows out_ctr.  The answer to an answer is its echo, with the
\* counter overwritten by a MAC, and changes nothing.
Echo == Syn(0, FALSE)
Answer(k, m) == IF m.ask THEN Syn(k.out_ctr, FALSE) ELSE Echo

\* A SYN over UDP: it switches an end that is trying, and is answered.
HearSyn(e, d) ==
    LET k == GoSyn(end[e], d.m)
        sent == [m |-> Answer(k, d.m), from |-> k.sock, dest |-> d.from, via |-> d.via]
        back == [udp EXCEPT ![e] = @ \ {d}]
        answered == [back EXCEPT ![Peer(e)] = @ \cup {sent}]
    IN  /\ d.m.t = "syn" /\ d.dest = end[e].sock
        /\ IF k.u_cnt > 0
           THEN Know(e, Switched(k, d)) /\ udp' = answered
           ELSE Know(e, k) /\ udp' = IF d.m.ask THEN answered ELSE back
        /\ Cardinality(udp'[Peer(e)]) <= MaxHeld
        /\ UNCHANGED <<tcp, path, starts, stops, fails, talks, notes>>

\* A voice packet over UDP: only from the address switched to, and the low bits of
\* the counter tell its number.
HearVoice(e, d) ==
    LET k == end[e]
    IN  /\ d.m.t = "voice" /\ d.dest = k.sock
        /\ udp' = [udp EXCEPT ![e] = @ \ {d}]
        /\ IF k.to = [sock |-> d.from, via |-> d.via]
           THEN /\ end' = [end EXCEPT ![e].in_ctr = d.m.n + 1]
                /\ notes' = [notes EXCEPT !.late =
                                IF d.m.n + 1 < k.in_ctr THEN @ \cup {e} ELSE @]
           ELSE UNCHANGED <<end, notes>>
        /\ UNCHANGED <<tcp, path, starts, stops, fails, talks>>

\* Datagrams are lost, those to a closed socket for certain.
Lose(e, d) ==
    /\ udp' = [udp EXCEPT ![e] = @ \ {d}]
    /\ UNCHANGED <<end, tcp, path, starts, stops, fails, talks, notes>>

Talk(e) ==
    /\ talks[e] < MaxTalk
    /\ talks' = [talks EXCEPT ![e] = @ + 1]
    /\ Say(e, end[e], "voice", 0)
    /\ UNCHANGED <<path, starts, stops, fails, notes>>

-----------------------------------------------------------------------------
Fresh == [sock |-> 0, inuse |-> FALSE, to |-> Nowhere, u_cnt |-> 0, int |-> 0, ext |-> 0,
          stun |-> FALSE, out_ctr |-> 0, in_ctr |-> 0]
Init ==
    /\ end = [e \in Ends |-> Fresh]
    /\ tcp = [e \in Ends |-> <<>>]
    /\ udp = [e \in Ends |-> {}]
    /\ path \in Via
    /\ starts = [e \in Ends |-> 0] /\ stops = 0 /\ fails = 0
    /\ talks = [e \in Ends |-> 0]
    /\ notes = [stopped |-> FALSE, spent |-> {}, failed |-> {}, late |-> {}]

User(e) == (\E ask \in BOOLEAN : DoNat(e, ask)) \/ CommandO(e) \/ Talk(e)
Network(e) ==
    \/ StunAnswer(e) \/ StunLost(e) \/ SocketFails(e)
    \/ \E d \in udp[e] : HearSyn(e, d) \/ HearVoice(e, d) \/ Lose(e, d)
Next == \E e \in Ends : User(e) \/ Network(e) \/ NatSyn(e) \/ HearTor(e)

Spec == Init /\ [][Next]_vars

-----------------------------------------------------------------------------
(* Properties.                                                             *)

TypeOK ==
    /\ end \in [Ends -> Knowledge]
    /\ path \in Via /\ notes \in Note
    /\ starts \in [Ends -> 0 .. MaxStart] /\ talks \in [Ends -> 0 .. MaxTalk]
    /\ stops \in 0 .. MaxStop /\ fails \in 0 .. MaxFail

\* Nothing is on its way and no program has anything left to do.
Quiet == \A e \in Ends :
    tcp[e] = <<>> /\ udp[e] = {} /\ ~end[e].stun /\ ~Trying(end[e])

OnUdp(e) == end[e].sock # 0 /\ end[e].inuse

\* "At any time any user can return to the Onion connection": -O is a packet that is
\* taken only when it is the very next one, and packets before it went over UDP, where
\* they may be lost.  When -O was the last command of anybody, both ends leave UDP.
BackTogether ==
    Quiet /\ notes.stopped /\ notes.late = {} => \A e \in Ends : end[e].sock = 0

\* Whatever was lost over UDP, an end hears the next packet its peer sends over Tor.
\* Not so when the peer's socket has failed, for sock_close tells nobody, or when a
\* datagram that came late has moved in_ctr back.
HearsTor ==
    Quiet => \A e \in Ends :
        OnUdp(Peer(e)) \/ Peer(e) \in notes.failed \/ e \in notes.late
          \/ end[e].in_ctr = end[Peer(e)].out_ctr

\* An end on UDP sends to a peer that listens there and sends back, unless that peer
\* has sent the last of its SYNs without having heard one.
Matches(e, p) == end[e].to = [sock |-> end[p].sock, via |-> path]
Together(e, p) == OnUdp(p) /\ Matches(e, p) /\ Matches(p, e)
SwitchTogether ==
    Quiet /\ stops = 0 /\ fails = 0 =>
        \A e \in Ends : OnUdp(e) => Together(e, Peer(e)) \/ Peer(e) \in notes.spent

\* "NAT traversal can fail.  In this case users will be able to continue communication
\* over Tor": when all is quiet both ends are on UDP or both are on Tor.
OneTransport ==
    Quiet /\ fails = 0 /\ notes.late = {} =>
        \A e \in Ends : OnUdp(e) => Together(e, Peer(e))

-----------------------------------------------------------------------------
(* The inductive invariant.                                                *)

Message ==
    [t : {"voice", "-O"}, n : Nat, sock : {0}] \cup [t : {"-U", "-S"}, n : Nat, sock : 1 .. MaxStart]
    \cup [t : {"syn"}, n : Nat, ask : BOOLEAN]
InAir == [m : {m \in Message : m.t \in {"voice", "syn"}},
          from : 1 .. MaxStart, dest : 1 .. MaxStart, via : {path}]

WiresOK == tcp \in [Ends -> Seq(Message)] /\ udp \in [Ends -> SUBSET InAir]

\* A socket in use has an address and sends no SYNs; a STUN answer comes to a socket.
SocketRight(e) ==
    /\ end[e].inuse => end[e].sock # 0 /\ end[e].to # Nowhere /\ end[e].u_cnt = 0
    /\ end[e].stun => end[e].sock # 0

\* A message that shows no counter after n.
UpTo(m, n) == IF m.t = "syn" THEN m.n <= n ELSE m.n < n

\* Nothing that comes to e shows a counter that its peer has not reached.
Bounded(e) ==
    LET n == end[Peer(e)].out_ctr IN
    /\ end[e].in_ctr <= n
    /\ \A i \in 1 .. Len(tcp[e]) : UpTo(tcp[e][i], n)
    /\ \A d \in udp[e] : UpTo(d.m, n)

\* What comes over Tor brings an end that waits for packet i up to packet n: after a SYN,
\* or from the beginning, there is packet after packet.
Brings(q, i, n) == \E j \in 0 .. Len(q) :
    /\ \A k \in j + 1 .. Len(q) : q[k].t # "syn" /\ q[k].n + (Len(q) + 1 - k) = n
    /\ IF j = 0 THEN i + Len(q) >= n ELSE q[j].t = "syn" /\ q[j].n + (Len(q) - j) = n

\* A peer that is on Tor is heard.
Caught(e) ==
    ~end[Peer(e)].inuse /\ Peer(e) \notin notes.failed /\ e \notin notes.late
    => Brings(tcp[e], end[e].in_ctr, end[Peer(e)].out_ctr)

\* What comes over Tor has a -O that will be taken: the SYN before it lets e wait for it,
\* and nothing that comes before it or over UDP lets e wait for more.
Stops(q, u, i) == \E j \in 1 .. Len(q) :
    /\ q[j].t = "-O" /\ i <= q[j].n
    /\ \A k \in 1 .. j - 1 : UpTo(q[k], q[j].n)
    /\ \A d \in u : UpTo(d.m, q[j].n)
    /\ IF j = 1 THEN i = q[j].n ELSE q[j - 1].t = "syn" /\ q[j - 1].n = q[j].n

\* Who has not left UDP yet is told.
Leaves(e) ==
    notes.stopped /\ notes.late = {} /\ end[e].sock # 0
    => end[Peer(e)].sock = 0 /\ Stops(tcp[e], udp[e], end[e].in_ctr)

\* Until somebody stops: an end on UDP sends to its peer, and a peer that has sent a
\* datagram goes on until it is on UDP, too, or has sent its SYNs.
Meets(e) ==
    LET p == Peer(e) IN
    stops = 0 /\ fails = 0 =>
        /\ \A i \in 1 .. Len(tcp[e]) : tcp[e][i].t # "-O"
        /\ \A d \in udp[e] : d.from = end[p].sock
        /\ end[e].inuse => end[e].to = [sock |-> end[p].sock, via |-> path]
        /\ udp[e] # {} \/ end[e].inuse => p \in notes.spent \/ Trying(end[p]) \/ end[p].inuse
        /\ end[e].sock # 0 /\ end[e].u_cnt = 0 => e \in notes.spent \/ end[e].inuse

SwitchInv ==
    /\ TypeOK /\ WiresOK
    /\ \A e \in Ends : SocketRight(e) /\ Bounded(e) /\ Caught(e) /\ Leaves(e) /\ Meets(e)
=============================================================================
