------------------------------ MODULE Doubling ------------------------------
(***************************************************************************)
(* An established call over Tor (libdesktop/tcp.c, with go_data, go_syn    *)
(* and go_chat of libdesktop/crypto.c).                                    *)
(*                                                                         *)
(* Each end dials the other's hidden service, so that a call has up to two *)
(* connections, the outgoing one of each end.  Every packet is sent over   *)
(* both and in_ctr keeps the first copy.  An end whose incoming connection *)
(* is the slower one asks the other, with the message -W, to dial again.   *)
(* The connections keep the order of what they carry and know nothing of   *)
(* each other.  After many rejected packets in a row in_ctr is moved       *)
(* blindly, as over UDP (module CounterSync).                              *)
(***************************************************************************)
EXTENDS Integers, Sequences, SequencesExt

CONSTANTS
    Alice, Bob,  \* the originator of the call and its acceptor
    Level,       \* rc_level of each end
    Near,        \* reconecttor obeys while rc_cnt is at most this: 5
    BadLimit,    \* bad_mac above this starts the resynchronisation: 64
    BadKept,     \* what bad_mac is set to by it: 60
    Step,        \* what in_ctr is moved by: 128
    Slip,        \* 1 on a turn of do_read that computes the bitrate, else 0
    MaxOut,      \* bound: an end speaks no more when out_ctr has reached this
    MaxDial,     \* bound: connections dialled by an end
    MaxUpset     \* bound: commands of the users and connections broken by the network

ASSUME EndsAssumption == Alice # Bob
ASSUME LevelAssumption == Level \in [{Alice, Bob} -> Int] /\ Near \in Int
ASSUME ResyncAssumption ==
    BadLimit \in Nat /\ BadKept \in 0 .. BadLimit /\ Step \in Nat \ {0} /\ Slip \in {0, 1}
ASSUME BoundsAssumption ==
    MaxOut \in Nat /\ MaxDial \in Nat \ {0} /\ MaxUpset \in Nat

VARIABLES
    end,      \* what each end knows
    wire,     \* what is on its way to each end of each connection
    backlog,  \* connections that wait for tcpaccept
    upsets    \* history: the commands and broken connections so far

vars == <<end, wire, backlog, upsets>>

-----------------------------------------------------------------------------
End == {Alice, Bob}
Peer(e) == CHOOSE p \in End : p # e

\* A connection: who dialled it, and which of his it is.
Conn == End \X (1 .. MaxDial)
None == <<>>

\* A socket; WAIT stands for the steps of SOCKS5, which know no connection yet.
Socket == [flag : {"IDDL", "WAIT"}, conn : {None}] \cup [flag : {"READY", "INUSE"}, conn : Conn]
Idle == [flag |-> "IDDL", conn |-> None]

\* The counter of the last SYN of a call, 0xFFFFFFFF, is above all others.
FinCtr == 1000

Packet(t, n) == [t |-> t, n |-> n]   \* "data", or the chat message "-W"
Syn(n, ask) == [t |-> "syn", n |-> n, ask |-> ask]
Inv == [t |-> "inv"]          \* the invite of the call
BusyInv == [t |-> "busy"]     \* the zeroed invite
Req == [t |-> "req"]          \* the request of a new call
Junk == [t |-> "junk"]        \* what tcpaccept sends in its place
Zero == [t |-> "zero"]        \* the byte that asks the other side to close
Eof == [t |-> "eof"]

Knowledge == [crp_state : {-1, 0, 3, 4}, out : Socket, in : Socket, dials : 0 .. MaxDial,
              out_ctr : Nat, in_ctr : Nat, rc_cnt : Int,
              rc_in : BOOLEAN, rc_out : BOOLEAN,
              bad_mac : Nat,
              blind : Nat]   \* history: what in_ctr was moved by since it last was a
                             \* counter shown by the partner

-----------------------------------------------------------------------------
(***************************************************************************)
(* The handlers are functions of a situation: one end and all wires.       *)
(***************************************************************************)

Shut(q) == q # <<>> /\ Last(q) = Eof

\* send(): nothing is carried any more once either side has closed.
Put(w, c, to, m) ==
    IF Shut(w[c][to]) THEN w ELSE [w EXCEPT ![c][to] = Append(@, m)]

\* close() by e.
CloseBy(w, c, e) == [Put(w, c, Peer(e), Eof) EXCEPT ![c][e] = <<Eof>>]

\* send() over a socket of e.
Send(s, e, c, m) == [s EXCEPT !.wire = Put(@, c, Peer(e), m)]

\* A socket that still waits for Tor, or none, has no connection to close.
CloseOut(s, e) ==
    [me |-> [s.me EXCEPT !.out = Idle],
     wire |-> IF s.me.out.conn = None THEN s.wire ELSE CloseBy(s.wire, s.me.out.conn, e)]
CloseIn(s, e) ==
    [me |-> [s.me EXCEPT !.in = Idle],
     wire |-> IF s.me.in.conn = None THEN s.wire ELSE CloseBy(s.wire, s.me.in.conn, e)]
HasOut(s) == s.me.out.flag # "IDDL"
HasIn(s) == s.me.in.flag # "IDDL"

\* do_send: over every TCP socket in use.
DoSend(s, e, m) ==
    LET o == IF s.me.out.flag = "INUSE" THEN Send(s, e, s.me.out.conn, m) ELSE s
    IN  IF s.me.in.flag = "INUSE" THEN Send(o, e, s.me.in.conn, m) ELSE o

\* do_data and do_send of one packet, which takes the next counter.
Say(s, e, t) ==
    DoSend([s EXCEPT !.me.out_ctr = @ + 1], e, Packet(t, s.me.out_ctr))

\* Mutant: a SYN shows the counter after the next packet's.
SendSynAhead(s, e, c, ask) == Send(s, e, c, Syn(s.me.out_ctr + 1, ask))
\* do_syn shows out_ctr and does not move it.
SendSyn(s, e, c, ask) == Send(s, e, c, Syn(s.me.out_ctr, ask))

\* What disconnect sends over a socket in use.
Farewell(s) == IF s.me.crp_state > 2 THEN Syn(FinCtr, TRUE) ELSE BusyInv

Disconnect(s, e) ==
    LET f == DoSend(s, e, Farewell(s))
        i == CloseIn(f, e)
        o == CloseOut(i, e)
    IN  [o EXCEPT !.me = [@ EXCEPT !.crp_state = 0, !.out_ctr = 0, !.in_ctr = 0,
                             !.rc_cnt = 0, !.rc_in = FALSE, !.rc_out = FALSE]]

\* Mutants: a lost connection ends the call, or never does, or takes the other along.
SockCloseHard(s, e) == Disconnect(s, e)
SockCloseSoft(s, e) == CloseIn(s, e)
SockCloseWrong(s, e) == IF HasOut(s) THEN CloseOut(s, e) ELSE Disconnect(s, e)
\* sock_close: the call ends with its last socket.
SockCloseOut(s, e) == IF HasIn(s) THEN CloseOut(s, e) ELSE Disconnect(s, e)
SockCloseIn(s, e) == IF HasOut(s) THEN CloseIn(s, e) ELSE Disconnect(s, e)

\* connecttor(0): the zero byte, since Tor does not pass on a close at once.
ConnectTor(s, e) ==
    LET z == IF s.me.out.conn # None THEN Send(s, e, s.me.out.conn, Zero) ELSE s
    IN  [CloseOut(z, e) EXCEPT !.me.out = [flag |-> "WAIT", conn |-> None]]

\* Mutant: no SYN after a new dialling.
DialAgainSilent(s, e) ==
    LET d == ConnectTor(s, e)
    IN  [d EXCEPT !.me = [@ EXCEPT !.rc_cnt = 0, !.rc_in = FALSE, !.rc_out = FALSE]]
\* The end of reconecttor and of init_dbl: dial again, and let a SYN over the
\* connection that stays tell both ends what was lost with the other.
DialAgain(s, e) ==
    LET d == ConnectTor(s, e)
        r == [d EXCEPT !.me = [@ EXCEPT !.rc_cnt = 0, !.rc_in = FALSE, !.rc_out = FALSE]]
    IN  SendSyn(r, e, r.me.in.conn, TRUE)

Reconecttor(s, e) ==
    IF s.me.in.flag = "INUSE" /\ Level[e] >= 0 /\ s.me.rc_cnt <= Near
    THEN DialAgain(s, e) ELSE s

\* The request for the other end to dial again, and a SYN over our outgoing
\* connection if it is in use.
AskToDial(s, e, cnt) ==
    LET r == [s EXCEPT !.me = [@ EXCEPT !.rc_in = FALSE, !.rc_out = FALSE]]
        w == [Say(r, e, "-W") EXCEPT !.me.rc_cnt = cnt]
    IN  IF w.me.out.flag = "INUSE" THEN SendSyn(w, e, w.me.out.conn, TRUE) ELSE w

\* Mutant: the counter of a SYN is taken to be used, as that of a packet is.
GoSynUsed(s, e, c, m) ==
    LET g == IF m.n > s.me.in_ctr
             THEN [s EXCEPT !.me = [@ EXCEPT !.in_ctr = m.n + 1, !.blind = 0]] ELSE s
    IN  IF g.me.in_ctr > FinCtr THEN Disconnect(g, e)
        ELSE IF m.ask THEN SendSyn(g, e, c, FALSE) ELSE g
\* go_syn, and its answer over the connection the SYN came by.
GoSyn(s, e, c, m) ==
    LET g == IF m.n > s.me.in_ctr
             THEN [s EXCEPT !.me = [@ EXCEPT !.in_ctr = m.n, !.blind = 0]] ELSE s
    IN  IF g.me.in_ctr = FinCtr THEN Disconnect(g, e)
        ELSE IF m.ask THEN SendSyn(g, e, c, FALSE) ELSE g

\* The MAC is wrong: over TCP only that of the very next packet is right.
Rejected(s) == [s EXCEPT !.me.bad_mac = @ + 1]

\* What e knows after the very next packet: checkdouble has noted by which of the
\* connections it came first.
Accepted(k, e, side) ==
    [k EXCEPT !.in_ctr = @ + 1, !.bad_mac = 0, !.blind = 0,
              !.rc_cnt = IF Level[e] > 0 THEN @ + side ELSE @]

\* go_data over TCP, whichever connection the packet comes by.
GoData(s, e, m, side) ==
    IF m.n # s.me.in_ctr THEN Rejected(s)
    ELSE LET g == [s EXCEPT !.me = Accepted(@, e, side)]
         IN  IF m.t = "-W" THEN Reconecttor(g, e) ELSE g

\* readtcpout and readtcpin of a packet that is no data.
InvOut(s, e) ==
    IF Level[e] > 0 THEN [s EXCEPT !.me.out.flag = "INUSE"]
    ELSE SockCloseOut(Send(s, e, s.me.out.conn, Zero), e)
InvIn(s, e) ==
    LET a == Send(s, e, s.me.in.conn, Inv)
    IN  IF Level[e] > 0 THEN [a EXCEPT !.me.in.flag = "INUSE"]
        ELSE SockCloseIn(Send(a, e, s.me.in.conn, Zero), e)

ReadOut(s, e, m) ==
    CASE m.t \in {"eof", "zero"} -> SockCloseOut(s, e)
      [] m.t = "syn" -> GoSyn(s, e, s.me.out.conn, m)
      [] m.t = "inv" /\ s.me.out.flag = "READY" -> InvOut(s, e)
      [] m.t = "busy" /\ s.me.out.flag = "READY" -> SockCloseOut(s, e)
      [] m.t \in {"data", "-W"} -> GoData([s EXCEPT !.me.rc_out = TRUE], e, m, 1)
      [] m.t = "junk" -> Rejected([s EXCEPT !.me.rc_out = TRUE])
      [] OTHER -> [s EXCEPT !.me.rc_out = TRUE]
ReadIn(s, e, m) ==
    CASE m.t \in {"eof", "zero"} -> SockCloseIn(s, e)
      [] m.t = "syn" -> GoSyn(s, e, s.me.in.conn, m)
      [] m.t = "inv" /\ s.me.in.flag = "READY" -> InvIn(s, e)
      [] m.t = "busy" /\ s.me.in.flag = "READY" -> SockCloseIn(s, e)
      [] m.t \in {"data", "-W"} -> GoData([s EXCEPT !.me.rc_in = TRUE], e, m, -1)
      [] m.t = "junk" -> Rejected([s EXCEPT !.me.rc_in = TRUE])
      [] OTHER -> [s EXCEPT !.me.rc_in = TRUE]

-----------------------------------------------------------------------------
\* The situation of e, and the step that leaves e and the wires as in s.
Here(e) == [me |-> end[e], wire |-> wire]
Becomes(e, s) == end' = [end EXCEPT ![e] = s.me] /\ wire' = s.wire
InCall(e) == end[e].crp_state > 2

\* do_snd: a packet of voice.
Voice(e) ==
    /\ InCall(e) /\ end[e].out_ctr < MaxOut
    /\ Becomes(e, Say(Here(e), e, "data"))
    /\ UNCHANGED <<backlog, upsets>>

\* What an end knows after it has moved in_ctr.
MovedOn(k) == [k EXCEPT !.bad_mac = BadKept, !.in_ctr = @ + Step, !.blind = @ + Step]
\* do_read after too many rejections: a SYN is emulated, which go_syn rejects and which is
\* answered over all sockets.
Restore(e) ==
    /\ InCall(e) /\ end[e].bad_mac > BadLimit
    /\ LET s == [Here(e) EXCEPT !.me = MovedOn(@)]
       IN  Becomes(e, IF s.me.in_ctr = FinCtr THEN Disconnect(s, e)
                      ELSE DoSend(s, e, Syn(s.me.out_ctr, FALSE)))
    /\ UNCHANGED <<backlog, upsets>>
\* In a call do_read gets beyond this only on a turn that computes the bitrate.
Reading(e) == InCall(e) => end[e].bad_mac <= BadLimit + Slip

\* do_read: the incoming connection is the slower one, or the outgoing one is.
InSlow(e) == Level[e] > 0 /\ end[e].rc_cnt > Level[e]
OutSlow(e) == Level[e] > 0 /\ end[e].rc_cnt < -Level[e]
Frozen(e) ==
    /\ ~ end[e].rc_in /\ end[e].rc_out
    /\ end[e].out.flag = "INUSE" /\ end[e].in.flag = "INUSE"

Measure(e) ==
    /\ InCall(e) /\ Reading(e)
    /\ \/ /\ InSlow(e)
          /\ LET s == IF Frozen(e) THEN CloseIn(Here(e), e) ELSE Here(e)
             IN  Becomes(e, AskToDial(s, e, Level[e] \div 2))
       \/ /\ OutSlow(e) /\ ~ InSlow(e)
          /\ Becomes(e, [Here(e) EXCEPT !.me.rc_cnt = -(Level[e] \div 2)])
    /\ UNCHANGED <<backlog, upsets>>
Measured(e) == ~ InSlow(e) /\ ~ OutSlow(e)

\* readtcpout and readtcpin: the first packet on the wire.
FromOut(e) ==
    LET c == end[e].out.conn IN
    /\ InCall(e) /\ Reading(e) /\ Measured(e)
    /\ end[e].out.flag \in {"READY", "INUSE"} /\ wire[c][e] # <<>>
    /\ Becomes(e, ReadOut([Here(e) EXCEPT !.wire[c][e] = Tail(@)], e, Head(wire[c][e])))
    /\ UNCHANGED <<backlog, upsets>>
FromIn(e) ==
    LET c == end[e].in.conn IN
    /\ InCall(e) /\ Reading(e) /\ Measured(e)
    /\ end[e].in.flag \in {"READY", "INUSE"} /\ wire[c][e] # <<>>
    /\ Becomes(e, ReadIn([Here(e) EXCEPT !.wire[c][e] = Tail(@)], e, Head(wire[c][e])))
    /\ UNCHANGED <<backlog, upsets>>

\* do_req in a call resets it.  If command_str still holds a command to call, the
\* request of a new call follows; otherwise do_req disconnects.
Redial(s, e) ==
    LET r == [s EXCEPT !.me = [@ EXCEPT !.crp_state = -1, !.out.flag = "INUSE",
                                        !.out_ctr = 0, !.in_ctr = 0]]
    IN  Send(r, e, r.me.out.conn, Req)
NoRedial(s, e) ==
    Disconnect([s EXCEPT !.me = [@ EXCEPT !.crp_state = 0, !.out.flag = "INUSE"]], e)

\* readtcpout in SOCK_WAIT_HS: Tor has reached the other end.  With an incoming
\* connection it offers the doubling; without one it takes the connection to be
\* the first of a call.
Connected(e) ==
    LET c == <<e, end[e].dials + 1>>
        s == [Here(e) EXCEPT !.me.dials = @ + 1,
                             !.me.out = [flag |-> "READY", conn |-> c]]
    IN  /\ InCall(e) /\ Reading(e) /\ Measured(e)
        /\ end[e].out.flag = "WAIT" /\ end[e].dials < MaxDial
        /\ \/ HasIn(s) /\ Becomes(e, Send(s, e, c, Inv))
           \/ ~ HasIn(s) /\ \E r \in {Redial(s, e), NoRedial(s, e)} : Becomes(e, r)
        /\ backlog' = [backlog EXCEPT ![Peer(e)] = Append(@, c)]
        /\ UNCHANGED upsets

\* readtcpout while it waits: Tor has not reached the other end.
NotConnected(e) ==
    /\ InCall(e) /\ Reading(e) /\ Measured(e) /\ end[e].out.flag = "WAIT"
    /\ Becomes(e, SockCloseOut(Here(e), e))
    /\ UNCHANGED <<backlog, upsets>>

\* Mutant: a connection that is not kept is not closed.
AcceptOpen(e) ==
    /\ backlog[e] # <<>> /\ Reading(e)
    /\ LET c == Head(backlog[e])
           f == IF HasOut(Here(e)) THEN "READY" ELSE "INUSE"
       IN  IF HasIn(Here(e)) THEN Becomes(e, Send(Here(e), e, c, Junk))
           ELSE Becomes(e, [Here(e) EXCEPT !.me.in = [flag |-> f, conn |-> c]])
    /\ backlog' = [backlog EXCEPT ![e] = Tail(@)]
    /\ UNCHANGED upsets
\* tcpaccept: of several incoming connections the first one is kept.
Accept(e) ==
    /\ backlog[e] # <<>> /\ Reading(e)
    /\ LET c == Head(backlog[e])
           f == IF HasOut(Here(e)) THEN "READY" ELSE "INUSE"
       IN  IF HasIn(Here(e))
           THEN Becomes(e, [me |-> end[e], wire |-> CloseBy(Send(Here(e), e, c, Junk).wire, c, e)])
           ELSE Becomes(e, [Here(e) EXCEPT !.me.in = [flag |-> f, conn |-> c]])
    /\ backlog' = [backlog EXCEPT ![e] = Tail(@)]
    /\ UNCHANGED upsets

\* do_read without this call: what is connected is closed when the time is up.
Timeout(e) ==
    /\ ~ InCall(e) /\ (HasIn(Here(e)) \/ HasOut(Here(e)))
    /\ Becomes(e, Disconnect(Here(e), e))
    /\ UNCHANGED <<backlog, upsets>>

\* The commands -H, -WR (reset_dbl) and -WI (init_dbl).
Hangup(e) ==
    /\ InCall(e) /\ Len(upsets) < MaxUpset /\ upsets' = Append(upsets, "command")
    /\ Becomes(e, Disconnect(Here(e), e))
    /\ UNCHANGED backlog
ResetDbl(e) ==
    /\ InCall(e) /\ Len(upsets) < MaxUpset /\ upsets' = Append(upsets, "command")
    /\ Level[e] > 0 /\ end[e].out.flag = "INUSE"
    /\ Becomes(e, AskToDial(CloseIn(Here(e), e), e, 0))
    /\ UNCHANGED backlog
InitDbl(e) ==
    /\ InCall(e) /\ Len(upsets) < MaxUpset /\ upsets' = Append(upsets, "command")
    /\ Level[e] > 0 /\ end[e].in.flag = "INUSE"
    /\ Becomes(e, DialAgain(Here(e), e))
    /\ UNCHANGED backlog

\* A connection breaks: of what is on its way to either side only a first part
\* arrives, and both read an error after it.
Break(c) ==
    /\ Len(upsets) < MaxUpset /\ upsets' = Append(upsets, "break")
    /\ \E e \in End : c \in {end[e].out.conn, end[e].in.conn}
    /\ \E e \in End : ~ Shut(wire[c][e])
    /\ \E k \in [End -> 0 .. MaxOut + 2] :
          /\ \A e \in End : k[e] <= Len(wire[c][e])
          /\ wire' = [wire EXCEPT ![c] =
                        [e \in End |-> IF Shut(@[e]) THEN @[e]
                                       ELSE Append(SubSeq(@[e], 1, k[e]), Eof)]]
    /\ UNCHANGED <<end, backlog>>

-----------------------------------------------------------------------------
\* The key agreement is over; the originator has sent his address (go_ack).
First == <<Alice, 1>>
Init ==
    /\ LET used == [flag |-> "INUSE", conn |-> First]
           idle == [crp_state |-> 4, out |-> Idle, in |-> Idle, dials |-> 0, out_ctr |-> 0,
                    in_ctr |-> 0, rc_cnt |-> 0, rc_in |-> FALSE, rc_out |-> FALSE,
                    bad_mac |-> 0, blind |-> 0]
           told == IF Level[Alice] = -1 THEN 0 ELSE 1
       IN  /\ end = [e \in End |->
                      IF e = Alice
                      THEN [idle EXCEPT !.crp_state = 3, !.out = used, !.dials = 1, !.out_ctr = told]
                      ELSE [idle EXCEPT !.in = used]]
           /\ wire = [c \in Conn |-> [e \in End |->
                        IF c = First /\ e = Bob /\ told = 1 THEN <<Packet("-W", 0)>> ELSE <<>>]]
    /\ backlog = [e \in End |-> <<>>]
    /\ upsets = <<>>

User(e) == Voice(e) \/ Hangup(e) \/ ResetDbl(e) \/ InitDbl(e)
Program(e) ==
    \/ Restore(e) \/ Measure(e) \/ FromOut(e) \/ FromIn(e) \/ Accept(e) \/ Timeout(e)
    \/ Connected(e) \/ NotConnected(e)
Next == (\E e \in End : User(e) \/ Program(e)) \/ \E c \in Conn : Break(c)

Spec == Init /\ [][Next]_vars

-----------------------------------------------------------------------------
Message ==
    [t : {"data", "-W"}, n : Nat] \cup [t : {"syn"}, n : Nat, ask : BOOLEAN]
    \cup {Inv, BusyInv, Req, Junk, Zero, Eof}

\* Type invariant.
TypeOK ==
    /\ end \in [End -> Knowledge]
    /\ wire \in [Conn -> [End -> Seq(Message)]]
    /\ backlog \in [End -> Seq(Conn)]
    /\ upsets \in Seq({"command", "break"}) /\ Len(upsets) <= MaxUpset

Called == \A e \in End : InCall(e)
Undisturbed == upsets = <<>>
Sockets(e) == {end[e].out.conn, end[e].in.conn} \ {None}
\* The connections that both ends hold and neither has closed.
Held == {c \in Sockets(Alice) \cap Sockets(Bob) :
            ~ Shut(wire[c][Alice]) /\ ~ Shut(wire[c][Bob])}
Coming(e) == UNION {Range(wire[c][e]) : c \in Sockets(e)}
IsData(m) == m.t \in {"data", "-W"}
IsSyn(m) == m.t = "syn"

\* No end waits for a packet that has not been sent, but for what it has moved its counter
\* blindly since it last knew its partner's: whatever SYNs and packets pass each other on
\* two connections (go_data, go_syn), and however often rejected copies make it move, only
\* that keeps its partner's next packet from being heard.
NeverAhead ==
    Called => \A e \in End : end[e].in_ctr <= end[Peer(e)].out_ctr + end[e].blind

\* The slower connection is replaced while the other one is kept: at no moment have
\* the two ends, each for its own reason, closed both.
KeepsOne == Called /\ Undisturbed => Held # {}

\* FIN is on its way to e.
Told(e) == \E m \in Coming(e) : IsSyn(m) /\ m.n = FinCtr

\* While nothing breaks and nobody commands it, no end leaves the call, unless its
\* partner tells it so: closing one connection after the other (sock_close), or a
\* dialling that is taken for the first of a call, never ends it.
Stays ==
    [][\A e \in End : InCall(e) /\ ~ InCall(e)' => ~ Undisturbed' \/ Told(e)]_vars

\* Nothing is left for the program of e to do: no step of Program(e) is enabled.
Resting(e) ==
    /\ backlog[e] = <<>>
    /\ IF InCall(e)
       THEN /\ end[e].bad_mac <= BadLimit /\ Measured(e) /\ end[e].out.flag # "WAIT"
            /\ \A c \in Sockets(e) : wire[c][e] = <<>>
       ELSE ~ HasIn(Here(e)) /\ ~ HasOut(Here(e))

\* A call takes finitely many steps of the programs, so this is where they end when no
\* one speaks any more.
Quiet == \A e \in End : Resting(e)

\* When all is done both ends agree on every connection: what one sends over, the
\* other reads, and no socket waits for an invite or a close that never comes.
FlagsAgree ==
    Quiet => \A e \in End :
        /\ end[e].out.flag \in {"IDDL", "INUSE"}
        /\ end[Peer(e)].in = end[e].out

\* Whatever breaks, an end that has left has its partner leave too.
LeaveTogether == Quiet => (InCall(Alice) <=> InCall(Bob))

-----------------------------------------------------------------------------
(* The inductive invariant of the counters.                                *)

\* A message that shows no counter after n.
UpTo(m, n) == (IsData(m) => m.n < n) /\ (IsSyn(m) => m.n <= n)
Shows(q, n) == \A i \in 1 .. Len(q) : UpTo(q[i], n)

\* In the situation s of e neither e nor its partner, who knows h, waits for a packet after
\* the other's next one, unless it has moved blindly, and neither is brought anything that
\* its sender has not reached.
Sound(s, e, h) ==
    /\ s.me.in_ctr <= h.out_ctr + s.me.blind /\ h.in_ctr <= s.me.out_ctr + h.blind
    /\ \A c \in Conn :
          Shows(s.wire[c][Peer(e)], s.me.out_ctr) /\ Shows(s.wire[c][e], h.out_ctr)

\* The counter of the last SYN is above all others, and so excepted: whoever sends it has
\* left the call.
CountersInv ==
    /\ TypeOK
    /\ Called => \A e \in End : Sound(Here(e), e, end[Peer(e)])

-----------------------------------------------------------------------------
(* The inductive invariant of the connections: what x, who knows k, has    *)
(* dialled, and what its partner, who knows l, holds of it; q is the       *)
(* partner's backlog and w are the wires.                                  *)

\* x holds its last connection or none.  The partner holds some that x has dialled, each
\* of them once.  Nothing has ended on one that x has not dialled yet.
Numbered(x, k, l, q, w) ==
    /\ k.out.conn \in {None, <<x, k.dials>>}
    /\ l.in.flag # "WAIT"
    /\ l.in.conn # None => l.in.conn[1] = x /\ l.in.conn[2] <= k.dials
    /\ \A i \in DOMAIN q : q[i][1] = x /\ q[i][2] <= k.dials /\ q[i] # l.in.conn
    /\ \A i, j \in DOMAIN q : i # j => q[i] # q[j]
    /\ \A c \in Conn : c[1] = x /\ c[2] > k.dials =>
          \A g \in End : ~ Shut(w[c][g]) /\ Inv \notin Range(w[c][g])

\* A connection that only one of them holds brings its end to whoever holds it.
Linked(x, k, l, q, w) ==
    \A c \in Conn :
       /\ k.out.conn = c => l.in.conn = c \/ c \in Range(q) \/ Shut(w[c][x])
       /\ l.in.conn = c \/ c \in Range(q) => k.out.conn = c \/ Shut(w[c][Peer(x)])

\* The invite is on its way to the partner until the partner uses the connection, and
\* then its answer to x until x does, unless one of them has closed the connection.
Invited(x, k, l, q, w) ==
    \A c \in Conn :
       k.out.conn = c /\ ~ Shut(w[c][x]) /\ ~ Shut(w[c][Peer(x)]) =>
         /\ l.in = [flag |-> "READY", conn |-> c] \/ c \in Range(q) =>
               /\ k.out.flag = "READY"
               /\ Inv \in Range(w[c][Peer(x)]) /\ Inv \notin Range(w[c][x])
         /\ l.in = [flag |-> "INUSE", conn |-> c] /\ k.out.flag = "READY" =>
               Inv \in Range(w[c][x])

Dialled(x, k, l, q, w) ==
    /\ Numbered(x, k, l, q, w) /\ Linked(x, k, l, q, w)
    /\ k.crp_state > 2 /\ l.crp_state > 2 => Invited(x, k, l, q, w)

\* An end in the call has a socket, and what each end has dialled is known to both.
ConnectionsInv ==
    \A e \in End :
       /\ InCall(e) => HasIn(Here(e)) \/ HasOut(Here(e))
       /\ Dialled(e, end[e], end[Peer(e)], backlog[Peer(e)], wire)

DoublingInv == CountersInv /\ ConnectionsInv
=============================================================================
