--------------------------- MODULE DoublingProofs ---------------------------
(***************************************************************************)
(* Theorems about the counters and the connections of Doubling, for all    *)
(* levels and bounds, and about the connection that is kept when one end   *)
(* alone finds slow ones.                                                  *)
(*                                                                         *)
(* The handlers call each other, so there is one lemma for each, in every  *)
(* part: what is safe before it is safe after it, and of the connections   *)
(* it only closes some that its end holds (Goes).  What is safe without    *)
(* limits is typed.                                                        *)
(***************************************************************************)
EXTENDS Doubling, TLAPS

Wires == [Conn -> [End -> Seq(Message)]]
Situation == [me : Knowledge, wire : Wires]

\* The situation s of e is sound as long as both ends are in the call: b has what e's
\* partner knows, or nothing when one of them has left.
Safe(s, e, b) ==
    s \in Situation /\ (s.me.crp_state > 2 => \A h \in b : Sound(s, e, h))

-----------------------------------------------------------------------------
(* Ends, messages and wires.                                               *)

\* The two ends are each other's peers.
LEMMA PeerIs ==
    ASSUME NEW e \in End
    PROVE  Peer(e) \in End /\ Peer(e) # e /\ Peer(Peer(e)) = e /\ End = {e, Peer(e)}
  BY EndsAssumption DEF End, Peer

\* What messages with a counter have.
LEMMA MessageHas ==
    ASSUME NEW m \in Message
    PROVE  /\ IsData(m) \/ IsSyn(m) => m.n \in Nat
           /\ IsSyn(m) => m.ask \in BOOLEAN
           /\ ~(IsData(m) /\ IsSyn(m))
  BY DEF Message, IsData, IsSyn, Inv, BusyInv, Req, Junk, Zero, Eof

\* A packet shows its counter, which is used then.
LEMMA PacketMade ==
    ASSUME NEW n \in Nat, NEW t \in {"data", "-W"}
    PROVE  Packet(t, n) \in Message /\ UpTo(Packet(t, n), n + 1)
  BY DEF Message, UpTo, IsData, IsSyn, Packet

\* A SYN shows a counter that is not used yet.
LEMMA SynMade ==
    ASSUME NEW n \in Nat, NEW ask \in BOOLEAN
    PROVE  Syn(n, ask) \in Message /\ UpTo(Syn(n, ask), n)
  BY DEF Message, UpTo, IsData, IsSyn, Syn

\* The other messages show no counter.
LEMMA NothingShown ==
    ASSUME NEW n
    PROVE  \A m \in {Inv, BusyInv, Req, Junk, Zero, Eof} : m \in Message /\ UpTo(m, n)
  BY DEF Message, UpTo, IsData, IsSyn, Inv, BusyInv, Req, Junk, Zero, Eof

\* What shows nothing after a shows nothing after any later counter.
LEMMA ShowsMore ==
    ASSUME NEW q \in Seq(Message), NEW a \in Nat, NEW b \in Nat, a <= b, Shows(q, a)
    PROVE  Shows(q, b)
  <1> SUFFICES ASSUME NEW i \in 1 .. Len(q) PROVE UpTo(q[i], b)
    BY DEF Shows
  <1>1. q[i] \in Message /\ UpTo(q[i], a)
    BY DEF Shows
  <1> QED
    BY <1>1, MessageHas DEF UpTo

\* A message after the others.
LEMMA ShowsPut ==
    ASSUME NEW q \in Seq(Message), NEW m \in Message, NEW n, Shows(q, n), UpTo(m, n)
    PROVE  Shows(Append(q, m), n) /\ Append(q, m) \in Seq(Message)
  BY DEF Shows

\* What remains after the first message.
LEMMA ShowsTail ==
    ASSUME NEW q \in Seq(Message), q # <<>>, NEW n, Shows(q, n)
    PROVE  /\ Tail(q) \in Seq(Message) /\ Shows(Tail(q), n)
           /\ Head(q) \in Message /\ UpTo(Head(q), n)
  BY DEF Shows

\* A closed connection brings the end only.
LEMMA ShowsEof ==
    ASSUME NEW n
    PROVE  <<Eof>> \in Seq(Message) /\ Shows(<<Eof>>, n)
  BY NothingShown DEF Shows

\* The wires x are those of w but for one.
Replaced(w, x, c, f, q) ==
    x \in Wires /\ \A d \in Conn, g \in End :
        x[d][g] = IF d = c /\ g = f THEN q ELSE w[d][g]

\* One wire is replaced; nothing happens to one that is not there.
LEMMA WireReplaced ==
    ASSUME NEW w \in Wires, NEW c, NEW f \in End, NEW q \in Seq(Message),
           NEW x, x = [w EXCEPT ![c][f] = q]
    PROVE  Replaced(w, x, c, f, q)
  <1>1. CASE c \in Conn
    <2>1. w[c] \in [End -> Seq(Message)]
      BY <1>1 DEF Wires
    <2>2. PICK y : y = [w[c] EXCEPT ![f] = q]
      OBVIOUS
    <2>3. y \in [End -> Seq(Message)] /\ \A g \in End : y[g] = IF g = f THEN q ELSE w[c][g]
      BY <2>1, <2>2
    <2>4. x = [w EXCEPT ![c] = y]
      BY <2>2
    <2>5. x \in Wires /\ x[c] = y /\ \A d \in Conn : d # c => x[d] = w[d]
      BY <1>1, <2>3, <2>4 DEF Wires
    <2> QED
      BY <1>1, <2>3, <2>5 DEF Replaced
  <1>2. CASE c \notin Conn
    <2>1. x = w
      BY <1>2 DEF Wires
    <2> QED
      BY <1>2, <2>1 DEF Replaced
  <1> QED
    BY <1>1, <1>2

\* The wires x are those of w, with m added to some on the way to f.
Added(w, x, f, m) ==
    x \in Wires /\ \A d \in Conn, g \in End :
        x[d][g] = w[d][g] \/ (g = f /\ x[d][g] = Append(w[d][g], m))

\* send() adds the message to one wire, or to none.
LEMMA PutIs ==
    ASSUME NEW w \in Wires, NEW c, NEW f \in End, NEW m \in Message
    PROVE  Added(w, Put(w, c, f, m), f, m)
  <1>1. CASE Shut(w[c][f])
    <2>1. Put(w, c, f, m) = w
      BY <1>1 DEF Put
    <2> QED
      BY <2>1 DEF Added
  <1>2. CASE ~Shut(w[c][f]) /\ c \in Conn
    <2>1. w[c][f] \in Seq(Message)
      BY <1>2 DEF Wires
    <2>2. PICK p \in Seq(Message) : p = w[c][f]
      BY <2>1
    <2>3. Append(p, m) \in Seq(Message)
      OBVIOUS
    <2>4. PICK q \in Seq(Message) : q = Append(p, m)
      BY <2>3
    <2>5. PICK x : x = [w EXCEPT ![c][f] = q]
      OBVIOUS
    <2>6. Put(w, c, f, m) = x
      BY <1>2, <2>2, <2>4, <2>5 DEF Put
    <2>7. Replaced(w, x, c, f, q)
      BY <2>5, WireReplaced
    <2> QED
      BY <2>2, <2>4, <2>6, <2>7 DEF Added, Replaced
  <1>3. CASE ~Shut(w[c][f]) /\ c \notin Conn
    <2>1. Put(w, c, f, m) = w
      BY <1>3 DEF Put, Wires
    <2> QED
      BY <2>1 DEF Added
  <1> QED
    BY <1>1, <1>2, <1>3

\* The wires x are those of w, some with the end of the connection added, some closed.
Closed(w, x) ==
    x \in Wires /\ \A d \in Conn, g \in End :
        x[d][g] \in {w[d][g], Append(w[d][g], Eof), <<Eof>>}

\* close() ends what its own side is brought, and tells the other one.
LEMMA CloseByIs ==
    ASSUME NEW w \in Wires, NEW c, NEW e \in End
    PROVE  Closed(w, CloseBy(w, c, e))
  <1>1. Peer(e) \in End /\ Eof \in Message
    BY PeerIs, NothingShown
  <1>2. PICK q \in Seq(Message) : q = <<Eof>>
    BY ShowsEof
  <1>3. PICK y : y = Put(w, c, Peer(e), Eof)
    OBVIOUS
  <1>4. Added(w, y, Peer(e), Eof)
    BY <1>1, <1>3, PutIs
  <1>5. PICK x : x = [y EXCEPT ![c][e] = q]
    OBVIOUS
  <1>6. CloseBy(w, c, e) = x
    BY <1>2, <1>3, <1>5 DEF CloseBy
  <1>7. y \in Wires /\ \A d \in Conn, g \in End : y[d][g] \in {w[d][g], Append(w[d][g], Eof)}
    BY <1>4 DEF Added
  <1>8. Replaced(y, x, c, e, q)
    BY <1>5, <1>7, WireReplaced
  <1> QED
    BY <1>2, <1>6, <1>7, <1>8 DEF Closed, Replaced

-----------------------------------------------------------------------------
(* Sending and closing.                                                    *)

\* Wires to which nothing but m and the end of connections is added.
LEMMA WiresSafe ==
    ASSUME NEW s, NEW e \in End, NEW b \in SUBSET Knowledge, Safe(s, e, b),
           NEW m \in Message, b = {} \/ UpTo(m, s.me.out_ctr),
           NEW w, Added(s.wire, w, Peer(e), m) \/ Closed(s.wire, w)
    PROVE  /\ Safe([s EXCEPT !.wire = w], e, b)
           /\ [s EXCEPT !.wire = w].me = s.me
  <1>1. s \in Situation /\ s.wire \in Wires /\ Peer(e) \in End /\ Peer(e) # e /\ w \in Wires
    BY PeerIs DEF Safe, Situation, Added, Closed
  <1>2. PICK r : r = [s EXCEPT !.wire = w]
    OBVIOUS
  <1>3. r \in Situation /\ r.me = s.me /\ r.wire = w
    BY <1>1, <1>2 DEF Situation
  <1>4. ASSUME NEW h \in b, s.me.crp_state > 2 PROVE Sound(r, e, h)
    <2>1. Sound(s, e, h) /\ UpTo(m, s.me.out_ctr)
      BY <1>4 DEF Safe
    <2> SUFFICES ASSUME NEW c \in Conn
                 PROVE  Shows(w[c][Peer(e)], s.me.out_ctr) /\ Shows(w[c][e], h.out_ctr)
      BY <1>3, <2>1 DEF Sound
    <2>2. PICK p \in Seq(Message), q \in Seq(Message) :
              p = s.wire[c][Peer(e)] /\ q = s.wire[c][e]
      BY <1>1 DEF Wires
    <2>3. Shows(p, s.me.out_ctr) /\ Shows(q, h.out_ctr)
      BY <2>1, <2>2 DEF Sound
    <2>4. Shows(Append(p, m), s.me.out_ctr)
      BY <2>1, <2>3, ShowsPut
    <2>5. Shows(Append(p, Eof), s.me.out_ctr) /\ Shows(Append(q, Eof), h.out_ctr)
      BY <2>3, ShowsPut, NothingShown
    <2>6. Shows(<<Eof>>, h.out_ctr) /\ Shows(<<Eof>>, s.me.out_ctr)
      BY ShowsEof
    <2>7. w[c][e] \in {q, Append(q, Eof), <<Eof>>}
      BY <1>1, <2>2 DEF Added, Closed
    <2>8. w[c][Peer(e)] \in {p, Append(p, m), Append(p, Eof), <<Eof>>}
      BY <1>1, <2>2 DEF Added, Closed
    <2>9. Shows(w[c][e], h.out_ctr)
      BY <2>3, <2>5, <2>6, <2>7
    <2> QED
      BY <2>3, <2>4, <2>5, <2>6, <2>8, <2>9
  <1> QED
    BY <1>2, <1>3, <1>4 DEF Safe

\* send() of a message that shows no counter after the sender's own.
LEMMA SendSafe ==
    ASSUME NEW s, NEW e \in End, NEW b \in SUBSET Knowledge, Safe(s, e, b),
           NEW c, NEW m \in Message, b = {} \/ UpTo(m, s.me.out_ctr)
    PROVE  Safe(Send(s, e, c, m), e, b) /\ Send(s, e, c, m).me = s.me
  <1>1. s.wire \in Wires /\ Peer(e) \in End
    BY PeerIs DEF Safe, Situation
  <1>2. PICK w : w = Put(s.wire, c, Peer(e), m)
    OBVIOUS
  <1>3. Added(s.wire, w, Peer(e), m)
    BY <1>1, <1>2, PutIs
  <1>4. Send(s, e, c, m) = [s EXCEPT !.wire = w]
    BY <1>2 DEF Send
  <1> QED
    BY <1>3, <1>4, WiresSafe

\* What e knows may change: its own counter not back, the other one within the limits.
Later(k, l, b) ==
    /\ l \in Knowledge
    /\ l.crp_state > 2 =>
          k.crp_state > 2 /\ k.out_ctr <= l.out_ctr /\ \A h \in b : l.in_ctr <= h.out_ctr + l.blind

\* Only what e knows changes.
LEMMA MeSafe ==
    ASSUME NEW s, NEW e \in End, NEW b \in SUBSET Knowledge, Safe(s, e, b), NEW l, Later(s.me, l, b)
    PROVE  /\ Safe([s EXCEPT !.me = l], e, b)
           /\ [s EXCEPT !.me = l].me = l /\ [s EXCEPT !.me = l].wire = s.wire
  <1>1. /\ s \in Situation /\ s.wire \in Wires /\ Peer(e) \in End /\ l \in Knowledge
        /\ s.me.out_ctr \in Nat /\ l.out_ctr \in Nat
    BY PeerIs DEF Safe, Situation, Knowledge, Later
  <1>2. PICK r : r = [s EXCEPT !.me = l]
    OBVIOUS
  <1>3. r \in Situation /\ r.me = l /\ r.wire = s.wire
    BY <1>1, <1>2 DEF Situation
  <1>4. ASSUME NEW h \in b, l.crp_state > 2 PROVE Sound(r, e, h)
    <2>0. h.in_ctr \in Nat /\ h.blind \in Nat
      BY DEF Knowledge
    <2>1. Sound(s, e, h) /\ s.me.out_ctr <= l.out_ctr /\ l.in_ctr <= h.out_ctr + l.blind
      BY <1>4 DEF Safe, Later
    <2>2. \A c \in Conn : Shows(s.wire[c][Peer(e)], l.out_ctr)
      BY <1>1, <2>1, ShowsMore DEF Sound, Wires
    <2>3. h.in_ctr <= l.out_ctr + h.blind
      BY <1>1, <2>0, <2>1 DEF Sound
    <2> QED
      BY <1>3, <2>1, <2>2, <2>3 DEF Sound
  <1> QED
    BY <1>2, <1>3, <1>4 DEF Safe

\* Whoever has left the call may do anything.
LEMMA LeftSafe ==
    ASSUME NEW e, NEW b, NEW r \in Situation, r.me.crp_state = 0 \/ r.me.crp_state = -1
    PROVE  Safe(r, e, b)
  BY DEF Safe

\* The parts of a situation.
LEMMA SafeHas ==
    ASSUME NEW s, NEW e, NEW b, Safe(s, e, b)
    PROVE  /\ s \in Situation /\ s.me \in Knowledge /\ s.wire \in Wires
           /\ Safe(s, e, {})
           /\ s.me.crp_state > 2 => \A h \in b : s.me.in_ctr <= h.out_ctr + s.me.blind
  BY DEF Safe, Situation, Sound

\* Sockets and measurements change, counters do not.
LEMMA SameCounters ==
    ASSUME NEW s, NEW e, NEW b, Safe(s, e, b), NEW l \in Knowledge,
           l.crp_state = s.me.crp_state, l.out_ctr = s.me.out_ctr,
           l.in_ctr = s.me.in_ctr, l.blind = s.me.blind
    PROVE  Later(s.me, l, b)
  <1>1. s.me.out_ctr \in Nat /\ (s.me.crp_state > 2 => \A h \in b : s.me.in_ctr <= h.out_ctr + s.me.blind)
    BY SafeHas DEF Knowledge
  <1> QED
    BY <1>1 DEF Later

\* Closed wires are as safe as before.
LEMMA ClosedSafe ==
    ASSUME NEW s, NEW e \in End, NEW b \in SUBSET Knowledge, Safe(s, e, b), NEW c
    PROVE  LET w == IF c = None THEN s.wire ELSE CloseBy(s.wire, c, e)
           IN  /\ Safe([s EXCEPT !.wire = w], e, b)
               /\ [s EXCEPT !.wire = w].me = s.me
  <1>1. PICK w : w = IF c = None THEN s.wire ELSE CloseBy(s.wire, c, e)
    OBVIOUS
  <1>2. s.wire \in Wires
    BY SafeHas
  <1>3. Closed(s.wire, w)
    <2>1. CASE c = None
      BY <1>1, <1>2, <2>1 DEF Closed
    <2>2. CASE c # None
      BY <1>1, <1>2, <2>2, CloseByIs
    <2> QED
      BY <2>1, <2>2
  <1>4. Zero \in Message /\ UpTo(Zero, s.me.out_ctr)
    BY NothingShown
  <1> QED
    BY <1>1, <1>3, <1>4, WiresSafe

\* The outgoing connection is closed.
LEMMA CloseOutSafe ==
    ASSUME NEW s, NEW e \in End, NEW b \in SUBSET Knowledge, Safe(s, e, b)
    PROVE  Safe(CloseOut(s, e), e, b) /\ CloseOut(s, e).me = [s.me EXCEPT !.out = Idle]
  <1>1. PICK c, w : c = s.me.out.conn /\ w = IF c = None THEN s.wire ELSE CloseBy(s.wire, c, e)
    OBVIOUS
  <1>2. PICK t : t = [s EXCEPT !.wire = w]
    OBVIOUS
  <1>3. Safe(t, e, b) /\ t.me = s.me
    BY <1>1, <1>2, ClosedSafe
  <1>4. PICK l : l = [s.me EXCEPT !.out = Idle]
    OBVIOUS
  <1>5. s.me \in Knowledge /\ s \in Situation
    BY SafeHas
  <1>6. /\ l \in Knowledge /\ l.crp_state = s.me.crp_state
        /\ l.out_ctr = s.me.out_ctr /\ l.in_ctr = s.me.in_ctr /\ l.blind = s.me.blind
    BY <1>4, <1>5 DEF Knowledge, Socket, Idle
  <1>7. Later(t.me, l, b)
    BY <1>3, <1>6, SameCounters
  <1>8. t = [me |-> s.me, wire |-> w]
    BY <1>2, <1>5 DEF Situation
  <1>9. [t EXCEPT !.me = l] = [me |-> l, wire |-> w]
    BY <1>8
  <1>10. CloseOut(s, e) = [me |-> l, wire |-> w]
    BY <1>1, <1>4 DEF CloseOut
  <1>11. Safe([t EXCEPT !.me = l], e, b) /\ [t EXCEPT !.me = l].me = l
    BY <1>3, <1>7, MeSafe
  <1> QED
    BY <1>4, <1>9, <1>10, <1>11

\* The incoming connection is closed.
LEMMA CloseInSafe ==
    ASSUME NEW s, NEW e \in End, NEW b \in SUBSET Knowledge, Safe(s, e, b)
    PROVE  Safe(CloseIn(s, e), e, b) /\ CloseIn(s, e).me = [s.me EXCEPT !.in = Idle]
  <1>1. PICK c, w : c = s.me.in.conn /\ w = IF c = None THEN s.wire ELSE CloseBy(s.wire, c, e)
    OBVIOUS
  <1>2. PICK t : t = [s EXCEPT !.wire = w]
    OBVIOUS
  <1>3. Safe(t, e, b) /\ t.me = s.me
    BY <1>1, <1>2, ClosedSafe
  <1>4. PICK l : l = [s.me EXCEPT !.in = Idle]
    OBVIOUS
  <1>5. s.me \in Knowledge /\ s \in Situation
    BY SafeHas
  <1>6. /\ l \in Knowledge /\ l.crp_state = s.me.crp_state
        /\ l.out_ctr = s.me.out_ctr /\ l.in_ctr = s.me.in_ctr /\ l.blind = s.me.blind
    BY <1>4, <1>5 DEF Knowledge, Socket, Idle
  <1>7. Later(t.me, l, b)
    BY <1>3, <1>6, SameCounters
  <1>8. t = [me |-> s.me, wire |-> w]
    BY <1>2, <1>5 DEF Situation
  <1>9. [t EXCEPT !.me = l] = [me |-> l, wire |-> w]
    BY <1>8
  <1>10. CloseIn(s, e) = [me |-> l, wire |-> w]
    BY <1>1, <1>4 DEF CloseIn
  <1>11. Safe([t EXCEPT !.me = l], e, b) /\ [t EXCEPT !.me = l].me = l
    BY <1>3, <1>7, MeSafe
  <1> QED
    BY <1>4, <1>9, <1>10, <1>11

\* do_send() over both sockets.
LEMMA DoSendSafe ==
    ASSUME NEW s, NEW e \in End, NEW b \in SUBSET Knowledge, Safe(s, e, b),
           NEW m \in Message, b = {} \/ UpTo(m, s.me.out_ctr)
    PROVE  Safe(DoSend(s, e, m), e, b) /\ DoSend(s, e, m).me = s.me
  <1>1. PICK o : o = IF s.me.out.flag = "INUSE" THEN Send(s, e, s.me.out.conn, m) ELSE s
    OBVIOUS
  <1>2. Safe(o, e, b) /\ o.me = s.me
    BY <1>1, SendSafe
  <1>3. Safe(Send(o, e, s.me.in.conn, m), e, b) /\ Send(o, e, s.me.in.conn, m).me = s.me
    BY <1>2, SendSafe
  <1>4. DoSend(s, e, m) = IF s.me.in.flag = "INUSE" THEN Send(o, e, s.me.in.conn, m) ELSE o
    BY <1>1 DEF DoSend
  <1> QED
    BY <1>2, <1>3, <1>4

\* do_data() and do_send() of a packet.
LEMMA SaySafe ==
    ASSUME NEW s, NEW e \in End, NEW b \in SUBSET Knowledge, Safe(s, e, b), NEW t \in {"data", "-W"}
    PROVE  Safe(Say(s, e, t), e, b) /\ Say(s, e, t).me = [s.me EXCEPT !.out_ctr = @ + 1]
  <1>1. PICK l : l = [s.me EXCEPT !.out_ctr = @ + 1]
    OBVIOUS
  <1>2. s.me \in Knowledge /\ s \in Situation
    BY SafeHas
  <1>3. /\ l \in Knowledge /\ l.crp_state = s.me.crp_state /\ s.me.out_ctr \in Nat
        /\ l.out_ctr = s.me.out_ctr + 1 /\ l.in_ctr = s.me.in_ctr /\ l.blind = s.me.blind
    BY <1>1, <1>2 DEF Knowledge
  <1>4. Later(s.me, l, b)
    BY <1>3, SafeHas DEF Later
  <1>5. PICK r : r = [s EXCEPT !.me = l]
    OBVIOUS
  <1>6. Safe(r, e, b) /\ r.me = l
    BY <1>4, <1>5, MeSafe
  <1>7. PICK m \in Message : m = Packet(t, s.me.out_ctr) /\ UpTo(m, r.me.out_ctr)
    BY <1>3, <1>6, PacketMade
  <1>8. Say(s, e, t) = DoSend(r, e, m)
    BY <1>1, <1>2, <1>5, <1>7 DEF Say, Situation
  <1>9. Safe(DoSend(r, e, m), e, b) /\ DoSend(r, e, m).me = l
    BY <1>6, <1>7, DoSendSafe
  <1> QED
    BY <1>1, <1>8, <1>9

\* do_syn() shows the own counter.
LEMMA SendSynSafe ==
    ASSUME NEW s, NEW e \in End, NEW b \in SUBSET Knowledge, Safe(s, e, b), NEW c, NEW ask \in BOOLEAN
    PROVE  Safe(SendSyn(s, e, c, ask), e, b)
  <1>1. s.me.out_ctr \in Nat
    BY SafeHas DEF Knowledge
  <1>2. PICK m \in Message : m = Syn(s.me.out_ctr, ask) /\ UpTo(m, s.me.out_ctr)
    BY <1>1, SynMade
  <1> QED
    BY <1>2, SendSafe DEF SendSyn

\* disconnect() leaves the call; the last SYN is above all counters.
LEMMA DisconnectSafe ==
    ASSUME NEW s, NEW e \in End, NEW b \in SUBSET Knowledge, Safe(s, e, b)
    PROVE  Safe(Disconnect(s, e), e, b) /\ Disconnect(s, e).me.crp_state = 0
  <1>1. Syn(FinCtr, TRUE) \in Message /\ BusyInv \in Message
    <2>1. FinCtr \in Nat /\ TRUE \in BOOLEAN
      BY DEF FinCtr
    <2>2. Syn(FinCtr, TRUE) \in Message
      BY <2>1, SynMade
    <2> QED
      BY <2>2, NothingShown
  <1>2. PICK m \in Message : m = Farewell(s)
    BY <1>1 DEF Farewell
  <1>3. PICK f : f = DoSend(s, e, m)
    OBVIOUS
  <1>4. PICK i : i = CloseIn(f, e)
    OBVIOUS
  <1>5. PICK o : o = CloseOut(i, e)
    OBVIOUS
  <1>6. {} \in SUBSET Knowledge /\ Safe(s, e, {})
    BY SafeHas
  <1>7. Safe(f, e, {})
    BY <1>3, <1>6, DoSendSafe
  <1>8. Safe(i, e, {})
    BY <1>4, <1>6, <1>7, CloseInSafe
  <1>9. Safe(o, e, {})
    BY <1>5, <1>6, <1>8, CloseOutSafe
  <1>10. o.me \in Knowledge /\ o \in Situation
    BY <1>9, SafeHas
  <1>11. PICK l : l = [o.me EXCEPT !.crp_state = 0, !.out_ctr = 0, !.in_ctr = 0,
                                   !.rc_cnt = 0, !.rc_in = FALSE, !.rc_out = FALSE]
    OBVIOUS
  <1>12. l \in Knowledge /\ l.crp_state = 0
    <2>1. l = [crp_state |-> 0, out |-> o.me.out, in |-> o.me.in, dials |-> o.me.dials,
               out_ctr |-> 0, in_ctr |-> 0, rc_cnt |-> 0, rc_in |-> FALSE, rc_out |-> FALSE,
               bad_mac |-> o.me.bad_mac, blind |-> o.me.blind]
      BY <1>10, <1>11 DEF Knowledge
    <2> QED
      BY <1>10, <2>1 DEF Knowledge
  <1>13. PICK r : r = [o EXCEPT !.me = l]
    OBVIOUS
  <1>14. r \in Situation /\ r.me.crp_state = 0
    BY <1>10, <1>12, <1>13 DEF Situation
  <1>15. Disconnect(s, e) = r
    BY <1>2, <1>3, <1>4, <1>5, <1>11, <1>13 DEF Disconnect
  <1> QED
    BY <1>14, <1>15, LeftSafe

\* sock_close() closes a connection, or ends the call.
LEMMA SockCloseSafe ==
    ASSUME NEW s, NEW e \in End, NEW b \in SUBSET Knowledge, Safe(s, e, b)
    PROVE  Safe(SockCloseOut(s, e), e, b) /\ Safe(SockCloseIn(s, e), e, b)
  <1>1. Safe(CloseOut(s, e), e, b) /\ Safe(CloseIn(s, e), e, b) /\ Safe(Disconnect(s, e), e, b)
    BY CloseOutSafe, CloseInSafe, DisconnectSafe
  <1> QED
    BY <1>1 DEF SockCloseOut, SockCloseIn

-----------------------------------------------------------------------------
(* Dialling.                                                               *)

\* What is measured does not matter to the counters.
LEMMA MeasuredSafe ==
    ASSUME NEW s, NEW e \in End, NEW b \in SUBSET Knowledge, Safe(s, e, b),
           NEW x \in Int, NEW p \in BOOLEAN, NEW q \in BOOLEAN
    PROVE  LET l == [s.me EXCEPT !.rc_cnt = x, !.rc_in = p, !.rc_out = q]
           IN  Safe([s EXCEPT !.me = l], e, b) /\ [s EXCEPT !.me = l].me = l
  <1>1. PICK l : l = [s.me EXCEPT !.rc_cnt = x, !.rc_in = p, !.rc_out = q]
    OBVIOUS
  <1>2. s.me \in Knowledge
    BY SafeHas
  <1>3. /\ l \in Knowledge /\ l.crp_state = s.me.crp_state
        /\ l.out_ctr = s.me.out_ctr /\ l.in_ctr = s.me.in_ctr /\ l.blind = s.me.blind
    BY <1>1, <1>2 DEF Knowledge
  <1>4. Later(s.me, l, b)
    BY <1>3, SameCounters
  <1> QED
    BY <1>1, <1>4, MeSafe

\* Nor do sockets.
LEMMA SocketsSafe ==
    ASSUME NEW s, NEW e \in End, NEW b \in SUBSET Knowledge, Safe(s, e, b),
           NEW x \in Socket, NEW y \in Socket
    PROVE  LET l == [s.me EXCEPT !.out = x, !.in = y]
           IN  Safe([s EXCEPT !.me = l], e, b) /\ [s EXCEPT !.me = l].me = l
  <1>1. PICK l : l = [s.me EXCEPT !.out = x, !.in = y]
    OBVIOUS
  <1>2. s.me \in Knowledge
    BY SafeHas
  <1>3. /\ l \in Knowledge /\ l.crp_state = s.me.crp_state
        /\ l.out_ctr = s.me.out_ctr /\ l.in_ctr = s.me.in_ctr /\ l.blind = s.me.blind
    BY <1>1, <1>2 DEF Knowledge
  <1>4. Later(s.me, l, b)
    BY <1>3, SameCounters
  <1> QED
    BY <1>1, <1>4, MeSafe

\* The incoming socket takes another connection, or none.
LEMMA InTakenSafe ==
    ASSUME NEW s, NEW e \in End, NEW b \in SUBSET Knowledge, Safe(s, e, b), NEW x \in Socket
    PROVE  LET r == [s EXCEPT !.me.in = x]
           IN  Safe(r, e, b) /\ r.me.crp_state = s.me.crp_state
  <1>1. s \in Situation /\ s.me \in Knowledge
    BY SafeHas
  <1>2. PICK l : l = [s.me EXCEPT !.in = x]
    OBVIOUS
  <1>3. /\ l \in Knowledge /\ l.crp_state = s.me.crp_state
        /\ l.out_ctr = s.me.out_ctr /\ l.in_ctr = s.me.in_ctr /\ l.blind = s.me.blind
    BY <1>1, <1>2 DEF Knowledge
  <1>4. Later(s.me, l, b)
    BY <1>3, SameCounters
  <1>5. Safe([s EXCEPT !.me = l], e, b) /\ [s EXCEPT !.me = l].me = l
    BY <1>4, MeSafe
  <1>6. [s EXCEPT !.me.in = x] = [s EXCEPT !.me = l]
    BY <1>2
  <1> QED
    BY <1>3, <1>5, <1>6

\* connecttor() closes the connection there was.
LEMMA ConnectTorSafe ==
    ASSUME NEW s, NEW e \in End, NEW b \in SUBSET Knowledge, Safe(s, e, b)
    PROVE  Safe(ConnectTor(s, e), e, b)
  <1>1. PICK z : z = IF s.me.out.conn # None THEN Send(s, e, s.me.out.conn, Zero) ELSE s
    OBVIOUS
  <1>2. Zero \in Message /\ UpTo(Zero, s.me.out_ctr)
    BY NothingShown
  <1>3. Safe(Send(s, e, s.me.out.conn, Zero), e, b)
    BY <1>2, SendSafe
  <1>4. Safe(z, e, b)
    BY <1>1, <1>3
  <1>5. PICK c : c = CloseOut(z, e)
    OBVIOUS
  <1>6. Safe(c, e, b)
    BY <1>4, <1>5, CloseOutSafe
  <1>7. c \in Situation /\ c.me \in Knowledge
    BY <1>6, SafeHas
  <1>8. PICK x \in Socket : x = [flag |-> "WAIT", conn |-> None]
    BY DEF Socket
  <1>9. PICK l : l = [c.me EXCEPT !.out = x, !.in = c.me.in]
    OBVIOUS
  <1>10. Safe([c EXCEPT !.me = l], e, b)
    BY <1>6, <1>7, <1>9, SocketsSafe DEF Knowledge
  <1>11. l = [c.me EXCEPT !.out = x]
    BY <1>7, <1>9 DEF Knowledge
  <1>12. ConnectTor(s, e) = [c EXCEPT !.me = l]
    BY <1>1, <1>5, <1>7, <1>8, <1>11 DEF ConnectTor, Situation
  <1> QED
    BY <1>10, <1>12

\* The end of reconecttor() and of init_dbl().
LEMMA DialAgainSafe ==
    ASSUME NEW s, NEW e \in End, NEW b \in SUBSET Knowledge, Safe(s, e, b)
    PROVE  Safe(DialAgain(s, e), e, b)
  <1>1. PICK d : d = ConnectTor(s, e)
    OBVIOUS
  <1>2. PICK r : r = [d EXCEPT !.me = [@ EXCEPT !.rc_cnt = 0, !.rc_in = FALSE, !.rc_out = FALSE]]
    OBVIOUS
  <1>3. Safe(d, e, b)
    BY <1>1, ConnectTorSafe
  <1>4. d \in Situation
    BY <1>3, SafeHas
  <1>5. PICK x \in Int : x = 0
    OBVIOUS
  <1>8. PICK p \in BOOLEAN : p = FALSE
    OBVIOUS
  <1>6. Safe(r, e, b)
    <2>1. r = [d EXCEPT !.me = [d.me EXCEPT !.rc_cnt = x, !.rc_in = p, !.rc_out = p]]
      BY <1>2, <1>4, <1>5, <1>8 DEF Situation
    <2> QED
      BY <1>3, <2>1, MeasuredSafe
  <1>7. DialAgain(s, e) = SendSyn(r, e, r.me.in.conn, TRUE)
    BY <1>1, <1>2 DEF DialAgain
  <1> QED
    BY <1>6, <1>7, SendSynSafe

\* reconecttor() dials again, or does nothing.
LEMMA ReconecttorSafe ==
    ASSUME NEW s, NEW e \in End, NEW b \in SUBSET Knowledge, Safe(s, e, b)
    PROVE  Safe(Reconecttor(s, e), e, b)
  BY DialAgainSafe DEF Reconecttor

\* The request to dial again is the next packet.
LEMMA AskToDialSafe ==
    ASSUME NEW s, NEW e \in End, NEW b \in SUBSET Knowledge, Safe(s, e, b), NEW cnt \in Int
    PROVE  Safe(AskToDial(s, e, cnt), e, b)
  <1>1. PICK r : r = [s EXCEPT !.me = [@ EXCEPT !.rc_in = FALSE, !.rc_out = FALSE]]
    OBVIOUS
  <1>2. s \in Situation /\ s.me \in Knowledge
    BY SafeHas
  <1>3. PICK l : l = [s.me EXCEPT !.rc_cnt = s.me.rc_cnt, !.rc_in = FALSE, !.rc_out = FALSE]
    OBVIOUS
  <1>4. r = [s EXCEPT !.me = l]
    BY <1>1, <1>2, <1>3 DEF Situation, Knowledge
  <1>5. s.me.rc_cnt \in Int
    BY <1>2 DEF Knowledge
  <1>6. Safe(r, e, b)
    BY <1>3, <1>4, <1>5, MeasuredSafe
  <1>7. PICK y : y = Say(r, e, "-W")
    OBVIOUS
  <1>8. Safe(y, e, b)
    BY <1>6, <1>7, SaySafe
  <1>9. y \in Situation /\ y.me \in Knowledge
    BY <1>8, SafeHas
  <1>10. PICK w : w = [y EXCEPT !.me.rc_cnt = cnt]
    OBVIOUS
  <1>11. PICK k : k = [y.me EXCEPT !.rc_cnt = cnt, !.rc_in = y.me.rc_in, !.rc_out = y.me.rc_out]
    OBVIOUS
  <1>12. w = [y EXCEPT !.me = k]
    BY <1>9, <1>10, <1>11 DEF Situation, Knowledge
  <1>13. y.me.rc_in \in BOOLEAN /\ y.me.rc_out \in BOOLEAN
    BY <1>9 DEF Knowledge
  <1>14. Safe(w, e, b)
    BY <1>8, <1>11, <1>12, <1>13, MeasuredSafe
  <1>15. Safe(SendSyn(w, e, w.me.out.conn, TRUE), e, b)
    BY <1>14, SendSynSafe
  <1>16. AskToDial(s, e, cnt) = IF w.me.out.flag = "INUSE" THEN SendSyn(w, e, w.me.out.conn, TRUE) ELSE w
    BY <1>1, <1>7, <1>10 DEF AskToDial
  <1> QED
    BY <1>14, <1>15, <1>16

-----------------------------------------------------------------------------
(* Reading.                                                                *)

\* A packet with a wrong MAC changes bad_mac only.
LEMMA RejectedIs ==
    ASSUME NEW s \in Situation
    PROVE  \E l \in Knowledge :
              /\ Rejected(s) = [s EXCEPT !.me = l]
              /\ l.crp_state = s.me.crp_state /\ l.out = s.me.out /\ l.in = s.me.in
              /\ l.dials = s.me.dials /\ l.out_ctr = s.me.out_ctr /\ l.rc_cnt = s.me.rc_cnt
              /\ l.in_ctr = s.me.in_ctr /\ l.blind = s.me.blind
  <1>1. s.me \in Knowledge
    BY DEF Situation
  <1>2. PICK n \in Nat : n = s.me.bad_mac + 1
    BY <1>1 DEF Knowledge
  <1>3. PICK l : l = [s.me EXCEPT !.bad_mac = n]
    OBVIOUS
  <1>4. /\ l \in Knowledge /\ l.crp_state = s.me.crp_state /\ l.out = s.me.out /\ l.in = s.me.in
        /\ l.dials = s.me.dials /\ l.out_ctr = s.me.out_ctr /\ l.rc_cnt = s.me.rc_cnt
        /\ l.in_ctr = s.me.in_ctr /\ l.blind = s.me.blind
    BY <1>1, <1>3 DEF Knowledge
  <1>5. Rejected(s) = [s EXCEPT !.me = l]
    BY <1>2, <1>3 DEF Rejected
  <1> QED
    BY <1>4, <1>5

\* The very next packet moves in_ctr, and is a counter the partner has shown.
LEMMA AcceptedIs ==
    ASSUME NEW k \in Knowledge, NEW e, NEW side \in {1, -1}
    PROVE  LET l == Accepted(k, e, side)
           IN  /\ l \in Knowledge /\ l.crp_state = k.crp_state /\ l.out = k.out /\ l.in = k.in
               /\ l.dials = k.dials /\ l.out_ctr = k.out_ctr
               /\ l.in_ctr = k.in_ctr + 1 /\ l.blind = 0
               /\ l.rc_cnt = IF Level[e] > 0 THEN k.rc_cnt + side ELSE k.rc_cnt
  <1>1. PICK i \in Nat : i = k.in_ctr + 1
    BY DEF Knowledge
  <1>2. k.rc_cnt \in Int /\ side \in Int
    BY DEF Knowledge
  <1>3. PICK x \in Int : x = IF Level[e] > 0 THEN k.rc_cnt + side ELSE k.rc_cnt
    BY <1>2
  <1>4. PICK l : l = [k EXCEPT !.in_ctr = i, !.bad_mac = 0, !.blind = 0, !.rc_cnt = x]
    OBVIOUS
  <1>5. l = Accepted(k, e, side)
    BY <1>1, <1>3, <1>4 DEF Accepted
  <1>6. /\ l \in Knowledge /\ l.crp_state = k.crp_state /\ l.out = k.out /\ l.in = k.in
        /\ l.dials = k.dials /\ l.out_ctr = k.out_ctr /\ l.in_ctr = i /\ l.blind = 0
        /\ l.rc_cnt = x
    BY <1>4 DEF Knowledge
  <1> QED
    BY <1>1, <1>3, <1>5, <1>6

\* A SYN ahead moves in_ctr to a counter the partner has shown.
LEMMA RaisedIs ==
    ASSUME NEW k \in Knowledge, NEW n \in Nat
    PROVE  LET l == [k EXCEPT !.in_ctr = n, !.blind = 0]
           IN  /\ l \in Knowledge /\ l.crp_state = k.crp_state /\ l.out = k.out /\ l.in = k.in
               /\ l.dials = k.dials /\ l.out_ctr = k.out_ctr /\ l.in_ctr = n /\ l.blind = 0
               /\ l.rc_cnt = k.rc_cnt
  BY DEF Knowledge

\* The resynchronisation moves in_ctr blindly.
LEMMA MovedOnIs ==
    ASSUME NEW k \in Knowledge
    PROVE  LET l == MovedOn(k)
           IN  /\ l \in Knowledge /\ l.crp_state = k.crp_state /\ l.out = k.out /\ l.in = k.in
               /\ l.dials = k.dials /\ l.out_ctr = k.out_ctr /\ l.rc_cnt = k.rc_cnt
               /\ l.in_ctr = k.in_ctr + Step /\ l.blind = k.blind + Step
  <1>1. Step \in Nat /\ BadKept \in Nat
    BY ResyncAssumption
  <1>2. k.in_ctr \in Nat /\ k.blind \in Nat
    BY DEF Knowledge
  <1>3. PICK i \in Nat, d \in Nat : i = k.in_ctr + Step /\ d = k.blind + Step
    BY <1>1, <1>2
  <1>4. PICK l : l = [k EXCEPT !.bad_mac = BadKept, !.in_ctr = i, !.blind = d]
    OBVIOUS
  <1>5. l = MovedOn(k)
    BY <1>3, <1>4 DEF MovedOn
  <1>6. /\ l \in Knowledge /\ l.crp_state = k.crp_state /\ l.out = k.out /\ l.in = k.in
        /\ l.dials = k.dials /\ l.out_ctr = k.out_ctr /\ l.in_ctr = i /\ l.blind = d
        /\ l.rc_cnt = k.rc_cnt
    BY <1>1, <1>4 DEF Knowledge
  <1> QED
    BY <1>3, <1>5, <1>6

\* go_syn(): the counter shown has been reached, unless it is the last SYN of a call.
LEMMA GoSynSafe ==
    ASSUME NEW s, NEW e \in End, NEW b \in SUBSET Knowledge, Safe(s, e, b), NEW c,
           NEW m \in Message, IsSyn(m), \A h \in b : UpTo(m, h.out_ctr)
    PROVE  Safe(GoSyn(s, e, c, m), e, b)
  <1>1. PICK g : g = IF m.n > s.me.in_ctr
                     THEN [s EXCEPT !.me = [@ EXCEPT !.in_ctr = m.n, !.blind = 0]] ELSE s
    OBVIOUS
  <1>2. m.n \in Nat /\ m.ask \in BOOLEAN /\ \A h \in b : m.n <= h.out_ctr + 0
    <2>1. \A h \in b : h.out_ctr \in Nat
      BY DEF Knowledge
    <2> QED
      BY <2>1, MessageHas DEF UpTo
  <1>3. s \in Situation /\ s.me \in Knowledge
    BY SafeHas
  <1>4. Safe(g, e, b)
    <2>1. PICK l : l = [s.me EXCEPT !.in_ctr = m.n, !.blind = 0]
      OBVIOUS
    <2>2. /\ l \in Knowledge /\ l.crp_state = s.me.crp_state /\ l.out_ctr = s.me.out_ctr
          /\ l.in_ctr = m.n /\ l.blind = 0 /\ s.me.out_ctr \in Nat
      BY <1>2, <1>3, <2>1, RaisedIs DEF Knowledge
    <2>3. Later(s.me, l, b)
      BY <1>2, <2>2 DEF Later
    <2>4. Safe([s EXCEPT !.me = l], e, b)
      BY <2>3, MeSafe
    <2> QED
      BY <1>1, <2>1, <2>4
  <1>5. Safe(Disconnect(g, e), e, b)
    BY <1>4, DisconnectSafe
  <1>6. Safe(SendSyn(g, e, c, FALSE), e, b)
    <2>1. FALSE \in BOOLEAN
      OBVIOUS
    <2> QED
      BY <1>4, <2>1, SendSynSafe
  <1>7. GoSyn(s, e, c, m) = IF g.me.in_ctr = FinCtr THEN Disconnect(g, e)
                            ELSE IF m.ask THEN SendSyn(g, e, c, FALSE) ELSE g
    BY <1>1 DEF GoSyn
  <1> QED
    BY <1>4, <1>5, <1>6, <1>7

\* A packet with a wrong MAC is counted.
LEMMA RejectedSafe ==
    ASSUME NEW s, NEW e \in End, NEW b \in SUBSET Knowledge, Safe(s, e, b)
    PROVE  Safe(Rejected(s), e, b)
  <1>1. s \in Situation
    BY SafeHas
  <1>2. PICK l \in Knowledge :
           /\ Rejected(s) = [s EXCEPT !.me = l]
           /\ l.crp_state = s.me.crp_state /\ l.out_ctr = s.me.out_ctr
           /\ l.in_ctr = s.me.in_ctr /\ l.blind = s.me.blind
    BY <1>1, RejectedIs
  <1>3. Later(s.me, l, b)
    BY <1>2, SameCounters
  <1> QED
    BY <1>2, <1>3, MeSafe

\* go_data(): the very next packet has been sent, so that the one after it may come.
LEMMA GoDataSafe ==
    ASSUME NEW s, NEW e \in End, NEW b \in SUBSET Knowledge, Safe(s, e, b),
           NEW m \in Message, IsData(m), \A h \in b : UpTo(m, h.out_ctr), NEW side \in {1, -1}
    PROVE  Safe(GoData(s, e, m, side), e, b)
  <1>1. CASE m.n # s.me.in_ctr
    BY <1>1, RejectedSafe DEF GoData
  <1>2. CASE m.n = s.me.in_ctr
    <2>1. PICK l : l = Accepted(s.me, e, side)
      OBVIOUS
    <2>2. m.n \in Nat /\ \A h \in b : m.n + 1 <= h.out_ctr + 0
      <3>1. \A h \in b : h.out_ctr \in Nat
        BY DEF Knowledge
      <3> QED
        BY <3>1, MessageHas DEF UpTo
    <2>3. s \in Situation /\ s.me \in Knowledge /\ s.me.out_ctr \in Nat
      BY SafeHas DEF Knowledge
    <2>4. /\ l \in Knowledge /\ l.crp_state = s.me.crp_state /\ l.out_ctr = s.me.out_ctr
          /\ l.in_ctr = m.n + 1 /\ l.blind = 0
      BY <1>2, <2>1, <2>3, AcceptedIs
    <2>5. Later(s.me, l, b)
      BY <2>2, <2>3, <2>4 DEF Later
    <2>6. PICK g : g = [s EXCEPT !.me = l]
      OBVIOUS
    <2>7. Safe(g, e, b)
      BY <2>5, <2>6, MeSafe
    <2>8. Safe(Reconecttor(g, e), e, b)
      BY <2>7, ReconecttorSafe
    <2>9. GoData(s, e, m, side) = IF m.t = "-W" THEN Reconecttor(g, e) ELSE g
      BY <1>2, <2>1, <2>6 DEF GoData
    <2> QED
      BY <2>7, <2>8, <2>9
  <1> QED
    BY <1>1, <1>2

\* A connection is used.
LEMMA OutUsed ==
    ASSUME NEW s, NEW e \in End, NEW b \in SUBSET Knowledge, Safe(s, e, b), s.me.out.flag = "READY"
    PROVE  Safe([s EXCEPT !.me.out.flag = "INUSE"], e, b)
  <1>1. s \in Situation /\ s.me \in Knowledge
    BY SafeHas
  <1>2. PICK o \in Socket, i \in Socket : o = s.me.out /\ i = s.me.in
    BY <1>1 DEF Knowledge
  <1>3. PICK x \in Socket : x = [o EXCEPT !.flag = "INUSE"]
    BY <1>2 DEF Socket
  <1>4. PICK l : l = [s.me EXCEPT !.out = x, !.in = i]
    OBVIOUS
  <1>5. Safe([s EXCEPT !.me = l], e, b)
    BY <1>4, SocketsSafe
  <1>6. [s EXCEPT !.me.out.flag = "INUSE"] = [s EXCEPT !.me = l]
    BY <1>1, <1>2, <1>3, <1>4 DEF Situation, Knowledge
  <1> QED
    BY <1>5, <1>6

\* And the other one.
LEMMA InUsed ==
    ASSUME NEW s, NEW e \in End, NEW b \in SUBSET Knowledge, Safe(s, e, b), s.me.in.flag = "READY"
    PROVE  Safe([s EXCEPT !.me.in.flag = "INUSE"], e, b)
  <1>1. s \in Situation /\ s.me \in Knowledge
    BY SafeHas
  <1>2. PICK o \in Socket, i \in Socket : o = s.me.out /\ i = s.me.in
    BY <1>1 DEF Knowledge
  <1>3. PICK x \in Socket : x = [i EXCEPT !.flag = "INUSE"]
    BY <1>2 DEF Socket
  <1>4. PICK l : l = [s.me EXCEPT !.out = o, !.in = x]
    OBVIOUS
  <1>5. Safe([s EXCEPT !.me = l], e, b)
    BY <1>4, SocketsSafe
  <1>6. [s EXCEPT !.me.in.flag = "INUSE"] = [s EXCEPT !.me = l]
    BY <1>1, <1>2, <1>3, <1>4 DEF Situation, Knowledge
  <1> QED
    BY <1>5, <1>6

\* An invite is answered, or the connection is not wanted.
LEMMA InvSafe ==
    ASSUME NEW s, NEW e \in End, NEW b \in SUBSET Knowledge, Safe(s, e, b)
    PROVE  /\ s.me.out.flag = "READY" => Safe(InvOut(s, e), e, b)
           /\ s.me.in.flag = "READY" => Safe(InvIn(s, e), e, b)
  <1>1. /\ Zero \in Message /\ UpTo(Zero, s.me.out_ctr)
        /\ Inv \in Message /\ UpTo(Inv, s.me.out_ctr)
    BY NothingShown
  <1>2. Safe(SockCloseOut(Send(s, e, s.me.out.conn, Zero), e), e, b)
    <2>1. Safe(Send(s, e, s.me.out.conn, Zero), e, b)
      BY <1>1, SendSafe
    <2> QED
      BY <2>1, SockCloseSafe
  <1>3. PICK a : a = Send(s, e, s.me.in.conn, Inv)
    OBVIOUS
  <1>4. Safe(a, e, b) /\ a.me = s.me
    BY <1>1, <1>3, SendSafe
  <1>5. Safe(SockCloseIn(Send(a, e, s.me.in.conn, Zero), e), e, b)
    <2>1. Safe(Send(a, e, s.me.in.conn, Zero), e, b)
      BY <1>1, <1>4, SendSafe
    <2> QED
      BY <2>1, SockCloseSafe
  <1> QED
    BY <1>2, <1>3, <1>4, <1>5, OutUsed, InUsed DEF InvOut, InvIn

\* A packet is noted, whichever it is.
LEMMA NotedSafe ==
    ASSUME NEW s, NEW e \in End, NEW b \in SUBSET Knowledge, Safe(s, e, b)
    PROVE  /\ Safe([s EXCEPT !.me.rc_out = TRUE], e, b)
           /\ Safe([s EXCEPT !.me.rc_in = TRUE], e, b)
  <1>1. s \in Situation /\ s.me \in Knowledge
    BY SafeHas
  <1>2. PICK x \in Int, p \in BOOLEAN, q \in BOOLEAN :
            x = s.me.rc_cnt /\ p = s.me.rc_in /\ q = s.me.rc_out
    BY <1>1 DEF Knowledge
  <1>3. PICK y \in BOOLEAN : y = TRUE
    OBVIOUS
  <1>4. PICK k : k = [s.me EXCEPT !.rc_cnt = x, !.rc_in = p, !.rc_out = y]
    OBVIOUS
  <1>5. PICK l : l = [s.me EXCEPT !.rc_cnt = x, !.rc_in = y, !.rc_out = q]
    OBVIOUS
  <1>6. Safe([s EXCEPT !.me = k], e, b) /\ Safe([s EXCEPT !.me = l], e, b)
    BY <1>4, <1>5, MeasuredSafe
  <1>7. [s EXCEPT !.me.rc_out = TRUE] = [s EXCEPT !.me = k]
    BY <1>1, <1>2, <1>3, <1>4 DEF Situation, Knowledge
  <1>8. [s EXCEPT !.me.rc_in = TRUE] = [s EXCEPT !.me = l]
    BY <1>1, <1>2, <1>3, <1>5 DEF Situation, Knowledge
  <1> QED
    BY <1>6, <1>7, <1>8

\* readtcpout and readtcpin.
LEMMA ReadSafe ==
    ASSUME NEW s, NEW e \in End, NEW b \in SUBSET Knowledge, Safe(s, e, b),
           NEW m \in Message, \A h \in b : UpTo(m, h.out_ctr)
    PROVE  Safe(ReadOut(s, e, m), e, b) /\ Safe(ReadIn(s, e, m), e, b)
  <1>1. Safe(SockCloseOut(s, e), e, b) /\ Safe(SockCloseIn(s, e), e, b)
    BY SockCloseSafe
  <1>2. /\ s.me.out.flag = "READY" => Safe(InvOut(s, e), e, b)
        /\ s.me.in.flag = "READY" => Safe(InvIn(s, e), e, b)
    BY InvSafe
  <1>3. PICK o, i : o = [s EXCEPT !.me.rc_out = TRUE] /\ i = [s EXCEPT !.me.rc_in = TRUE]
    OBVIOUS
  <1>4. Safe(o, e, b) /\ Safe(i, e, b)
    BY <1>3, NotedSafe
  <1>5. m.t = "syn" => /\ Safe(GoSyn(s, e, s.me.out.conn, m), e, b)
                       /\ Safe(GoSyn(s, e, s.me.in.conn, m), e, b)
    BY GoSynSafe DEF IsSyn
  <1>6. m.t \in {"data", "-W"} => Safe(GoData(o, e, m, 1), e, b) /\ Safe(GoData(i, e, m, -1), e, b)
    BY <1>4, GoDataSafe DEF IsData
  <1>7. Safe(Rejected(o), e, b) /\ Safe(Rejected(i), e, b)
    BY <1>4, RejectedSafe
  <1>8. Safe(ReadOut(s, e, m), e, b)
    BY <1>1, <1>2, <1>3, <1>4, <1>5, <1>6, <1>7 DEF ReadOut
  <1>9. Safe(ReadIn(s, e, m), e, b)
    BY <1>1, <1>2, <1>3, <1>4, <1>5, <1>6, <1>7 DEF ReadIn
  <1> QED
    BY <1>8, <1>9

\* What follows when a dialling is taken for the first of a call leaves the call.
LEMMA RedialSafe ==
    ASSUME NEW s, NEW e \in End, NEW b \in SUBSET Knowledge, Safe(s, e, b), s.me.out.flag = "READY"
    PROVE  Safe(Redial(s, e), e, b) /\ Safe(NoRedial(s, e), e, b)
  <1>1. s \in Situation /\ s.me \in Knowledge
    BY SafeHas
  <1>2. PICK x \in Socket : x = [s.me.out EXCEPT !.flag = "INUSE"]
    BY <1>1 DEF Knowledge, Socket
  <1>3. PICK r : r = [s EXCEPT !.me = [@ EXCEPT !.crp_state = -1, !.out.flag = "INUSE",
                                                !.out_ctr = 0, !.in_ctr = 0]]
    OBVIOUS
  <1>4. r \in Situation /\ r.me.crp_state = -1
    <2>1. PICK k : k = [s.me EXCEPT !.crp_state = -1, !.out = x, !.out_ctr = 0, !.in_ctr = 0]
      OBVIOUS
    <2>2. k \in Knowledge /\ k.crp_state = -1
      BY <1>1, <2>1 DEF Knowledge
    <2>3. r = [s EXCEPT !.me = k]
      BY <1>1, <1>2, <1>3, <2>1 DEF Situation, Knowledge
    <2> QED
      BY <1>1, <2>2, <2>3 DEF Situation
  <1>5. Safe(r, e, b)
    BY <1>4, LeftSafe
  <1>6. Req \in Message /\ UpTo(Req, r.me.out_ctr)
    BY NothingShown
  <1>7. Safe(Send(r, e, r.me.out.conn, Req), e, b)
    BY <1>5, <1>6, SendSafe
  <1>8. PICK q : q = [s EXCEPT !.me = [@ EXCEPT !.crp_state = 0, !.out.flag = "INUSE"]]
    OBVIOUS
  <1>9. q \in Situation /\ q.me.crp_state = 0
    <2>1. PICK k : k = [s.me EXCEPT !.crp_state = 0, !.out = x]
      OBVIOUS
    <2>2. k \in Knowledge /\ k.crp_state = 0
      BY <1>1, <2>1 DEF Knowledge
    <2>3. q = [s EXCEPT !.me = k]
      BY <1>1, <1>2, <1>8, <2>1 DEF Situation, Knowledge
    <2> QED
      BY <1>1, <2>2, <2>3 DEF Situation
  <1>10. Safe(Disconnect(q, e), e, b)
    BY <1>9, LeftSafe, DisconnectSafe
  <1> QED
    BY <1>3, <1>7, <1>8, <1>10 DEF Redial, NoRedial

-----------------------------------------------------------------------------
(* Steps.                                                                  *)

\* What e's partner knows limits what e may be brought as long as both are in the call.
Limits(e) == IF Called THEN {end[Peer(e)]} ELSE {}

\* The invariant makes every situation safe.
LEMMA HereSafe ==
    ASSUME CountersInv, NEW e \in End
    PROVE  /\ Limits(e) \in SUBSET Knowledge
           /\ Safe(Here(e), e, Limits(e))
           /\ Here(e).me = end[e] /\ Here(e).wire = wire
           /\ end[e] \in Knowledge /\ wire \in Wires
  <1>1. end[e] \in Knowledge /\ end[Peer(e)] \in Knowledge /\ wire \in Wires
    BY PeerIs DEF CountersInv, TypeOK, Wires
  <1>2. Here(e) \in Situation /\ Here(e).me = end[e] /\ Here(e).wire = wire
    BY <1>1 DEF Here, Situation
  <1>3. \A h \in Limits(e) : Sound(Here(e), e, h)
    BY DEF Limits, CountersInv
  <1> QED
    BY <1>1, <1>2, <1>3 DEF Safe, Limits

\* A step of e to a safe situation, not one back into the call, keeps the invariant.
LEMMA StepKeeps ==
    ASSUME CountersInv, NEW e \in End, NEW r, Safe(r, e, Limits(e)), Becomes(e, r),
           r.me.crp_state > 2 => InCall(e),
           backlog' \in [End -> Seq(Conn)],
           upsets' \in Seq({"command", "break"}) /\ Len(upsets') <= MaxUpset
    PROVE  CountersInv'
  <1>1. r.me \in Knowledge /\ r.wire \in Wires /\ end \in [End -> Knowledge]
    BY SafeHas DEF CountersInv, TypeOK
  <1>2. PICK p \in End : p = Peer(e) /\ p # e /\ Peer(p) = e /\ End = {e, p}
    BY PeerIs
  <1>3. end' \in [End -> Knowledge] /\ end'[e] = r.me /\ end'[p] = end[p] /\ wire' = r.wire
    BY <1>1, <1>2 DEF Becomes
  <1>4. TypeOK'
    BY <1>1, <1>3 DEF TypeOK, Wires
  <1>5. ASSUME Called' PROVE \A f \in End : Sound(Here(f)', f, end'[Peer(f)])
    <2>1. r.me.crp_state > 2 /\ end'[p].crp_state > 2
      BY <1>2, <1>3, <1>5 DEF Called, InCall
    <2>2. Called
      BY <1>2, <1>3, <2>1 DEF Called, InCall
    <2>3. Sound(r, e, end[p])
      BY <1>2, <2>1, <2>2 DEF Safe, Limits
    <2>4. \A f \in End : Here(f)'.me = end'[f] /\ Here(f)'.wire = r.wire
      BY <1>3 DEF Here
    <2>5. Sound(Here(e)', e, end'[Peer(e)])
      BY <1>2, <1>3, <2>3, <2>4 DEF Sound
    <2>6. Sound(Here(p)', p, end'[Peer(p)])
      BY <1>2, <1>3, <2>3, <2>4 DEF Sound
    <2> QED
      BY <1>2, <2>5, <2>6
  <1> QED
    BY <1>4, <1>5 DEF CountersInv

\* A step that leaves the backlog and the upsets alone.
LEMMA PlainKeeps ==
    ASSUME CountersInv, NEW e \in End, NEW r, Safe(r, e, Limits(e)), Becomes(e, r),
           r.me.crp_state > 2 => InCall(e), UNCHANGED <<backlog, upsets>>
    PROVE  CountersInv'
  <1>1. /\ backlog' \in [End -> Seq(Conn)]
        /\ upsets' \in Seq({"command", "break"}) /\ Len(upsets') <= MaxUpset
    BY DEF CountersInv, TypeOK
  <1> QED
    BY <1>1, StepKeeps

\* A step on a command.
LEMMA CommandKeeps ==
    ASSUME CountersInv, NEW e \in End, NEW r, Safe(r, e, Limits(e)), Becomes(e, r), InCall(e),
           Len(upsets) < MaxUpset, upsets' = Append(upsets, "command"), UNCHANGED backlog
    PROVE  CountersInv'
  <1>1. upsets \in Seq({"command", "break"}) /\ MaxUpset \in Nat
    BY BoundsAssumption DEF CountersInv, TypeOK
  <1>2. upsets' \in Seq({"command", "break"}) /\ Len(upsets') <= MaxUpset
    BY <1>1
  <1>3. backlog' \in [End -> Seq(Conn)]
    BY DEF CountersInv, TypeOK
  <1> QED
    BY <1>2, <1>3, StepKeeps

\* do_snd() of a packet.
LEMMA VoiceKeeps ==
    ASSUME CountersInv, NEW e \in End, Voice(e)
    PROVE  CountersInv'
  <1>1. PICK r : r = Say(Here(e), e, "data")
    OBVIOUS
  <1>2. Safe(r, e, Limits(e))
    BY <1>1, HereSafe, SaySafe
  <1> QED
    BY <1>1, <1>2, PlainKeeps DEF Voice

\* do_read() moves in_ctr blindly, and answers the SYN it has made up.
LEMMA RestoreKeeps ==
    ASSUME CountersInv, NEW e \in End, Restore(e)
    PROVE  CountersInv'
  <1>1. PICK l : l = MovedOn(end[e])
    OBVIOUS
  <1>2. /\ end[e] \in Knowledge /\ Here(e).me = end[e] /\ Here(e).wire = wire
        /\ Limits(e) \in SUBSET Knowledge /\ Safe(Here(e), e, Limits(e))
    BY HereSafe
  <1>3. /\ l \in Knowledge /\ l.crp_state = end[e].crp_state /\ l.out_ctr = end[e].out_ctr
        /\ l.in_ctr = end[e].in_ctr + Step /\ l.blind = end[e].blind + Step
    BY <1>1, <1>2, MovedOnIs
  <1>4. Later(end[e], l, Limits(e))
    <2>1. \A h \in Limits(e) : h.out_ctr \in Nat
      BY <1>2 DEF Knowledge
    <2>2. end[e].crp_state > 2 => \A h \in Limits(e) : end[e].in_ctr <= h.out_ctr + end[e].blind
      BY <1>2, SafeHas
    <2>3. end[e].in_ctr \in Nat /\ end[e].blind \in Nat /\ end[e].out_ctr \in Nat
      BY <1>2 DEF Knowledge
    <2>4. Step \in Nat
      BY ResyncAssumption
    <2>5. end[e].crp_state > 2 => \A h \in Limits(e) : l.in_ctr <= h.out_ctr + l.blind
      BY <1>3, <2>1, <2>2, <2>3, <2>4
    <2> QED
      BY <1>3, <2>3, <2>5 DEF Later
  <1>5. PICK s : s = [Here(e) EXCEPT !.me = l]
    OBVIOUS
  <1>6. Safe(s, e, Limits(e)) /\ s.me = l /\ s.me.out_ctr \in Nat
    BY <1>2, <1>3, <1>4, <1>5, MeSafe DEF Knowledge
  <1>7. PICK m \in Message : m = Syn(s.me.out_ctr, FALSE) /\ UpTo(m, s.me.out_ctr)
    BY <1>6, SynMade
  <1>8. Safe(DoSend(s, e, m), e, Limits(e)) /\ Safe(Disconnect(s, e), e, Limits(e))
    BY <1>2, <1>6, <1>7, DoSendSafe, DisconnectSafe
  <1>9. PICK r : r = IF s.me.in_ctr = FinCtr THEN Disconnect(s, e) ELSE DoSend(s, e, m)
    OBVIOUS
  <1>10. s = [Here(e) EXCEPT !.me = MovedOn(@)]
    BY <1>1, <1>2, <1>5
  <1>11. InCall(e) /\ Becomes(e, r) /\ UNCHANGED <<backlog, upsets>>
    BY <1>7, <1>9, <1>10 DEF Restore
  <1> QED
    BY <1>8, <1>9, <1>11, PlainKeeps

\* do_read() asks the other end to dial, or notes that it may be asked.
LEMMA MeasureKeeps ==
    ASSUME CountersInv, NEW e \in End, Measure(e)
    PROVE  CountersInv'
  <1>1. e \in {Alice, Bob}
    BY DEF End
  <1>2. PICK x \in Int : x = Level[e] \div 2
    BY <1>1, LevelAssumption
  <1>3. InCall(e) /\ UNCHANGED <<backlog, upsets>>
    BY DEF Measure
  <1>4. CASE InSlow(e) /\ LET s == IF Frozen(e) THEN CloseIn(Here(e), e) ELSE Here(e)
                          IN  Becomes(e, AskToDial(s, e, Level[e] \div 2))
    <2>1. PICK s : s = IF Frozen(e) THEN CloseIn(Here(e), e) ELSE Here(e)
      OBVIOUS
    <2>2. Safe(s, e, Limits(e))
      BY <2>1, HereSafe, CloseInSafe
    <2>3. PICK r : r = AskToDial(s, e, x)
      OBVIOUS
    <2>4. Safe(r, e, Limits(e))
      BY <2>2, <2>3, HereSafe, AskToDialSafe
    <2>5. Becomes(e, r)
      BY <1>2, <1>4, <2>1, <2>3
    <2> QED
      BY <1>3, <2>4, <2>5, PlainKeeps
  <1>5. CASE Becomes(e, [Here(e) EXCEPT !.me.rc_cnt = -(Level[e] \div 2)])
    <2>1. PICK y \in Int : y = -x
      BY <1>2
    <2>2. PICK p \in BOOLEAN, q \in BOOLEAN : p = end[e].rc_in /\ q = end[e].rc_out
      BY HereSafe DEF Knowledge
    <2>3. PICK l : l = [end[e] EXCEPT !.rc_cnt = y, !.rc_in = p, !.rc_out = q]
      OBVIOUS
    <2>4. PICK r : r = [Here(e) EXCEPT !.me = l]
      OBVIOUS
    <2>5. Safe(r, e, Limits(e))
      BY <2>3, <2>4, HereSafe, MeasuredSafe
    <2>6. r = [Here(e) EXCEPT !.me.rc_cnt = -(Level[e] \div 2)]
      BY <1>2, <2>1, <2>2, <2>3, <2>4, HereSafe DEF Here, Knowledge
    <2> QED
      BY <1>3, <1>5, <2>5, <2>6, PlainKeeps
  <1> QED
    BY <1>4, <1>5 DEF Measure

\* What remains of a wire to e shows no more than the whole of it.
LEMMA TakenSafe ==
    ASSUME CountersInv, NEW e \in End, NEW c \in Conn, wire[c][e] # <<>>
    PROVE  /\ Safe([Here(e) EXCEPT !.wire[c][e] = Tail(@)], e, Limits(e))
           /\ [Here(e) EXCEPT !.wire[c][e] = Tail(@)].me = end[e]
           /\ Head(wire[c][e]) \in Message
           /\ \A h \in Limits(e) : InCall(e) => UpTo(Head(wire[c][e]), h.out_ctr)
  <1>1. /\ Here(e) \in Situation /\ Here(e).me = end[e] /\ Here(e).wire = wire /\ wire \in Wires
        /\ Safe(Here(e), e, Limits(e))
    BY HereSafe, SafeHas
  <1>2. PICK q \in Seq(Message) : q = wire[c][e] /\ q # <<>>
    BY <1>1 DEF Wires
  <1>3. PICK p \in Seq(Message) : p = Tail(q)
    <2>1. Tail(q) \in Seq(Message)
      BY <1>2
    <2> QED
      BY <2>1
  <1>4. PICK x : x = [wire EXCEPT ![c][e] = p]
    OBVIOUS
  <1>5. Replaced(wire, x, c, e, p)
    BY <1>1, <1>4, WireReplaced
  <1>6. PICK r : r = [Here(e) EXCEPT !.wire[c][e] = Tail(@)]
    OBVIOUS
  <1>7. r = [me |-> end[e], wire |-> x]
    BY <1>2, <1>3, <1>4, <1>6 DEF Here
  <1>8. r \in Situation /\ r.me = end[e] /\ r.wire = x
    BY <1>1, <1>5, <1>7, HereSafe DEF Situation, Replaced
  <1>9. ASSUME NEW h \in Limits(e), end[e].crp_state > 2
        PROVE  Sound(r, e, h) /\ UpTo(Head(q), h.out_ctr)
    <2>1. Sound(Here(e), e, h)
      BY <1>1, <1>9 DEF Safe
    <2>2. Shows(q, h.out_ctr)
      BY <1>1, <1>2, <2>1 DEF Sound
    <2>3. Shows(p, h.out_ctr) /\ UpTo(Head(q), h.out_ctr)
      BY <1>2, <1>3, <2>2, ShowsTail
    <2>4. ASSUME NEW d \in Conn
          PROVE  Shows(x[d][Peer(e)], end[e].out_ctr) /\ Shows(x[d][e], h.out_ctr)
      <3>1. Peer(e) \in End /\ Peer(e) # e
        BY PeerIs
      <3>2. x[d][Peer(e)] = wire[d][Peer(e)] /\ (x[d][e] = p \/ x[d][e] = wire[d][e])
        BY <1>5, <3>1 DEF Replaced
      <3> QED
        BY <1>1, <2>1, <2>3, <3>2 DEF Sound
    <2> QED
      BY <1>1, <1>8, <2>1, <2>3, <2>4 DEF Sound
  <1>10. Safe(r, e, Limits(e))
    BY <1>8, <1>9 DEF Safe
  <1>11. Head(q) \in Message
    BY <1>2
  <1> QED
    BY <1>2, <1>6, <1>8, <1>9, <1>10, <1>11 DEF InCall

\* readtcpout() and readtcpin() of the first packet.
LEMMA FromKeeps ==
    ASSUME CountersInv, NEW e \in End, FromOut(e) \/ FromIn(e)
    PROVE  CountersInv'
  <1>1. InCall(e) /\ UNCHANGED <<backlog, upsets>>
    BY DEF FromOut, FromIn
  <1>2. PICK c, s : c = (IF FromOut(e) THEN end[e].out.conn ELSE end[e].in.conn)
                    /\ s = [Here(e) EXCEPT !.wire[c][e] = Tail(@)]
    OBVIOUS
  <1>3. c \in Conn /\ wire[c][e] # <<>>
    <2>1. end[e].out \in Socket /\ end[e].in \in Socket
      BY HereSafe DEF Knowledge
    <2> QED
      BY <1>2, <2>1 DEF FromOut, FromIn, Socket
  <1>4. PICK m : m = Head(wire[c][e])
    OBVIOUS
  <1>5. Safe(s, e, Limits(e)) /\ m \in Message /\ \A h \in Limits(e) : UpTo(m, h.out_ctr)
    BY <1>1, <1>2, <1>3, <1>4, TakenSafe
  <1>6. Safe(ReadOut(s, e, m), e, Limits(e)) /\ Safe(ReadIn(s, e, m), e, Limits(e))
    BY <1>5, HereSafe, ReadSafe
  <1>7. Becomes(e, ReadOut(s, e, m)) \/ Becomes(e, ReadIn(s, e, m))
    BY <1>2, <1>4 DEF FromOut, FromIn
  <1> QED
    BY <1>1, <1>6, <1>7, PlainKeeps

\* A connection joins the backlog of e's partner, or leaves e's own.
LEMMA BacklogTyped ==
    ASSUME CountersInv, NEW e \in End
    PROVE  /\ \A c \in Conn : [backlog EXCEPT ![Peer(e)] = Append(@, c)] \in [End -> Seq(Conn)]
           /\ backlog[e] # <<>> =>
                /\ [backlog EXCEPT ![e] = Tail(@)] \in [End -> Seq(Conn)]
                /\ Head(backlog[e]) \in Conn
  <1>1. backlog \in [End -> Seq(Conn)] /\ Peer(e) \in End
    BY PeerIs DEF CountersInv, TypeOK
  <1>2. PICK q \in Seq(Conn), p \in Seq(Conn) : q = backlog[e] /\ p = backlog[Peer(e)]
    BY <1>1
  <1>3. ASSUME NEW c \in Conn PROVE [backlog EXCEPT ![Peer(e)] = Append(@, c)] \in [End -> Seq(Conn)]
    <2>1. Append(p, c) \in Seq(Conn)
      OBVIOUS
    <2>2. [backlog EXCEPT ![Peer(e)] = Append(p, c)] \in [End -> Seq(Conn)]
      BY <1>1, <2>1
    <2> QED
      BY <1>2, <2>2
  <1>4. ASSUME q # <<>>
        PROVE  [backlog EXCEPT ![e] = Tail(@)] \in [End -> Seq(Conn)] /\ Head(q) \in Conn
    <2>1. Tail(q) \in Seq(Conn) /\ Head(q) \in Conn
      BY <1>4
    <2>2. [backlog EXCEPT ![e] = Tail(q)] \in [End -> Seq(Conn)]
      BY <1>1, <2>1
    <2> QED
      BY <1>2, <2>1, <2>2
  <1> QED
    BY <1>2, <1>3, <1>4

\* readtcpout() once Tor has reached the other end.
LEMMA ConnectedKeeps ==
    ASSUME CountersInv, NEW e \in End, Connected(e)
    PROVE  CountersInv'
  <1>1. PICK c : c = <<e, end[e].dials + 1>>
    OBVIOUS
  <1>2. PICK s : s = [Here(e) EXCEPT !.me.dials = @ + 1, !.me.out = [flag |-> "READY", conn |-> c]]
    OBVIOUS
  <1>3. /\ InCall(e) /\ end[e].dials < MaxDial
        /\ \/ HasIn(s) /\ Becomes(e, Send(s, e, c, Inv))
           \/ \E r \in {Redial(s, e), NoRedial(s, e)} : Becomes(e, r)
        /\ backlog' = [backlog EXCEPT ![Peer(e)] = Append(@, c)]
        /\ UNCHANGED upsets
    BY <1>1, <1>2 DEF Connected
  <1>4. end[e] \in Knowledge /\ Safe(Here(e), e, Limits(e)) /\ Limits(e) \in SUBSET Knowledge
    BY HereSafe
  <1>5. end[e].dials + 1 \in 1 .. MaxDial
    BY <1>3, <1>4, BoundsAssumption DEF Knowledge
  <1>6. c \in Conn
    BY <1>1, <1>5 DEF Conn
  <1>7. PICK x \in Socket : x = [flag |-> "READY", conn |-> c]
    BY <1>6 DEF Socket
  <1>8. PICK l : l = [end[e] EXCEPT !.dials = @ + 1, !.out = x]
    OBVIOUS
  <1>9. /\ l \in Knowledge /\ l.crp_state = end[e].crp_state /\ l.out = x
        /\ l.out_ctr = end[e].out_ctr /\ l.in_ctr = end[e].in_ctr /\ l.blind = end[e].blind
    <2>1. end[e].dials + 1 \in 0 .. MaxDial
      BY <1>5
    <2> QED
      BY <1>4, <1>8, <2>1 DEF Knowledge
  <1>10. Later(end[e], l, Limits(e))
    BY <1>4, <1>9, HereSafe, SameCounters
  <1>11. s = [Here(e) EXCEPT !.me = l]
    BY <1>2, <1>4, <1>7, <1>8 DEF Here, Knowledge
  <1>12. Safe(s, e, Limits(e)) /\ s.me = l
    BY <1>4, <1>10, <1>11, HereSafe, MeSafe
  <1>13. Inv \in Message /\ UpTo(Inv, s.me.out_ctr)
    BY NothingShown
  <1>14. Safe(Send(s, e, c, Inv), e, Limits(e))
    BY <1>4, <1>12, <1>13, SendSafe
  <1>15. Safe(Redial(s, e), e, Limits(e)) /\ Safe(NoRedial(s, e), e, Limits(e))
    BY <1>4, <1>7, <1>9, <1>12, RedialSafe
  <1>16. PICK r : Safe(r, e, Limits(e)) /\ Becomes(e, r)
    BY <1>3, <1>14, <1>15
  <1>17. /\ backlog' \in [End -> Seq(Conn)]
         /\ upsets' \in Seq({"command", "break"}) /\ Len(upsets') <= MaxUpset
    BY <1>3, <1>6, BacklogTyped DEF CountersInv, TypeOK
  <1> QED
    BY <1>3, <1>16, <1>17, StepKeeps

\* readtcpout() when Tor has not reached it.
LEMMA NotConnectedKeeps ==
    ASSUME CountersInv, NEW e \in End, NotConnected(e)
    PROVE  CountersInv'
  <1>1. Safe(SockCloseOut(Here(e), e), e, Limits(e))
    BY HereSafe, SockCloseSafe
  <1> QED
    BY <1>1, PlainKeeps DEF NotConnected

\* tcpaccept() takes a connection or closes it.
LEMMA AcceptKeeps ==
    ASSUME CountersInv, NEW e \in End, Accept(e)
    PROVE  CountersInv'
  <1>1. PICK c \in Conn : c = Head(backlog[e])
    BY BacklogTyped DEF Accept
  <1>2. PICK f \in {"READY", "INUSE"} : f = IF HasOut(Here(e)) THEN "READY" ELSE "INUSE"
    OBVIOUS
  <1> DEFINE s == Here(e)
             b == Limits(e)
  <1>3. /\ b \in SUBSET Knowledge /\ Safe(s, e, b)
        /\ s.me = end[e] /\ s.wire = wire /\ end[e] \in Knowledge
    BY HereSafe
  <1> HIDE DEF s, b
  <1>4. PICK j : j = Send(s, e, c, Junk)
    OBVIOUS
  <1>5. Safe(j, e, b) /\ j.me = end[e]
    <2>1. Junk \in Message /\ UpTo(Junk, s.me.out_ctr)
      BY NothingShown
    <2>2. Safe(Send(s, e, c, Junk), e, b) /\ Send(s, e, c, Junk).me = s.me
      BY <1>3, <2>1, SendSafe
    <2> QED
      BY <1>3, <1>4, <2>2
  <1>6. PICK w : w = CloseBy(j.wire, c, e)
    OBVIOUS
  <1>7. Safe([j EXCEPT !.wire = w], e, b) /\ [j EXCEPT !.wire = w].me = j.me
    <2>1. c # None
      <3>1. PICK g \in End, n \in 1 .. MaxDial : c = <<g, n>>
        BY DEF Conn
      <3> QED
        BY <3>1 DEF None
    <2> QED
      BY <1>3, <1>5, <1>6, <2>1, ClosedSafe
  <1>8. [j EXCEPT !.wire = w] = [me |-> end[e], wire |-> w]
    BY <1>5, SafeHas DEF Situation
  <1>9. PICK x \in Socket : x = [flag |-> f, conn |-> c]
    BY <1>1, <1>2 DEF Socket
  <1>10. PICK t : t = [s EXCEPT !.me.in = x]
    OBVIOUS
  <1>11. Safe(t, e, b) /\ t.me.crp_state = end[e].crp_state
    BY <1>3, <1>9, <1>10, InTakenSafe
  <1>12. t = [Here(e) EXCEPT !.me.in = [flag |-> f, conn |-> c]]
    BY <1>9, <1>10 DEF s
  <1>13. PICK r : Safe(r, e, Limits(e)) /\ Becomes(e, r) /\ r.me.crp_state = end[e].crp_state
    <2>1. CASE HasIn(Here(e))
      <3>1. Becomes(e, [me |-> end[e], wire |-> w])
        BY <1>1, <1>3, <1>4, <1>6, <2>1 DEF Accept, s
      <3> QED
        BY <1>3, <1>5, <1>7, <1>8, <3>1 DEF s, b
    <2>2. CASE ~ HasIn(Here(e))
      <3>1. Becomes(e, [Here(e) EXCEPT !.me.in = [flag |-> f, conn |-> c]])
        BY <1>1, <1>2, <2>2 DEF Accept
      <3> QED
        BY <1>11, <1>12, <3>1 DEF b
    <2> QED
      BY <2>1, <2>2
  <1>14. /\ backlog' \in [End -> Seq(Conn)]
        /\ upsets' \in Seq({"command", "break"}) /\ Len(upsets') <= MaxUpset
    BY BacklogTyped DEF Accept, CountersInv, TypeOK
  <1> QED
    BY <1>13, <1>14, StepKeeps DEF InCall

\* The time is up, or the user hangs up.
LEMMA LeaveKeeps ==
    ASSUME CountersInv, NEW e \in End, Timeout(e) \/ Hangup(e)
    PROVE  CountersInv'
  <1>1. PICK r : r = Disconnect(Here(e), e)
    OBVIOUS
  <1>2. Safe(r, e, Limits(e)) /\ r.me.crp_state = 0
    BY <1>1, HereSafe, DisconnectSafe
  <1> QED
    BY <1>1, <1>2, PlainKeeps, CommandKeeps DEF Timeout, Hangup

\* The commands about doubling.
LEMMA DblKeeps ==
    ASSUME CountersInv, NEW e \in End, ResetDbl(e) \/ InitDbl(e)
    PROVE  CountersInv'
  <1>1. PICK x \in Int : x = 0
    OBVIOUS
  <1>2. PICK s : s = CloseIn(Here(e), e)
    OBVIOUS
  <1>3. Safe(s, e, Limits(e))
    BY <1>2, HereSafe, CloseInSafe
  <1>4. Safe(AskToDial(s, e, x), e, Limits(e))
    BY <1>3, HereSafe, AskToDialSafe
  <1>5. Safe(DialAgain(Here(e), e), e, Limits(e))
    BY HereSafe, DialAgainSafe
  <1>6. CASE ResetDbl(e)
    BY <1>1, <1>2, <1>4, <1>6, CommandKeeps DEF ResetDbl
  <1>7. CASE InitDbl(e)
    BY <1>5, <1>7, CommandKeeps DEF InitDbl
  <1> QED
    BY <1>6, <1>7

\* What arrives of a broken connection.
Cut(q, k) == Append(SubSeq(q, 1, k), Eof)

\* The first part of a wire and its end show no more than the whole wire.
LEMMA ShowsCut ==
    ASSUME NEW q \in Seq(Message), NEW k \in 0 .. Len(q)
    PROVE  Cut(q, k) \in Seq(Message) /\ \A n : Shows(q, n) => Shows(Cut(q, k), n)
  <1>1. PICK p \in Seq(Message) : p = SubSeq(q, 1, k) /\ Len(p) = k /\ \A i \in 1 .. k : p[i] = q[i]
    <2>1. SubSeq(q, 1, k) \in Seq(Message)
      OBVIOUS
    <2>2. Len(SubSeq(q, 1, k)) = k /\ \A i \in 1 .. k : SubSeq(q, 1, k)[i] = q[i]
      OBVIOUS
    <2> QED
      BY <2>1, <2>2
  <1>2. ASSUME NEW n, Shows(q, n) PROVE Shows(p, n)
    BY <1>1, <1>2 DEF Shows
  <1>3. Eof \in Message /\ \A n : UpTo(Eof, n)
    BY NothingShown
  <1>4. PICK x : x = Append(p, Eof)
    OBVIOUS
  <1>5. x \in Seq(Message)
    BY <1>3, <1>4
  <1>6. ASSUME NEW n, Shows(q, n) PROVE Shows(x, n)
    BY <1>2, <1>3, <1>4, <1>6, ShowsPut
  <1>7. x = Cut(q, k)
    BY <1>1, <1>4 DEF Cut
  <1> QED
    BY <1>5, <1>6, <1>7

\* A connection breaks.
LEMMA BreakKeeps ==
    ASSUME CountersInv, NEW c \in Conn, Break(c)
    PROVE  CountersInv'
  <1>1. /\ Len(upsets) < MaxUpset /\ upsets' = Append(upsets, "break")
        /\ end' = end /\ backlog' = backlog
    BY DEF Break
  <1>2. PICK k \in [End -> 0 .. MaxOut + 2] :
          /\ \A e \in End : k[e] <= Len(wire[c][e])
          /\ wire' = [wire EXCEPT ![c] =
                        [e \in End |-> IF Shut(@[e]) THEN @[e]
                                       ELSE Append(SubSeq(@[e], 1, k[e]), Eof)]]
    BY DEF Break
  <1>3. wire \in Wires
    BY DEF CountersInv, TypeOK, Wires
  <1>4. PICK y : y = [e \in End |-> IF Shut(wire[c][e]) THEN wire[c][e]
                                    ELSE Append(SubSeq(wire[c][e], 1, k[e]), Eof)]
    OBVIOUS
  <1>5. \A e \in End : y[e] \in Seq(Message) /\ \A n : Shows(wire[c][e], n) => Shows(y[e], n)
    <2> TAKE e \in End
    <2>1. PICK q \in Seq(Message) : q = wire[c][e]
      BY <1>3 DEF Wires
    <2>2. PICK i \in 0 .. Len(q) : i = k[e]
      BY <1>2, <2>1, BoundsAssumption
    <2>3. PICK x : x = Cut(q, i)
      OBVIOUS
    <2>4. x \in Seq(Message) /\ \A n : Shows(q, n) => Shows(x, n)
      BY <2>1, <2>2, <2>3, ShowsCut
    <2>5. y[e] = q \/ y[e] = x
      BY <1>4, <2>1, <2>2, <2>3 DEF Cut
    <2> QED
      BY <2>1, <2>4, <2>5
  <1>6. y \in [End -> Seq(Message)]
    BY <1>4, <1>5
  <1>7. wire' = [wire EXCEPT ![c] = y]
    BY <1>2, <1>4
  <1>8. wire' \in Wires /\ \A d \in Conn : wire'[d] = IF d = c THEN y ELSE wire[d]
    BY <1>3, <1>6, <1>7 DEF Wires
  <1>9. TypeOK'
    <2>1. upsets \in Seq({"command", "break"}) /\ MaxUpset \in Nat
      BY BoundsAssumption DEF CountersInv, TypeOK
    <2>2. upsets' \in Seq({"command", "break"}) /\ Len(upsets') <= MaxUpset
      BY <1>1, <2>1
    <2> QED
      BY <1>1, <1>8, <2>2 DEF CountersInv, TypeOK, Wires
  <1>10. ASSUME Called', NEW e \in End PROVE Sound(Here(e)', e, end'[Peer(e)])
    <2>1. Sound(Here(e), e, end[Peer(e)])
      BY <1>1, <1>10 DEF CountersInv, Called, InCall
    <2>2. /\ Here(e).me = end[e] /\ Here(e).wire = wire
          /\ Here(e)'.me = end[e] /\ Here(e)'.wire = wire'
      BY <1>1 DEF Here
    <2>3. ASSUME NEW d \in Conn
          PROVE  Shows(wire'[d][Peer(e)], end[e].out_ctr) /\ Shows(wire'[d][e], end[Peer(e)].out_ctr)
      <3>1. Shows(wire[d][Peer(e)], end[e].out_ctr) /\ Shows(wire[d][e], end[Peer(e)].out_ctr)
        BY <2>1, <2>2 DEF Sound
      <3> QED
        BY <1>5, <1>8, <3>1, PeerIs
    <2> QED
      BY <1>1, <2>1, <2>2, <2>3 DEF Sound
  <1> QED
    BY <1>9, <1>10 DEF CountersInv

-----------------------------------------------------------------------------
(* The theorems about the counters.                                        *)

\* In the beginning at most the originator's first packet is on its way.
LEMMA InitCounters ==
    ASSUME Init
    PROVE  CountersInv
  <1>1. PICK told \in {0, 1} : told = IF Level[Alice] = -1 THEN 0 ELSE 1
    OBVIOUS
  <1>2. First \in Conn /\ Alice \in End /\ Bob \in End /\ Alice # Bob
    BY BoundsAssumption, EndsAssumption DEF First, Conn, End
  <1>3. PICK used \in Socket, none \in Socket : used = [flag |-> "INUSE", conn |-> First] /\ none = Idle
    BY <1>2 DEF Socket, Idle
  <1>4. PICK idle : idle = [crp_state |-> 4, out |-> none, in |-> none, dials |-> 0, out_ctr |-> 0,
                            in_ctr |-> 0, rc_cnt |-> 0, rc_in |-> FALSE, rc_out |-> FALSE,
                            bad_mac |-> 0, blind |-> 0]
    OBVIOUS
  <1>5. PICK a : a = [idle EXCEPT !.crp_state = 3, !.out = used, !.dials = 1, !.out_ctr = told]
    OBVIOUS
  <1>6. PICK b : b = [idle EXCEPT !.in = used]
    OBVIOUS
  <1>7. a \in Knowledge /\ a.out_ctr = told /\ a.in_ctr = 0 /\ a.blind = 0
    <2>1. a = [crp_state |-> 3, out |-> used, in |-> none, dials |-> 1, out_ctr |-> told,
               in_ctr |-> 0, rc_cnt |-> 0, rc_in |-> FALSE, rc_out |-> FALSE,
               bad_mac |-> 0, blind |-> 0]
      BY <1>4, <1>5
    <2> QED
      BY <1>1, <1>3, <2>1, BoundsAssumption DEF Knowledge
  <1>8. b \in Knowledge /\ b.out_ctr = 0 /\ b.in_ctr = 0 /\ b.blind = 0
    <2>1. b = [crp_state |-> 4, out |-> none, in |-> used, dials |-> 0, out_ctr |-> 0,
               in_ctr |-> 0, rc_cnt |-> 0, rc_in |-> FALSE, rc_out |-> FALSE,
               bad_mac |-> 0, blind |-> 0]
      BY <1>4, <1>6
    <2> QED
      BY <1>3, <2>1, BoundsAssumption DEF Knowledge
  <1>9. end = [e \in End |-> IF e = Alice THEN a ELSE b]
    BY <1>1, <1>3, <1>4, <1>5, <1>6 DEF Init
  <1>10. end \in [End -> Knowledge] /\ end[Alice] = a /\ end[Bob] = b
    BY <1>2, <1>7, <1>8, <1>9
  <1>11. wire = [c \in Conn |-> [e \in End |->
                   IF c = First /\ e = Bob /\ told = 1 THEN <<Packet("-W", 0)>> ELSE <<>>]]
    BY <1>1 DEF Init
  <1>12. PICK m \in Message : m = Packet("-W", 0) /\ UpTo(m, 1)
    BY PacketMade
  <1>13. <<m>> \in Seq(Message) /\ Shows(<<m>>, 1)
    BY <1>12 DEF Shows
  <1>14. <<>> \in Seq(Message) /\ \A n : Shows(<<>>, n)
    BY DEF Shows
  <1>15. \A c \in Conn : /\ wire[c][Alice] = <<>>
                         /\ wire[c][Bob] \in Seq(Message) /\ Shows(wire[c][Bob], told)
    <2> TAKE c \in Conn
    <2>1. wire[c][Alice] = <<>>
      BY <1>2, <1>11
    <2>2. wire[c][Bob] = <<>> \/ (wire[c][Bob] = <<m>> /\ told = 1)
      BY <1>2, <1>11, <1>12
    <2> QED
      BY <1>13, <1>14, <2>1, <2>2
  <1>16. wire \in Wires
    <2>1. \A c \in Conn, e \in End : wire[c][e] \in Seq(Message)
      BY <1>14, <1>15 DEF End
    <2> QED
      BY <1>11, <2>1 DEF Wires
  <1>17. TypeOK
    <2>1. backlog \in [End -> Seq(Conn)]
      BY DEF Init
    <2>2. upsets \in Seq({"command", "break"}) /\ Len(upsets) <= MaxUpset
      BY BoundsAssumption DEF Init
    <2> QED
      BY <1>10, <1>16, <2>1, <2>2 DEF TypeOK, Wires
  <1>18. ASSUME NEW e \in End PROVE Sound(Here(e), e, end[Peer(e)])
    <2>1. Here(e).me = end[e] /\ Here(e).wire = wire
      BY DEF Here
    <2>2. (e = Alice /\ Peer(e) = Bob) \/ (e = Bob /\ Peer(e) = Alice)
      BY PeerIs DEF End
    <2> QED
      BY <1>7, <1>8, <1>10, <1>14, <1>15, <2>1, <2>2 DEF Sound
  <1> QED
    BY <1>17, <1>18 DEF CountersInv

\* A step keeps the invariant.
LEMMA NextCounters ==
    ASSUME CountersInv, [Next]_vars
    PROVE  CountersInv'
  <1>1. ASSUME NEW e \in End, User(e) PROVE CountersInv'
    BY <1>1, VoiceKeeps, LeaveKeeps, DblKeeps DEF User
  <1>2. ASSUME NEW e \in End, Program(e) PROVE CountersInv'
    BY <1>2, RestoreKeeps, MeasureKeeps, FromKeeps, AcceptKeeps, LeaveKeeps, ConnectedKeeps, NotConnectedKeeps
    DEF Program
  <1>3. ASSUME NEW c \in Conn, Break(c) PROVE CountersInv'
    BY <1>3, BreakKeeps
  <1>4. CASE UNCHANGED vars
    BY <1>4 DEF vars, CountersInv, TypeOK, Called, InCall, Sound, Here
  <1> QED
    BY <1>1, <1>2, <1>3, <1>4 DEF Next

\* Whatever SYNs and packets pass each other on two connections, replaced or broken,
\* no end of a call shows or is shown a counter that has not been reached (go_data, go_syn).
THEOREM AlwaysCounters == Spec => []CountersInv
  <1>1. Init => CountersInv
    BY InitCounters
  <1>2. CountersInv /\ [Next]_vars => CountersInv'
    BY NextCounters
  <1> QED
    BY <1>1, <1>2, PTL DEF Spec

\* The variables of the two ends, of the wires and of the backlog keep their types.
THEOREM TypeCorrect == Spec => []TypeOK
  <1>1. CountersInv => TypeOK
    BY DEF CountersInv
  <1> QED
    BY <1>1, AlwaysCounters, PTL

\* No end waits for a packet that has not been sent but for what it has moved in_ctr blindly
\* since it last knew its partner's counter: go_data and go_syn, over two connections,
\* never move it too far (go_data, go_syn, do_read).
THEOREM NeverAheadHolds == Spec => []NeverAhead
  <1>1. CountersInv => NeverAhead
    BY DEF CountersInv, NeverAhead, Sound, Here
  <1> QED
    BY <1>1, AlwaysCounters, PTL

-----------------------------------------------------------------------------
(* The connections: what a handler does to those its end holds.            *)

\* Both ends are brought the end of c.
Dead(w, c) == \A g \in End : Shut(w[c][g])

\* The wires w and v of c agree on what the invariant tells apart.
Alike(w, v, c) ==
    \A g \in End : /\ Shut(v[c][g]) <=> Shut(w[c][g])
                   /\ Inv \in Range(v[c][g]) <=> Inv \in Range(w[c][g])

\* From s to r an end may only close connections it holds, or leave the call.
Less(s, r) ==
    /\ r.me.dials = s.me.dials
    /\ r.me.crp_state > 2 => s.me.crp_state > 2
    /\ \/ r.me.out = s.me.out
       \/ r.me.out.conn = None /\ \A c \in Conn : s.me.out.conn = c => Dead(r.wire, c)
    /\ \/ r.me.in = s.me.in
       \/ r.me.in = Idle /\ \A c \in Conn : s.me.in.conn = c => Dead(r.wire, c)
    /\ \A c \in Conn :
          \/ Alike(s.wire, r.wire, c)
          \/ c \in {s.me.out.conn, s.me.in.conn} /\ Dead(r.wire, c)

\* And if it stays, it still has a socket.
Goes(s, r) ==
    Less(s, r) /\ (r.me.crp_state > 2 /\ (HasIn(s) \/ HasOut(s)) => HasIn(r) \/ HasOut(r))

\* A message added.
LEMMA AppendShows ==
    ASSUME NEW q \in Seq(Message), NEW m \in Message
    PROVE  /\ Shut(Append(q, m)) <=> m = Eof
           /\ Inv \in Range(Append(q, m)) <=> Inv \in Range(q) \/ m = Inv
  <1>1. /\ Append(q, m) # <<>> /\ Last(Append(q, m)) = m
        /\ Len(Append(q, m)) = Len(q) + 1 /\ Append(q, m)[Len(q) + 1] = m
        /\ \A i \in 1 .. Len(q) : Append(q, m)[i] = q[i]
        /\ Len(q) \in Nat
        /\ DOMAIN q = 1 .. Len(q) /\ DOMAIN Append(q, m) = 1 .. Len(q) + 1
    BY DEF Last
  <1>2. Shut(Append(q, m)) <=> m = Eof
    BY <1>1 DEF Shut
  <1>3. PICK x : x = Append(q, m)
    OBVIOUS
  <1>4. ASSUME Inv \in Range(x) PROVE Inv \in Range(q) \/ m = Inv
    <2>1. PICK i \in 1 .. Len(q) + 1 : x[i] = Inv
      BY <1>1, <1>3, <1>4 DEF Range
    <2> QED
      BY <1>1, <1>3, <2>1 DEF Range
  <1>5. ASSUME Inv \in Range(q) \/ m = Inv PROVE Inv \in Range(x)
    <2>1. PICK i \in 1 .. Len(q) + 1 : x[i] = Inv
      BY <1>1, <1>3, <1>5 DEF Range
    <2> QED
      BY <1>1, <1>3, <2>1 DEF Range
  <1> QED
    BY <1>2, <1>3, <1>4, <1>5

\* The first message taken.
LEMMA TailShows ==
    ASSUME NEW q \in Seq(Message), q # <<>>
    PROVE  /\ Head(q) # Eof => (Shut(Tail(q)) <=> Shut(q))
           /\ Head(q) # Inv => (Inv \in Range(Tail(q)) <=> Inv \in Range(q))
           /\ Head(q) = Inv => Inv \in Range(q)
  <1>1. /\ Len(q) \in Nat \ {0} /\ Len(Tail(q)) = Len(q) - 1
        /\ DOMAIN q = 1 .. Len(q) /\ DOMAIN Tail(q) = 1 .. Len(q) - 1
        /\ \A i \in 1 .. Len(q) - 1 : Tail(q)[i] = q[i + 1]
        /\ Head(q) = q[1]
    OBVIOUS
  <1>2. PICK x : x = Tail(q)
    OBVIOUS
  <1>3. Head(q) # Eof => (Shut(x) <=> Shut(q))
    <2>1. CASE Len(q) = 1
      <3>1. x = <<>> /\ Last(q) = Head(q)
        BY <1>1, <1>2, <2>1 DEF Last
      <3> QED
        BY <3>1 DEF Shut
    <2>2. CASE Len(q) # 1
      <3>0. Len(x) = Len(q) - 1 /\ Len(q) - 1 \in 1 .. Len(q) - 1
        BY <1>1, <1>2, <2>2
      <3>1. Len(x) = Len(q) - 1 /\ x # <<>> /\ Len(q) - 1 \in 1 .. Len(q) - 1
        <4>1. Len(<<>>) = 0 /\ Len(x) # 0
          BY <1>1, <3>0
        <4> QED
          BY <3>0, <4>1
      <3>2. x[Len(q) - 1] = q[(Len(q) - 1) + 1] /\ (Len(q) - 1) + 1 = Len(q)
        BY <1>1, <1>2, <3>1
      <3>3. x # <<>> /\ Last(x) = q[Len(q)] /\ Last(q) = q[Len(q)]
        BY <3>1, <3>2 DEF Last
      <3> QED
        BY <3>3 DEF Shut
    <2> QED
      BY <2>1, <2>2
  <1>4. ASSUME Inv \in Range(x) PROVE Inv \in Range(q)
    <2>1. PICK i \in 1 .. Len(q) - 1 : x[i] = Inv
      BY <1>1, <1>2, <1>4 DEF Range
    <2>2. i + 1 \in DOMAIN q /\ q[i + 1] = Inv
      BY <1>1, <1>2, <2>1
    <2> QED
      BY <2>2 DEF Range
  <1>5. ASSUME Inv \in Range(q), Head(q) # Inv PROVE Inv \in Range(x)
    <2>1. PICK i \in 1 .. Len(q) : q[i] = Inv
      BY <1>1, <1>5 DEF Range
    <2>2. i - 1 \in DOMAIN x /\ x[i - 1] = Inv
      BY <1>1, <1>2, <1>5, <2>1
    <2> QED
      BY <2>2 DEF Range
  <1>6. Head(q) = Inv => Inv \in Range(q)
    BY <1>1 DEF Range
  <1> QED
    BY <1>2, <1>3, <1>4, <1>5, <1>6

\* send() of another message changes nothing that matters.
LEMMA PutAlike ==
    ASSUME NEW w \in Wires, NEW c, NEW f \in End, NEW m \in Message, m # Eof, m # Inv
    PROVE  \A d \in Conn : Alike(w, Put(w, c, f, m), d)
  <1>1. CASE Shut(w[c][f]) \/ c \notin Conn
    <2>1. Put(w, c, f, m) = w
      BY <1>1 DEF Put, Wires
    <2> QED
      BY <2>1 DEF Alike
  <1>2. CASE ~ Shut(w[c][f]) /\ c \in Conn
    <2>1. PICK p \in Seq(Message) : p = w[c][f]
      BY <1>2 DEF Wires
    <2>2. Append(p, m) \in Seq(Message)
      OBVIOUS
    <2>3. PICK q \in Seq(Message) : q = Append(p, m)
      BY <2>2
    <2>4. PICK x : x = [w EXCEPT ![c][f] = q]
      OBVIOUS
    <2>5. Put(w, c, f, m) = x
      BY <1>2, <2>1, <2>3, <2>4 DEF Put
    <2>6. Replaced(w, x, c, f, q)
      BY <2>4, WireReplaced
    <2>7. ~ Shut(q) /\ ~ Shut(p) /\ (Inv \in Range(q) <=> Inv \in Range(p))
      BY <1>2, <2>1, <2>3, AppendShows
    <2> SUFFICES ASSUME NEW d \in Conn, NEW g \in End
                 PROVE  /\ Shut(x[d][g]) <=> Shut(w[d][g])
                        /\ Inv \in Range(x[d][g]) <=> Inv \in Range(w[d][g])
      BY <2>5 DEF Alike
    <2>8. x[d][g] = IF d = c /\ g = f THEN q ELSE w[d][g]
      BY <2>6 DEF Replaced
    <2> QED
      BY <2>1, <2>7, <2>8
  <1> QED
    BY <1>1, <1>2

\* Nor does the end of a connection to any other.
LEMMA PutOther ==
    ASSUME NEW w \in Wires, NEW c \in Conn, NEW f \in End, NEW m \in Message
    PROVE  /\ Put(w, c, f, m) \in Wires
           /\ \A d \in Conn, g \in End : d # c \/ g # f => Put(w, c, f, m)[d][g] = w[d][g]
           /\ ~ Shut(w[c][f]) => Put(w, c, f, m)[c][f] = Append(w[c][f], m)
           /\ Shut(w[c][f]) => Put(w, c, f, m) = w
  <1>1. CASE Shut(w[c][f])
    BY <1>1 DEF Put
  <1>2. CASE ~ Shut(w[c][f])
    <2>1. PICK p \in Seq(Message) : p = w[c][f]
      BY <1>2 DEF Wires
    <2>2. Append(p, m) \in Seq(Message)
      OBVIOUS
    <2>3. PICK q \in Seq(Message) : q = Append(p, m)
      BY <2>2
    <2>4. PICK x : x = [w EXCEPT ![c][f] = q]
      OBVIOUS
    <2>5. Put(w, c, f, m) = x
      BY <1>2, <2>1, <2>3, <2>4 DEF Put
    <2>6. Replaced(w, x, c, f, q)
      BY <2>4, WireReplaced
    <2> QED
      BY <1>2, <2>1, <2>3, <2>5, <2>6 DEF Replaced
  <1> QED
    BY <1>1, <1>2

\* close() brings both ends the end of the connection, and of no other.
LEMMA CloseDead ==
    ASSUME NEW w \in Wires, NEW c \in Conn, NEW e \in End
    PROVE  /\ CloseBy(w, c, e) \in Wires /\ Dead(CloseBy(w, c, e), c)
           /\ \A d \in Conn : d # c => Alike(w, CloseBy(w, c, e), d)
  <1>1. Peer(e) \in End /\ Peer(e) # e /\ End = {e, Peer(e)} /\ Eof \in Message
    BY PeerIs, NothingShown
  <1>2. PICK q \in Seq(Message) : q = <<Eof>>
    BY ShowsEof
  <1>3. PICK y : y = Put(w, c, Peer(e), Eof)
    OBVIOUS
  <1>4. /\ y \in Wires
        /\ \A d \in Conn, g \in End : d # c \/ g # Peer(e) => y[d][g] = w[d][g]
        /\ ~ Shut(w[c][Peer(e)]) => y[c][Peer(e)] = Append(w[c][Peer(e)], Eof)
        /\ Shut(w[c][Peer(e)]) => y = w
    BY <1>1, <1>3, PutOther
  <1>5. PICK x : x = [y EXCEPT ![c][e] = q]
    OBVIOUS
  <1>6. CloseBy(w, c, e) = x
    BY <1>2, <1>3, <1>5 DEF CloseBy
  <1>7. Replaced(y, x, c, e, q)
    BY <1>4, <1>5, WireReplaced
  <1>8. Shut(q)
    BY <1>2 DEF Shut, Last
  <1>9. Shut(y[c][Peer(e)])
    <2>1. PICK p \in Seq(Message) : p = w[c][Peer(e)]
      BY <1>1 DEF Wires
    <2>2. Shut(Append(p, Eof))
      BY <1>1, AppendShows
    <2> QED
      BY <1>4, <2>1, <2>2
  <1>10. x[c][e] = q /\ x[c][Peer(e)] = y[c][Peer(e)]
    BY <1>1, <1>7 DEF Replaced
  <1>11. Dead(x, c)
    BY <1>1, <1>8, <1>9, <1>10 DEF Dead
  <1>12. ASSUME NEW d \in Conn, d # c PROVE Alike(w, x, d)
    <2>1. \A g \in End : x[d][g] = w[d][g]
      BY <1>4, <1>7, <1>12 DEF Replaced
    <2> QED
      BY <2>1 DEF Alike
  <1>13. x \in Wires
    BY <1>7 DEF Replaced
  <1> QED
    BY <1>6, <1>11, <1>12, <1>13

-----------------------------------------------------------------------------
(* What the handlers do to the connections.                                *)

\* A connection is not none.
LEMMA SomeConn == \A c \in Conn : c # None
  BY DEF Conn, None

\* One thing after the other.
LEMMA LessTwice ==
    ASSUME NEW s, NEW r, NEW t, Less(s, r), Less(r, t)
    PROVE  Less(s, t)
  <1>1. \A c \in Conn : Dead(r.wire, c) => Dead(t.wire, c)
    <2> TAKE c \in Conn
    <2>1. CASE Dead(t.wire, c)
      BY <2>1
    <2>2. CASE Alike(r.wire, t.wire, c)
      BY <2>2 DEF Alike, Dead
    <2> QED
      BY <2>1, <2>2 DEF Less
  <1>2. ASSUME NEW c \in Conn
        PROVE  \/ Alike(s.wire, t.wire, c)
               \/ c \in {s.me.out.conn, s.me.in.conn} /\ Dead(t.wire, c)
    <2>1. CASE Alike(s.wire, r.wire, c) /\ Alike(r.wire, t.wire, c)
      BY <2>1 DEF Alike
    <2>2. CASE c \in {s.me.out.conn, s.me.in.conn} /\ Dead(r.wire, c)
      BY <1>1, <2>2
    <2>3. CASE c \in {r.me.out.conn, r.me.in.conn} /\ Dead(t.wire, c)
      <3>1. c # None
        BY SomeConn
      <3>2. r.me.in.conn = c => s.me.in.conn = c
        BY <3>1 DEF Less, Idle
      <3>3. r.me.out.conn = c => s.me.out.conn = c
        BY <3>1 DEF Less
      <3> QED
        BY <2>3, <3>2, <3>3
    <2> QED
      BY <2>1, <2>2, <2>3 DEF Less
  <1>3. \/ t.me.out = s.me.out
        \/ t.me.out.conn = None /\ \A c \in Conn : s.me.out.conn = c => Dead(t.wire, c)
    BY <1>1 DEF Less
  <1>4. \/ t.me.in = s.me.in
        \/ t.me.in = Idle /\ \A c \in Conn : s.me.in.conn = c => Dead(t.wire, c)
    BY <1>1 DEF Less
  <1>5. t.me.dials = s.me.dials /\ (t.me.crp_state > 2 => s.me.crp_state > 2)
    BY DEF Less
  <1> QED
    BY <1>2, <1>3, <1>4, <1>5 DEF Less

\* And with a socket left.
LEMMA GoesTwice ==
    ASSUME NEW s, NEW r, NEW t, Goes(s, r), Goes(r, t)
    PROVE  Goes(s, t)
  <1>1. Less(s, t)
    BY LessTwice DEF Goes
  <1>2. t.me.crp_state > 2 => r.me.crp_state > 2
    BY DEF Goes, Less
  <1> QED
    BY <1>1, <1>2 DEF Goes

\* Nothing is done to the sockets, and what is sent changes nothing that matters.
LEMMA GoesSame ==
    ASSUME NEW s, NEW r,
           r.me.out = s.me.out, r.me.in = s.me.in, r.me.dials = s.me.dials,
           r.me.crp_state > 2 => s.me.crp_state > 2,
           \A c \in Conn : Alike(s.wire, r.wire, c)
    PROVE  Goes(s, r)
  BY DEF Goes, Less, HasIn, HasOut

\* A wire is like itself.
LEMMA AlikeSelf == \A w, c : Alike(w, w, c)
  BY DEF Alike

\* send() of a message that is no invite.
LEMMA SendGoes ==
    ASSUME NEW s, NEW e \in End, Safe(s, e, {}), NEW c, NEW m \in Message, m # Eof, m # Inv
    PROVE  /\ Goes(s, Send(s, e, c, m)) /\ Safe(Send(s, e, c, m), e, {})
           /\ Send(s, e, c, m).me = s.me
  <1>1. s \in Situation /\ s.wire \in Wires /\ Peer(e) \in End /\ {} \in SUBSET Knowledge
    BY PeerIs, SafeHas
  <1>2. PICK w : w = Put(s.wire, c, Peer(e), m)
    OBVIOUS
  <1>3. \A d \in Conn : Alike(s.wire, w, d)
    BY <1>1, <1>2, PutAlike
  <1>4. PICK r : r = Send(s, e, c, m)
    OBVIOUS
  <1>5. Safe(r, e, {}) /\ r.me = s.me
    BY <1>1, <1>4, SendSafe
  <1>6. r.wire = w
    BY <1>1, <1>2, <1>4 DEF Send, Situation
  <1> QED
    BY <1>3, <1>4, <1>5, <1>6, GoesSame

\* do_send() over both sockets.
LEMMA DoSendGoes ==
    ASSUME NEW s, NEW e \in End, Safe(s, e, {}), NEW m \in Message, m # Eof, m # Inv
    PROVE  Goes(s, DoSend(s, e, m)) /\ Safe(DoSend(s, e, m), e, {}) /\ DoSend(s, e, m).me = s.me
  <1>1. PICK o : o = IF s.me.out.flag = "INUSE" THEN Send(s, e, s.me.out.conn, m) ELSE s
    OBVIOUS
  <1>2. Goes(s, s)
    BY AlikeSelf, GoesSame
  <1>3. Goes(s, o) /\ Safe(o, e, {}) /\ o.me = s.me
    BY <1>1, <1>2, SendGoes
  <1>4. PICK r : r = Send(o, e, s.me.in.conn, m)
    OBVIOUS
  <1>5. Goes(o, r) /\ Safe(r, e, {}) /\ r.me = o.me
    BY <1>3, <1>4, SendGoes
  <1>6. Goes(s, r)
    BY <1>3, <1>5, GoesTwice
  <1>7. DoSend(s, e, m) = IF s.me.in.flag = "INUSE" THEN r ELSE o
    BY <1>1, <1>4 DEF DoSend
  <1> QED
    BY <1>3, <1>5, <1>6, <1>7

\* The messages that are neither invite nor end.
LEMMA OtherMessages ==
    /\ \A n, t : Packet(t, n) # Eof /\ (t \in {"data", "-W"} => Packet(t, n) # Inv)
    /\ \A n, a : Syn(n, a) # Eof /\ Syn(n, a) # Inv
    /\ \A m \in {BusyInv, Req, Junk, Zero} : m # Eof /\ m # Inv
  BY DEF Packet, Syn, Inv, BusyInv, Req, Junk, Zero, Eof

\* do_data() and do_send().
LEMMA SayGoes ==
    ASSUME NEW s, NEW e \in End, Safe(s, e, {}), NEW t \in {"data", "-W"}
    PROVE  Goes(s, Say(s, e, t)) /\ Safe(Say(s, e, t), e, {})
  <1>1. s \in Situation /\ s.me \in Knowledge /\ {} \in SUBSET Knowledge
    BY SafeHas
  <1>2. PICK r : r = [s EXCEPT !.me.out_ctr = @ + 1]
    OBVIOUS
  <1>3. /\ r.wire = s.wire /\ r.me.out = s.me.out /\ r.me.in = s.me.in
        /\ r.me.dials = s.me.dials /\ r.me.crp_state = s.me.crp_state
    BY <1>1, <1>2 DEF Situation, Knowledge
  <1>4. Goes(s, r)
    BY <1>3, AlikeSelf, GoesSame
  <1>5. Safe(r, e, {})
    <2>1. PICK l : l = [s.me EXCEPT !.out_ctr = @ + 1]
      OBVIOUS
    <2>2. /\ l \in Knowledge /\ l.crp_state = s.me.crp_state /\ s.me.out_ctr \in Nat
          /\ l.out_ctr = s.me.out_ctr + 1 /\ l.in_ctr = s.me.in_ctr /\ l.blind = s.me.blind
      BY <1>1, <2>1 DEF Knowledge
    <2>3. Later(s.me, l, {})
      BY <2>2 DEF Later
    <2>4. r = [s EXCEPT !.me = l]
      BY <1>1, <1>2, <2>1 DEF Situation
    <2> QED
      BY <1>1, <2>3, <2>4, MeSafe
  <1>6. PICK m \in Message : m = Packet(t, s.me.out_ctr)
    BY <1>1, PacketMade DEF Knowledge
  <1>7. m # Eof /\ m # Inv
    BY <1>6, OtherMessages
  <1>8. Say(s, e, t) = DoSend(r, e, m)
    BY <1>2, <1>6 DEF Say
  <1>9. Goes(r, DoSend(r, e, m)) /\ Safe(DoSend(r, e, m), e, {})
    BY <1>5, <1>7, DoSendGoes
  <1> QED
    BY <1>4, <1>8, <1>9, GoesTwice

\* do_syn().
LEMMA SendSynGoes ==
    ASSUME NEW s, NEW e \in End, Safe(s, e, {}), NEW c, NEW ask \in BOOLEAN
    PROVE  /\ Goes(s, SendSyn(s, e, c, ask)) /\ Safe(SendSyn(s, e, c, ask), e, {})
           /\ SendSyn(s, e, c, ask).me = s.me
  <1>1. s.me.out_ctr \in Nat
    BY SafeHas DEF Knowledge
  <1>2. PICK m \in Message : m = Syn(s.me.out_ctr, ask)
    BY <1>1, SynMade
  <1>3. m # Eof /\ m # Inv
    BY <1>2, OtherMessages
  <1> QED
    BY <1>2, <1>3, SendGoes DEF SendSyn

\* The outgoing connection is closed.
LEMMA CloseOutGoes ==
    ASSUME NEW s, NEW e \in End, Safe(s, e, {})
    PROVE  /\ Less(s, CloseOut(s, e)) /\ Safe(CloseOut(s, e), e, {})
           /\ CloseOut(s, e).me = [s.me EXCEPT !.out = Idle]
           /\ HasIn(s) => Goes(s, CloseOut(s, e))
  <1>1. s \in Situation /\ s.me \in Knowledge /\ s.wire \in Wires /\ {} \in SUBSET Knowledge
    BY SafeHas
  <1>2. PICK r : r = CloseOut(s, e)
    OBVIOUS
  <1>3. Safe(r, e, {}) /\ r.me = [s.me EXCEPT !.out = Idle]
    BY <1>1, <1>2, CloseOutSafe
  <1>4. /\ r.me.out = Idle /\ r.me.in = s.me.in /\ r.me.dials = s.me.dials
        /\ r.me.crp_state = s.me.crp_state
    BY <1>1, <1>3 DEF Knowledge
  <1>5. r.wire = IF s.me.out.conn = None THEN s.wire ELSE CloseBy(s.wire, s.me.out.conn, e)
    BY <1>2 DEF CloseOut
  <1>6. CASE s.me.out.conn = None
    <2>1. \A c \in Conn : s.me.out.conn # c
      BY <1>6, SomeConn
    <2> QED
      BY <1>2, <1>3, <1>4, <1>5, <1>6, <2>1, AlikeSelf DEF Less, Goes, Idle, HasIn
  <1>7. CASE s.me.out.conn # None
    <2>1. PICK c \in Conn : c = s.me.out.conn
      BY <1>1, <1>7 DEF Knowledge, Socket
    <2>2. Dead(r.wire, c) /\ \A d \in Conn : d # c => Alike(s.wire, r.wire, d)
      BY <1>1, <1>5, <1>7, <2>1, CloseDead
    <2> QED
      BY <1>2, <1>3, <1>4, <2>1, <2>2 DEF Less, Goes, Idle, HasIn
  <1> QED
    BY <1>6, <1>7

\* The incoming connection is closed.
LEMMA CloseInGoes ==
    ASSUME NEW s, NEW e \in End, Safe(s, e, {})
    PROVE  /\ Less(s, CloseIn(s, e)) /\ Safe(CloseIn(s, e), e, {})
           /\ CloseIn(s, e).me = [s.me EXCEPT !.in = Idle]
           /\ HasOut(s) => Goes(s, CloseIn(s, e))
  <1>1. s \in Situation /\ s.me \in Knowledge /\ s.wire \in Wires /\ {} \in SUBSET Knowledge
    BY SafeHas
  <1>2. PICK r : r = CloseIn(s, e)
    OBVIOUS
  <1>3. Safe(r, e, {}) /\ r.me = [s.me EXCEPT !.in = Idle]
    BY <1>1, <1>2, CloseInSafe
  <1>4. /\ r.me.in = Idle /\ r.me.out = s.me.out /\ r.me.dials = s.me.dials
        /\ r.me.crp_state = s.me.crp_state
    BY <1>1, <1>3 DEF Knowledge
  <1>5. r.wire = IF s.me.in.conn = None THEN s.wire ELSE CloseBy(s.wire, s.me.in.conn, e)
    BY <1>2 DEF CloseIn
  <1>6. CASE s.me.in.conn = None
    <2>1. \A c \in Conn : s.me.in.conn # c
      BY <1>6, SomeConn
    <2> QED
      BY <1>2, <1>3, <1>4, <1>5, <1>6, <2>1, AlikeSelf DEF Less, Goes, HasOut
  <1>7. CASE s.me.in.conn # None
    <2>1. PICK c \in Conn : c = s.me.in.conn
      BY <1>1, <1>7 DEF Knowledge, Socket
    <2>2. Dead(r.wire, c) /\ \A d \in Conn : d # c => Alike(s.wire, r.wire, d)
      BY <1>1, <1>5, <1>7, <2>1, CloseDead
    <2> QED
      BY <1>2, <1>3, <1>4, <2>1, <2>2 DEF Less, Goes, HasOut
  <1> QED
    BY <1>6, <1>7

\* disconnect() closes both.
LEMMA DisconnectGoes ==
    ASSUME NEW s, NEW e \in End, Safe(s, e, {})
    PROVE  /\ Goes(s, Disconnect(s, e)) /\ Safe(Disconnect(s, e), e, {})
           /\ Disconnect(s, e).me.out = Idle /\ Disconnect(s, e).me.in = Idle
           /\ \A c \in Conn : c \in {s.me.out.conn, s.me.in.conn} => Dead(Disconnect(s, e).wire, c)
  <1>0. {} \in SUBSET Knowledge /\ FinCtr \in Nat /\ TRUE \in BOOLEAN /\ s.me \in Knowledge
    BY SafeHas DEF FinCtr
  <1>1. PICK m \in Message : m = Farewell(s) /\ m # Eof /\ m # Inv
    BY <1>0, SynMade, NothingShown, OtherMessages DEF Farewell
  <1>2. PICK f : f = DoSend(s, e, m)
    OBVIOUS
  <1>3. PICK i : i = CloseIn(f, e)
    OBVIOUS
  <1>4. PICK o : o = CloseOut(i, e)
    OBVIOUS
  <1>5. Goes(s, f) /\ Safe(f, e, {}) /\ f.me = s.me
    BY <1>1, <1>2, DoSendGoes
  <1>6. Less(f, i) /\ Safe(i, e, {}) /\ i.me = [f.me EXCEPT !.in = Idle]
    BY <1>3, <1>5, CloseInGoes
  <1>7. Less(i, o) /\ Safe(o, e, {}) /\ o.me = [i.me EXCEPT !.out = Idle]
    BY <1>4, <1>6, CloseOutGoes
  <1>8. Less(s, o)
    BY <1>5, <1>6, <1>7, LessTwice DEF Goes
  <1>9. o.me.out = Idle /\ o.me.in = Idle /\ o \in Situation /\ o.me \in Knowledge
    BY <1>0, <1>5, <1>6, <1>7, SafeHas DEF Knowledge
  <1>10. PICK r : r = Disconnect(s, e)
    OBVIOUS
  <1>11. Safe(r, e, {}) /\ r.me.crp_state = 0
    BY <1>0, <1>10, DisconnectSafe
  <1>12. r = [o EXCEPT !.me = [@ EXCEPT !.crp_state = 0, !.out_ctr = 0, !.in_ctr = 0,
                                        !.rc_cnt = 0, !.rc_in = FALSE, !.rc_out = FALSE]]
    BY <1>1, <1>2, <1>3, <1>4, <1>10 DEF Disconnect
  <1>13. r.wire = o.wire /\ r.me.out = o.me.out /\ r.me.in = o.me.in /\ r.me.dials = o.me.dials
    BY <1>9, <1>12 DEF Situation, Knowledge
  <1>14. Goes(o, r)
    BY <1>11, <1>13, AlikeSelf, GoesSame
  <1>15. Less(s, r)
    BY <1>8, <1>14, LessTwice DEF Goes
  <1>16. Goes(s, r)
    BY <1>11, <1>15 DEF Goes
  <1>17. ASSUME NEW c \in Conn, c \in {s.me.out.conn, s.me.in.conn} PROVE Dead(r.wire, c)
    <2>1. CASE c = s.me.out.conn /\ s.me.out # Idle
      BY <1>9, <1>13, <1>15, <2>1 DEF Less
    <2>2. CASE c = s.me.in.conn /\ s.me.in # Idle
      BY <1>9, <1>13, <1>15, <2>2 DEF Less
    <2>3. c # None
      BY SomeConn
    <2> QED
      BY <1>17, <2>1, <2>2, <2>3 DEF Idle
  <1> QED
    BY <1>9, <1>10, <1>11, <1>13, <1>16, <1>17

\* sock_close() closes the connection, and keeps the other one if there is one.
LEMMA SockCloseGoes ==
    ASSUME NEW s, NEW e \in End, Safe(s, e, {})
    PROVE  /\ Goes(s, SockCloseOut(s, e)) /\ Goes(s, SockCloseIn(s, e))
           /\ Safe(SockCloseOut(s, e), e, {}) /\ Safe(SockCloseIn(s, e), e, {})
           /\ \A c \in Conn : /\ c = s.me.out.conn => Dead(SockCloseOut(s, e).wire, c)
                              /\ c = s.me.in.conn => Dead(SockCloseIn(s, e).wire, c)
  <1>1. \A c \in Conn : c # None
    BY SomeConn
  <1>2. s.me \in Knowledge
    BY SafeHas
  <1>3. /\ Safe(CloseOut(s, e), e, {}) /\ Safe(CloseIn(s, e), e, {}) /\ Safe(Disconnect(s, e), e, {})
        /\ HasIn(s) => Goes(s, CloseOut(s, e))
        /\ HasOut(s) => Goes(s, CloseIn(s, e))
        /\ Goes(s, Disconnect(s, e))
    BY CloseOutGoes, CloseInGoes, DisconnectGoes
  <1>4. ASSUME NEW c \in Conn, c = s.me.out.conn PROVE Dead(CloseOut(s, e).wire, c)
    <2>1. CloseOut(s, e).me.out = Idle /\ Less(s, CloseOut(s, e))
      BY <1>2, CloseOutGoes DEF Knowledge
    <2> QED
      BY <1>1, <1>4, <2>1 DEF Less, Idle
  <1>5. ASSUME NEW c \in Conn, c = s.me.in.conn PROVE Dead(CloseIn(s, e).wire, c)
    <2>1. CloseIn(s, e).me.in = Idle /\ Less(s, CloseIn(s, e))
      BY <1>2, CloseInGoes DEF Knowledge
    <2> QED
      BY <1>1, <1>5, <2>1 DEF Less, Idle
  <1>6. \A c \in Conn : c \in {s.me.out.conn, s.me.in.conn} => Dead(Disconnect(s, e).wire, c)
    BY DisconnectGoes
  <1> QED
    BY <1>3, <1>4, <1>5, <1>6 DEF SockCloseOut, SockCloseIn

\* What e knows changes, its sockets do not.
LEMMA GoesMe ==
    ASSUME NEW s, NEW e \in End, Safe(s, e, {}), NEW l \in Knowledge,
           l.out = s.me.out, l.in = s.me.in, l.dials = s.me.dials, l.crp_state = s.me.crp_state,
           l.out_ctr = s.me.out_ctr
    PROVE  Goes(s, [s EXCEPT !.me = l]) /\ Safe([s EXCEPT !.me = l], e, {})
  <1>1. s \in Situation /\ s.me \in Knowledge /\ {} \in SUBSET Knowledge
    BY SafeHas
  <1>2. Later(s.me, l, {})
    BY <1>1 DEF Later, Knowledge
  <1>3. PICK r : r = [s EXCEPT !.me = l]
    OBVIOUS
  <1>4. Safe(r, e, {}) /\ r.me = l /\ r.wire = s.wire
    BY <1>1, <1>2, <1>3, MeSafe
  <1>5. Goes(s, r)
    BY <1>4, AlikeSelf, GoesSame
  <1> QED
    BY <1>3, <1>4, <1>5

\* connecttor() replaces the outgoing connection by one that Tor looks for.
LEMMA ConnectTorGoes ==
    ASSUME NEW s, NEW e \in End, Safe(s, e, {})
    PROVE  Goes(s, ConnectTor(s, e)) /\ Safe(ConnectTor(s, e), e, {})
  <1>1. PICK z : z = IF s.me.out.conn # None THEN Send(s, e, s.me.out.conn, Zero) ELSE s
    OBVIOUS
  <1>2. PICK m \in Message : m = Zero /\ m # Eof /\ m # Inv
    BY NothingShown, OtherMessages
  <1>3. Goes(s, s)
    BY AlikeSelf, GoesSame
  <1>4. Goes(s, z) /\ Safe(z, e, {})
    BY <1>1, <1>2, <1>3, SendGoes
  <1>5. PICK o : o = CloseOut(z, e)
    OBVIOUS
  <1>6. Less(z, o) /\ Safe(o, e, {}) /\ o.me = [z.me EXCEPT !.out = Idle]
    BY <1>4, <1>5, CloseOutGoes
  <1>7. o \in Situation /\ o.me \in Knowledge /\ z.me \in Knowledge /\ {} \in SUBSET Knowledge
    BY <1>4, <1>6, SafeHas
  <1>8. o.me.out = Idle
    BY <1>6, <1>7 DEF Knowledge
  <1>9. PICK r : r = ConnectTor(s, e)
    OBVIOUS
  <1>10. r = [o EXCEPT !.me.out = [flag |-> "WAIT", conn |-> None]]
    BY <1>1, <1>5, <1>9 DEF ConnectTor
  <1>11. /\ r.wire = o.wire /\ r.me.out = [flag |-> "WAIT", conn |-> None]
         /\ r.me.in = o.me.in /\ r.me.dials = o.me.dials /\ r.me.crp_state = o.me.crp_state
    BY <1>7, <1>10 DEF Situation, Knowledge
  <1>12. Less(o, r)
    BY <1>8, <1>11, AlikeSelf, SomeConn DEF Less, Idle
  <1>13. Less(s, r)
    BY <1>4, <1>6, <1>12, LessTwice DEF Goes
  <1>14. Goes(s, r)
    BY <1>11, <1>13 DEF Goes, HasOut
  <1>15. Safe(r, e, {})
    BY <1>7, <1>9, ConnectTorSafe
  <1> QED
    BY <1>9, <1>14, <1>15

\* The end of reconecttor() and of init_dbl().
LEMMA DialAgainGoes ==
    ASSUME NEW s, NEW e \in End, Safe(s, e, {})
    PROVE  Goes(s, DialAgain(s, e)) /\ Safe(DialAgain(s, e), e, {})
  <1>1. PICK d : d = ConnectTor(s, e)
    OBVIOUS
  <1>2. Goes(s, d) /\ Safe(d, e, {})
    BY <1>1, ConnectTorGoes
  <1>3. PICK r : r = [d EXCEPT !.me = [@ EXCEPT !.rc_cnt = 0, !.rc_in = FALSE, !.rc_out = FALSE]]
    OBVIOUS
  <1>13. PICK x \in Int : x = 0
    OBVIOUS
  <1>14. PICK p \in BOOLEAN : p = FALSE
    OBVIOUS
  <1>4. PICK l : l = [d.me EXCEPT !.rc_cnt = x, !.rc_in = p, !.rc_out = p]
    OBVIOUS
  <1>5. d \in Situation /\ d.me \in Knowledge
    BY <1>2, SafeHas
  <1>6. /\ l \in Knowledge /\ l.out = d.me.out /\ l.in = d.me.in /\ l.dials = d.me.dials
        /\ l.crp_state = d.me.crp_state /\ l.out_ctr = d.me.out_ctr
    BY <1>4, <1>5 DEF Knowledge
  <1>7. r = [d EXCEPT !.me = l]
    BY <1>3, <1>4, <1>5, <1>13, <1>14 DEF Situation
  <1>8. Goes(d, r) /\ Safe(r, e, {})
    BY <1>2, <1>6, <1>7, GoesMe
  <1>9. PICK a \in BOOLEAN : a = TRUE
    OBVIOUS
  <1>10. PICK t : t = SendSyn(r, e, r.me.in.conn, a)
    OBVIOUS
  <1>11. Goes(r, t) /\ Safe(t, e, {})
    BY <1>8, <1>10, SendSynGoes
  <1>12. DialAgain(s, e) = t
    BY <1>1, <1>3, <1>9, <1>10 DEF DialAgain
  <1> QED
    BY <1>2, <1>8, <1>11, <1>12, GoesTwice

\* reconecttor().
LEMMA ReconecttorGoes ==
    ASSUME NEW s, NEW e \in End, Safe(s, e, {})
    PROVE  Goes(s, Reconecttor(s, e)) /\ Safe(Reconecttor(s, e), e, {})
  <1>1. Goes(s, s)
    BY AlikeSelf, GoesSame
  <1> QED
    BY <1>1, DialAgainGoes DEF Reconecttor

\* The request to dial again.
LEMMA AskToDialGoes ==
    ASSUME NEW s, NEW e \in End, Safe(s, e, {}), NEW cnt \in Int
    PROVE  Goes(s, AskToDial(s, e, cnt))
  <1>1. s \in Situation /\ s.me \in Knowledge
    BY SafeHas
  <1>2. PICK r : r = [s EXCEPT !.me = [@ EXCEPT !.rc_in = FALSE, !.rc_out = FALSE]]
    OBVIOUS
  <1>3. PICK l : l = [s.me EXCEPT !.rc_in = FALSE, !.rc_out = FALSE]
    OBVIOUS
  <1>4. /\ l \in Knowledge /\ l.out = s.me.out /\ l.in = s.me.in /\ l.dials = s.me.dials
        /\ l.crp_state = s.me.crp_state /\ l.out_ctr = s.me.out_ctr
    BY <1>1, <1>3 DEF Knowledge
  <1>5. r = [s EXCEPT !.me = l]
    BY <1>1, <1>2, <1>3 DEF Situation
  <1>6. Goes(s, r) /\ Safe(r, e, {})
    BY <1>4, <1>5, GoesMe
  <1>7. PICK y : y = Say(r, e, "-W")
    OBVIOUS
  <1>8. Goes(r, y) /\ Safe(y, e, {})
    BY <1>6, <1>7, SayGoes
  <1>9. y \in Situation /\ y.me \in Knowledge
    BY <1>8, SafeHas
  <1>10. PICK k : k = [y.me EXCEPT !.rc_cnt = cnt]
    OBVIOUS
  <1>11. /\ k \in Knowledge /\ k.out = y.me.out /\ k.in = y.me.in /\ k.dials = y.me.dials
         /\ k.crp_state = y.me.crp_state /\ k.out_ctr = y.me.out_ctr
    BY <1>9, <1>10 DEF Knowledge
  <1>12. PICK w : w = [y EXCEPT !.me.rc_cnt = cnt]
    OBVIOUS
  <1>13. w = [y EXCEPT !.me = k]
    BY <1>9, <1>10, <1>12 DEF Situation
  <1>14. Goes(y, w) /\ Safe(w, e, {})
    BY <1>8, <1>11, <1>13, GoesMe
  <1>15. PICK a \in BOOLEAN : a = TRUE
    OBVIOUS
  <1>16. PICK t : t = SendSyn(w, e, w.me.out.conn, a)
    OBVIOUS
  <1>17. Goes(w, t)
    BY <1>14, <1>16, SendSynGoes
  <1>18. Goes(s, w) /\ Goes(s, t)
    BY <1>6, <1>8, <1>14, <1>17, GoesTwice
  <1>19. AskToDial(s, e, cnt) = IF w.me.out.flag = "INUSE" THEN t ELSE w
    BY <1>2, <1>7, <1>12, <1>15, <1>16 DEF AskToDial
  <1> QED
    BY <1>18, <1>19

\* go_syn().
LEMMA GoSynGoes ==
    ASSUME NEW s, NEW e \in End, Safe(s, e, {}), NEW c, NEW m \in Message, IsSyn(m)
    PROVE  Goes(s, GoSyn(s, e, c, m))
  <1>1. s \in Situation /\ s.me \in Knowledge /\ m.n \in Nat
    BY SafeHas, MessageHas
  <1>2. PICK l : l = [s.me EXCEPT !.in_ctr = m.n, !.blind = 0]
    OBVIOUS
  <1>3. /\ l \in Knowledge /\ l.out = s.me.out /\ l.in = s.me.in /\ l.dials = s.me.dials
        /\ l.crp_state = s.me.crp_state /\ l.out_ctr = s.me.out_ctr
    BY <1>1, <1>2, RaisedIs
  <1>4. PICK g : g = IF m.n > s.me.in_ctr
                     THEN [s EXCEPT !.me = [@ EXCEPT !.in_ctr = m.n, !.blind = 0]] ELSE s
    OBVIOUS
  <1>5. [s EXCEPT !.me = [@ EXCEPT !.in_ctr = m.n, !.blind = 0]] = [s EXCEPT !.me = l]
    BY <1>2
  <1>6. Goes(s, s)
    BY AlikeSelf, GoesSame
  <1>7. Goes(s, g) /\ Safe(g, e, {})
    BY <1>3, <1>4, <1>5, <1>6, GoesMe
  <1>8. PICK a \in BOOLEAN : a = FALSE
    OBVIOUS
  <1>9. Goes(g, Disconnect(g, e)) /\ Goes(g, SendSyn(g, e, c, a))
    BY <1>7, DisconnectGoes, SendSynGoes
  <1>10. Goes(s, Disconnect(g, e)) /\ Goes(s, SendSyn(g, e, c, a))
    BY <1>7, <1>9, GoesTwice
  <1>11. GoSyn(s, e, c, m) = IF g.me.in_ctr = FinCtr THEN Disconnect(g, e)
                             ELSE IF m.ask THEN SendSyn(g, e, c, a) ELSE g
    BY <1>4, <1>8 DEF GoSyn
  <1> QED
    BY <1>7, <1>10, <1>11

\* A packet with a wrong MAC.
LEMMA RejectedGoes ==
    ASSUME NEW s, NEW e \in End, Safe(s, e, {})
    PROVE  Goes(s, Rejected(s)) /\ Safe(Rejected(s), e, {})
  <1>1. s \in Situation
    BY SafeHas
  <1>2. PICK l \in Knowledge :
           /\ Rejected(s) = [s EXCEPT !.me = l]
           /\ l.crp_state = s.me.crp_state /\ l.out = s.me.out /\ l.in = s.me.in
           /\ l.dials = s.me.dials /\ l.out_ctr = s.me.out_ctr
    BY <1>1, RejectedIs
  <1> QED
    BY <1>2, GoesMe

\* go_data().
LEMMA GoDataGoes ==
    ASSUME NEW s, NEW e \in End, Safe(s, e, {}), NEW m \in Message, NEW side \in {1, -1}
    PROVE  Goes(s, GoData(s, e, m, side))
  <1>1. s \in Situation /\ s.me \in Knowledge
    BY SafeHas
  <1>2. PICK l : l = Accepted(s.me, e, side)
    OBVIOUS
  <1>3. /\ l \in Knowledge /\ l.out = s.me.out /\ l.in = s.me.in /\ l.dials = s.me.dials
        /\ l.crp_state = s.me.crp_state /\ l.out_ctr = s.me.out_ctr
    BY <1>1, <1>2, AcceptedIs
  <1>4. PICK g : g = [s EXCEPT !.me = l]
    OBVIOUS
  <1>5. Goes(s, g) /\ Safe(g, e, {})
    BY <1>3, <1>4, GoesMe
  <1>6. Goes(s, Reconecttor(g, e))
    BY <1>5, ReconecttorGoes, GoesTwice
  <1>7. Goes(s, Rejected(s))
    BY RejectedGoes
  <1>8. GoData(s, e, m, side) = IF m.n # s.me.in_ctr THEN Rejected(s)
                                ELSE IF m.t = "-W" THEN Reconecttor(g, e) ELSE g
    BY <1>2, <1>4 DEF GoData
  <1> QED
    BY <1>5, <1>6, <1>7, <1>8

\* A packet is noted.
LEMMA NotedGoes ==
    ASSUME NEW s, NEW e \in End, Safe(s, e, {})
    PROVE  LET o == [s EXCEPT !.me.rc_out = TRUE]
               i == [s EXCEPT !.me.rc_in = TRUE]
           IN  /\ Goes(s, o) /\ Safe(o, e, {}) /\ Goes(s, i) /\ Safe(i, e, {})
               /\ o.me.out = s.me.out /\ i.me.in = s.me.in /\ i.me.out = s.me.out /\ o.me.in = s.me.in
               /\ o.wire = s.wire /\ i.wire = s.wire /\ o.me.crp_state = s.me.crp_state
               /\ i.me.crp_state = s.me.crp_state /\ o.me.dials = s.me.dials /\ i.me.dials = s.me.dials
  <1>1. s \in Situation /\ s.me \in Knowledge /\ {} \in SUBSET Knowledge
    BY SafeHas
  <1>2. PICK o, i : o = [s EXCEPT !.me.rc_out = TRUE] /\ i = [s EXCEPT !.me.rc_in = TRUE]
    OBVIOUS
  <1>3. Safe(o, e, {}) /\ Safe(i, e, {})
    BY <1>1, <1>2, NotedSafe
  <1>4. /\ o.wire = s.wire /\ o.me.out = s.me.out /\ o.me.in = s.me.in
        /\ o.me.dials = s.me.dials /\ o.me.crp_state = s.me.crp_state
    BY <1>1, <1>2 DEF Situation, Knowledge
  <1>5. /\ i.wire = s.wire /\ i.me.out = s.me.out /\ i.me.in = s.me.in
        /\ i.me.dials = s.me.dials /\ i.me.crp_state = s.me.crp_state
    BY <1>1, <1>2 DEF Situation, Knowledge
  <1>6. Goes(s, o) /\ Goes(s, i)
    BY <1>4, <1>5, AlikeSelf, GoesSame
  <1> QED
    BY <1>2, <1>3, <1>4, <1>5, <1>6

\* readtcpout and readtcpin of anything but an invite.
LEMMA ReadGoes ==
    ASSUME NEW s, NEW e \in End, Safe(s, e, {}), NEW m \in Message, m # Inv
    PROVE  Goes(s, ReadOut(s, e, m)) /\ Goes(s, ReadIn(s, e, m))
  <1>1. m.t # "inv"
    BY DEF Message, Inv, BusyInv, Req, Junk, Zero, Eof
  <1>2. Goes(s, SockCloseOut(s, e)) /\ Goes(s, SockCloseIn(s, e))
    BY SockCloseGoes
  <1>3. PICK o, i : o = [s EXCEPT !.me.rc_out = TRUE] /\ i = [s EXCEPT !.me.rc_in = TRUE]
    OBVIOUS
  <1>4. Goes(s, o) /\ Safe(o, e, {}) /\ Goes(s, i) /\ Safe(i, e, {})
    BY <1>3, NotedGoes
  <1>5. m.t = "syn" => /\ Goes(s, GoSyn(s, e, s.me.out.conn, m))
                       /\ Goes(s, GoSyn(s, e, s.me.in.conn, m))
    BY GoSynGoes DEF IsSyn
  <1>6. Goes(o, GoData(o, e, m, 1)) /\ Goes(i, GoData(i, e, m, -1))
    BY <1>4, GoDataGoes
  <1>7. Goes(s, GoData(o, e, m, 1)) /\ Goes(s, GoData(i, e, m, -1))
    BY <1>4, <1>6, GoesTwice
  <1>8. Goes(s, Rejected(o)) /\ Goes(s, Rejected(i))
    BY <1>4, RejectedGoes, GoesTwice
  <1>9. Goes(s, ReadOut(s, e, m))
    BY <1>1, <1>2, <1>3, <1>4, <1>5, <1>7, <1>8 DEF ReadOut
  <1>10. Goes(s, ReadIn(s, e, m))
    BY <1>1, <1>2, <1>3, <1>4, <1>5, <1>7, <1>8 DEF ReadIn
  <1> QED
    BY <1>9, <1>10

-----------------------------------------------------------------------------
(* The connections: steps.                                                 *)

\* What holds of the connections of both ends in the situation s of e, whose partner
\* knows h, with the backlogs q.
Known(s, e, h, q) ==
    /\ Dialled(e, s.me, h, q[Peer(e)], s.wire)
    /\ Dialled(Peer(e), h, s.me, q[e], s.wire)

\* Who closes a connection he has dialled, or both, leaves the invariant to both.
LEMMA OuterLess ==
    ASSUME NEW e \in End, NEW s, NEW r, NEW h, NEW q, Less(s, r),
           Dialled(e, s.me, h, q, s.wire), s.me.in.conn # None => s.me.in.conn[1] = Peer(e)
    PROVE  Dialled(e, r.me, h, q, r.wire)
  <1>1. Peer(e) \in End /\ Peer(e) # e
    BY PeerIs
  <1>2. ASSUME NEW c \in Conn, NEW g \in End, Shut(s.wire[c][g]) PROVE Shut(r.wire[c][g])
    <2>1. CASE Dead(r.wire, c)
      BY <2>1 DEF Dead
    <2>2. CASE Alike(s.wire, r.wire, c)
      BY <1>2, <2>2 DEF Alike
    <2> QED
      BY <2>1, <2>2 DEF Less
  <1>3. \A c \in Conn : r.me.out.conn = c => r.me.out = s.me.out
    BY SomeConn DEF Less
  <1>4. Numbered(e, r.me, h, q, r.wire)
    <2>1. Numbered(e, s.me, h, q, s.wire)
      BY DEF Dialled
    <2>2. r.me.dials = s.me.dials /\ (r.me.out = s.me.out \/ r.me.out.conn = None)
      BY DEF Less
    <2>3. r.me.out.conn \in {None, <<e, r.me.dials>>}
      BY <2>1, <2>2 DEF Numbered
    <2>4. ASSUME NEW c \in Conn, c[1] = e, c[2] > r.me.dials, NEW g \in End
          PROVE  ~ Shut(r.wire[c][g]) /\ Inv \notin Range(r.wire[c][g])
      <3>1. ~ Shut(s.wire[c][g]) /\ Inv \notin Range(s.wire[c][g])
        BY <2>1, <2>2, <2>4 DEF Numbered
      <3>2. c # s.me.in.conn
        BY <1>1, <2>4, SomeConn
      <3>3. c # s.me.out.conn
        <4>1. PICK n \in 1 .. MaxDial : c = <<e, n>>
          BY <2>4 DEF Conn
        <4>2. n > s.me.dials
          BY <2>2, <2>4, <4>1
        <4>3. c # None /\ s.me.out.conn \in {None, <<e, s.me.dials>>}
          BY <2>1, SomeConn DEF Numbered
        <4>4. ASSUME c = <<e, s.me.dials>> PROVE FALSE
          <5>1. n = s.me.dials
            BY <4>1, <4>4
          <5> QED
            BY <4>2, <5>1
        <4> QED
          BY <4>3, <4>4
      <3>4. Alike(s.wire, r.wire, c)
        BY <3>2, <3>3 DEF Less
      <3> QED
        BY <3>1, <3>4 DEF Alike
    <2> QED
      BY <2>1, <2>2, <2>3, <2>4 DEF Numbered
  <1>5. Linked(e, r.me, h, q, r.wire)
    <2>1. Linked(e, s.me, h, q, s.wire)
      BY DEF Dialled
    <2> SUFFICES ASSUME NEW c \in Conn
                 PROVE  /\ r.me.out.conn = c => h.in.conn = c \/ c \in Range(q) \/ Shut(r.wire[c][e])
                        /\ h.in.conn = c \/ c \in Range(q) => r.me.out.conn = c \/ Shut(r.wire[c][Peer(e)])
      BY DEF Linked
    <2>2. r.me.out.conn = c => h.in.conn = c \/ c \in Range(q) \/ Shut(r.wire[c][e])
      BY <1>2, <1>3, <2>1 DEF Linked
    <2>3. ASSUME h.in.conn = c \/ c \in Range(q) PROVE r.me.out.conn = c \/ Shut(r.wire[c][Peer(e)])
      <3>1. s.me.out.conn = c \/ Shut(s.wire[c][Peer(e)])
        BY <2>1, <2>3 DEF Linked
      <3>2. s.me.out.conn = c => r.me.out.conn = c \/ Shut(r.wire[c][Peer(e)])
        BY <1>1 DEF Less, Dead
      <3> QED
        BY <1>1, <1>2, <3>1, <3>2
    <2> QED
      BY <2>2, <2>3
  <1>6. ASSUME r.me.crp_state > 2, h.crp_state > 2 PROVE Invited(e, r.me, h, q, r.wire)
    <2>1. Invited(e, s.me, h, q, s.wire)
      BY <1>6 DEF Dialled, Less
    <2> SUFFICES ASSUME NEW c \in Conn,
                        r.me.out.conn = c, ~ Shut(r.wire[c][e]), ~ Shut(r.wire[c][Peer(e)])
                 PROVE  /\ h.in = [flag |-> "READY", conn |-> c] \/ c \in Range(q) =>
                             /\ r.me.out.flag = "READY"
                             /\ Inv \in Range(r.wire[c][Peer(e)]) /\ Inv \notin Range(r.wire[c][e])
                        /\ h.in = [flag |-> "INUSE", conn |-> c] /\ r.me.out.flag = "READY" =>
                             Inv \in Range(r.wire[c][e])
      BY DEF Invited
    <2>2. Alike(s.wire, r.wire, c)
      BY DEF Less, Dead
    <2>3. s.me.out = r.me.out
      BY <1>3
    <2> QED
      BY <1>1, <2>1, <2>2, <2>3 DEF Alike, Invited
  <1> QED
    BY <1>4, <1>5, <1>6 DEF Dialled

\* So does who closes one that its partner has dialled.
LEMMA InnerLess ==
    ASSUME NEW e \in End, NEW s, NEW r, NEW h \in Knowledge, NEW q, Less(s, r),
           Dialled(Peer(e), h, s.me, q, s.wire), s.me.out.conn # None => s.me.out.conn[1] = e,
           \A i \in DOMAIN q : q[i] \in Conn, s.me.in.conn # None => s.me.in.conn \in Conn
    PROVE  Dialled(Peer(e), h, r.me, q, r.wire)
  <1> DEFINE x == Peer(e)
  <1>1. x \in End /\ x # e /\ Peer(x) = e
    BY PeerIs
  <1> HIDE DEF x
  <1>0. Dialled(x, h, s.me, q, s.wire)
    BY DEF x
  <1>2. ASSUME NEW c \in Conn, NEW g \in End, Shut(s.wire[c][g]) PROVE Shut(r.wire[c][g])
    <2>1. CASE Dead(r.wire, c)
      BY <2>1 DEF Dead
    <2>2. CASE Alike(s.wire, r.wire, c)
      BY <1>2, <2>2 DEF Alike
    <2> QED
      BY <2>1, <2>2 DEF Less
  <1>3. \A c \in Conn : r.me.in.conn = c => r.me.in = s.me.in
    BY SomeConn DEF Less, Idle
  <1>4. Numbered(x, h, r.me, q, r.wire)
    <2>1. Numbered(x, h, s.me, q, s.wire)
      BY <1>0 DEF Dialled
    <2>2. r.me.in = s.me.in \/ r.me.in = Idle
      BY DEF Less
    <2>3. /\ r.me.in.flag # "WAIT"
          /\ r.me.in.conn # None => r.me.in.conn[1] = x /\ r.me.in.conn[2] <= h.dials
      BY <2>1, <2>2 DEF Numbered, Idle
    <2>4. ASSUME NEW c \in Conn, c[1] = x, c[2] > h.dials, NEW g \in End
          PROVE  ~ Shut(r.wire[c][g]) /\ Inv \notin Range(r.wire[c][g])
      <3>1. ~ Shut(s.wire[c][g]) /\ Inv \notin Range(s.wire[c][g])
        BY <2>1, <2>4 DEF Numbered
      <3>2. c # s.me.out.conn
        BY <1>1, <2>4, SomeConn
      <3>3. Alike(s.wire, r.wire, c) \/ (Dead(r.wire, c) /\ c = s.me.in.conn)
        BY <3>2 DEF Less
      <3>4. ASSUME c = s.me.in.conn PROVE FALSE
        <4>1. PICK n \in 1 .. MaxDial : c = <<x, n>>
          BY <2>4 DEF Conn
        <4>2. n \in Int /\ h.dials \in Int
          BY DEF Knowledge
        <4>3. n > h.dials
          BY <2>4, <4>1
        <4>4. s.me.in.conn[2] <= h.dials
          BY <2>1, <2>4, <3>4, SomeConn DEF Numbered
        <4>5. n <= h.dials
          BY <3>4, <4>1, <4>4
        <4> QED
          BY <4>2, <4>3, <4>5
      <3> QED
        BY <3>1, <3>3, <3>4 DEF Alike
    <2>5. \A i \in DOMAIN q : q[i][1] = x /\ q[i][2] <= h.dials /\ q[i] # r.me.in.conn
      BY <2>1, <2>2, SomeConn DEF Numbered, Idle
    <2>6. h.out.conn \in {None, <<x, h.dials>>} /\ \A i, j \in DOMAIN q : i # j => q[i] # q[j]
      BY <2>1 DEF Numbered
    <2> QED
      BY <2>3, <2>4, <2>5, <2>6 DEF Numbered
  <1>5. Linked(x, h, r.me, q, r.wire)
    <2>1. Linked(x, h, s.me, q, s.wire)
      BY <1>0 DEF Dialled
    <2> SUFFICES ASSUME NEW c \in Conn
                 PROVE  /\ h.out.conn = c => r.me.in.conn = c \/ c \in Range(q) \/ Shut(r.wire[c][x])
                        /\ r.me.in.conn = c \/ c \in Range(q) => h.out.conn = c \/ Shut(r.wire[c][e])
      BY <1>1 DEF Linked
    <2>2. ASSUME h.out.conn = c PROVE r.me.in.conn = c \/ c \in Range(q) \/ Shut(r.wire[c][x])
      <3>1. s.me.in.conn = c \/ c \in Range(q) \/ Shut(s.wire[c][x])
        BY <2>1, <2>2 DEF Linked
      <3>2. s.me.in.conn = c => r.me.in.conn = c \/ Shut(r.wire[c][x])
        BY <1>1 DEF Less, Dead
      <3> QED
        BY <1>1, <1>2, <3>1, <3>2
    <2>3. r.me.in.conn = c \/ c \in Range(q) => h.out.conn = c \/ Shut(r.wire[c][e])
      BY <1>1, <1>2, <1>3, <2>1 DEF Linked
    <2> QED
      BY <2>2, <2>3
  <1>6. ASSUME h.crp_state > 2, r.me.crp_state > 2 PROVE Invited(x, h, r.me, q, r.wire)
    <2>1. Invited(x, h, s.me, q, s.wire)
      BY <1>0, <1>6 DEF Dialled, Less
    <2> SUFFICES ASSUME NEW c \in Conn,
                        h.out.conn = c, ~ Shut(r.wire[c][x]), ~ Shut(r.wire[c][e])
                 PROVE  /\ r.me.in = [flag |-> "READY", conn |-> c] \/ c \in Range(q) =>
                             /\ h.out.flag = "READY"
                             /\ Inv \in Range(r.wire[c][e]) /\ Inv \notin Range(r.wire[c][x])
                        /\ r.me.in = [flag |-> "INUSE", conn |-> c] /\ h.out.flag = "READY" =>
                             Inv \in Range(r.wire[c][x])
      BY <1>1 DEF Invited
    <2>2. Alike(s.wire, r.wire, c)
      BY DEF Less, Dead
    <2>3. r.me.in.conn = c => s.me.in = r.me.in
      BY <1>3
    <2>4. Inv \in Range(r.wire[c][e]) <=> Inv \in Range(s.wire[c][e])
      BY <2>2 DEF Alike
    <2>5. Inv \in Range(r.wire[c][x]) <=> Inv \in Range(s.wire[c][x])
      BY <1>1, <2>2 DEF Alike
    <2>6. ~ Shut(s.wire[c][x]) /\ ~ Shut(s.wire[c][e])
      BY <1>1, <2>2 DEF Alike
    <2> QED
      BY <1>1, <2>1, <2>3, <2>4, <2>5, <2>6 DEF Invited
  <1> QED
    BY <1>4, <1>5, <1>6 DEF Dialled, x

\* Both together.
LEMMA KnownLess ==
    ASSUME NEW e \in End, NEW s, NEW r, NEW h \in Knowledge, NEW q, Less(s, r), Known(s, e, h, q),
           Safe(s, e, {}), q \in [End -> Seq(Conn)]
    PROVE  Known(r, e, h, q)
  <1>1. s.me \in Knowledge /\ Peer(e) \in End
    BY SafeHas, PeerIs
  <1>2. s.me.in.conn # None => s.me.in.conn[1] = Peer(e)
    BY DEF Known, Dialled, Numbered
  <1>3. s.me.out.conn # None => s.me.out.conn[1] = e
    BY DEF Known, Dialled, Numbered
  <1>4. s.me.in.conn # None => s.me.in.conn \in Conn
    BY <1>1 DEF Knowledge, Socket
  <1>5. \A i \in DOMAIN q[e] : q[e][i] \in Conn
    OBVIOUS
  <1> QED
    BY <1>2, <1>3, <1>4, <1>5, OuterLess, InnerLess DEF Known

-----------------------------------------------------------------------------
(* The connections: the steps that open one or use it.                     *)

\* What happens on the other connections does not matter.
LEMMA DialledSame ==
    ASSUME NEW x \in End, NEW k, NEW k2, NEW l, NEW l2, NEW q, NEW w, NEW v,
           Dialled(x, k, l, q, w),
           k2.out = k.out, k2.dials = k.dials, l2.in = l.in,
           k2.crp_state > 2 => k.crp_state > 2, l2.crp_state > 2 => l.crp_state > 2,
           \A c \in Conn : c[1] = x => Alike(w, v, c)
    PROVE  Dialled(x, k2, l2, q, v)
  <1>1. Peer(x) \in End
    BY PeerIs
  <1>2. Numbered(x, k, l, q, w) /\ Linked(x, k, l, q, w)
    BY DEF Dialled
  <1>3. Numbered(x, k2, l2, q, v)
    BY <1>2 DEF Numbered, Alike
  <1>4. ASSUME NEW c \in Conn, k.out.conn = c \/ l.in.conn = c \/ c \in Range(q)
        PROVE  c[1] = x /\ Alike(w, v, c)
    <2>1. c[1] = x
      <3>1. k.out.conn = c => c[1] = x
        BY <1>2, SomeConn DEF Numbered
      <3>2. l.in.conn = c => c[1] = x
        BY <1>2, SomeConn DEF Numbered
      <3>3. c \in Range(q) => c[1] = x
        BY <1>2 DEF Numbered, Range
      <3> QED
        BY <1>4, <3>1, <3>2, <3>3
    <2> QED
      BY <2>1
  <1>5. Linked(x, k2, l2, q, v)
    <2> SUFFICES ASSUME NEW c \in Conn
                 PROVE  /\ k2.out.conn = c => l2.in.conn = c \/ c \in Range(q) \/ Shut(v[c][x])
                        /\ l2.in.conn = c \/ c \in Range(q) => k2.out.conn = c \/ Shut(v[c][Peer(x)])
      BY DEF Linked
    <2>1. k.out.conn = c \/ l.in.conn = c \/ c \in Range(q) =>
             /\ Shut(v[c][x]) <=> Shut(w[c][x])
             /\ Shut(v[c][Peer(x)]) <=> Shut(w[c][Peer(x)])
      BY <1>1, <1>4 DEF Alike
    <2> QED
      BY <1>2, <2>1 DEF Linked
  <1>6. ASSUME k2.crp_state > 2, l2.crp_state > 2 PROVE Invited(x, k2, l2, q, v)
    <2>1. Invited(x, k, l, q, w)
      BY <1>6 DEF Dialled
    <2>2. \A c \in Conn : k.out.conn = c =>
             /\ Shut(v[c][x]) <=> Shut(w[c][x])
             /\ Shut(v[c][Peer(x)]) <=> Shut(w[c][Peer(x)])
             /\ Inv \in Range(v[c][x]) <=> Inv \in Range(w[c][x])
             /\ Inv \in Range(v[c][Peer(x)]) <=> Inv \in Range(w[c][Peer(x)])
      BY <1>1, <1>4 DEF Alike
    <2> QED
      BY <2>1, <2>2 DEF Invited
  <1> QED
    BY <1>3, <1>5, <1>6 DEF Dialled

\* A new connection carries the invite, or whoever has dialled it leaves the call.
LEMMA DialledNew ==
    ASSUME NEW x \in End, NEW k \in Knowledge, NEW k2 \in Knowledge, NEW l \in Knowledge,
           NEW q \in Seq(Conn), NEW w, NEW v, NEW c \in Conn,
           Dialled(x, k, l, q, w), c = <<x, k.dials + 1>>, k.out.conn = None,
           k2.out.conn = c, k2.dials = k.dials + 1,
           \A d \in Conn : d # c => Alike(w, v, d),
           \A g \in End : ~ Shut(v[c][g]), Inv \notin Range(v[c][x]),
           k2.crp_state > 2 =>
               k.crp_state > 2 /\ k2.out.flag = "READY" /\ Inv \in Range(v[c][Peer(x)])
    PROVE  Dialled(x, k2, l, Append(q, c), v)
  <1>1. Peer(x) \in End /\ k.dials \in Nat
    BY PeerIs DEF Knowledge
  <1>2. Numbered(x, k, l, q, w) /\ Linked(x, k, l, q, w)
    BY DEF Dialled
  <1>3. PICK p : p = Append(q, c)
    OBVIOUS
  <1>4. /\ DOMAIN q = 1 .. Len(q) /\ DOMAIN p = 1 .. Len(q) + 1 /\ Len(q) \in Nat
        /\ p[Len(q) + 1] = c /\ \A i \in 1 .. Len(q) : p[i] = q[i]
    BY <1>3
  <1>5. Range(p) = Range(q) \cup {c}
    <2>1. ASSUME NEW y \in Range(p) PROVE y \in Range(q) \cup {c}
      <3>1. PICK i \in 1 .. Len(q) + 1 : p[i] = y
        BY <1>4, <2>1 DEF Range
      <3>2. i = Len(q) + 1 => y = c
        BY <1>4, <3>1
      <3>3. i # Len(q) + 1 => i \in DOMAIN q /\ q[i] = y
        BY <1>4, <3>1
      <3> QED
        BY <3>2, <3>3 DEF Range
    <2>2. ASSUME NEW y \in Range(q) \cup {c} PROVE y \in Range(p)
      <3>1. PICK i \in 1 .. Len(q) + 1 : p[i] = y
        BY <1>4, <2>2 DEF Range
      <3> QED
        BY <1>4, <3>1 DEF Range
    <2> QED
      BY <2>1, <2>2
  <1>6. ASSUME NEW d \in Conn, d[2] <= k.dials PROVE d # c
    <2>1. ASSUME d = c PROVE FALSE
      <3>1. d[2] = k.dials + 1
        BY <2>1
      <3> QED
        BY <1>1, <1>6, <3>1
    <2> QED
      BY <2>1
  <1>7. ASSUME NEW i \in 1 .. Len(q) PROVE q[i] \in Conn /\ q[i][1] = x /\ q[i][2] \in Nat /\ q[i][2] <= k.dials /\ q[i] # c
    <2>1. q[i] \in Conn /\ q[i][1] = x /\ q[i][2] <= k.dials
      BY <1>2, <1>4 DEF Numbered
    <2>2. q[i] # c
      BY <1>6, <2>1
    <2>3. q[i][2] \in Nat
      BY <2>1, BoundsAssumption DEF Conn
    <2> QED
      BY <2>1, <2>2, <2>3
  <1>8. l.in.conn # None => l.in.conn \in Conn /\ l.in.conn[1] = x /\ l.in.conn[2] <= k.dials /\ l.in.conn # c
    <2>1. l.in.conn # None => l.in.conn \in Conn /\ l.in.conn[1] = x /\ l.in.conn[2] <= k.dials
      BY <1>2 DEF Numbered, Knowledge, Socket
    <2> QED
      BY <1>6, <2>1
  <1>9. l.in.conn # None => l.in.conn[2] \in Nat
    BY <1>8, BoundsAssumption DEF Conn
  <1>10. Numbered(x, k2, l, p, v)
    <2>1. k2.out.conn \in {None, <<x, k2.dials>>} /\ l.in.flag # "WAIT"
      BY <1>2 DEF Numbered
    <2>2. l.in.conn # None => l.in.conn[1] = x /\ l.in.conn[2] <= k2.dials
      BY <1>1, <1>8, <1>9
    <2>3. ASSUME NEW i \in DOMAIN p
          PROVE  p[i][1] = x /\ p[i][2] <= k2.dials /\ p[i] # l.in.conn
      <3>1. CASE i = Len(q) + 1
        BY <1>1, <1>4, <1>8, <3>1, SomeConn
      <3>2. CASE i \in 1 .. Len(q)
        <4>1. p[i] = q[i] /\ q[i] # l.in.conn
          BY <1>2, <1>4, <3>2 DEF Numbered
        <4> QED
          BY <1>1, <1>7, <3>2, <4>1
      <3> QED
        BY <1>4, <3>1, <3>2
    <2>4. ASSUME NEW i \in DOMAIN p, NEW j \in DOMAIN p, i # j PROVE p[i] # p[j]
      <3>1. CASE i = Len(q) + 1
        BY <1>4, <1>7, <2>4, <3>1
      <3>2. CASE j = Len(q) + 1
        BY <1>4, <1>7, <2>4, <3>2
      <3>3. CASE i \in 1 .. Len(q) /\ j \in 1 .. Len(q)
        BY <1>2, <1>4, <2>4, <3>3 DEF Numbered
      <3> QED
        BY <1>4, <3>1, <3>2, <3>3
    <2>5. ASSUME NEW d \in Conn, d[1] = x, d[2] > k2.dials, NEW g \in End
          PROVE  ~ Shut(v[d][g]) /\ Inv \notin Range(v[d][g])
      <3>1. PICK n \in 1 .. MaxDial : d = <<x, n>>
        BY <2>5 DEF Conn
      <3>2. n \in Int /\ n > k.dials + 1
        BY <2>5, <3>1
      <3>3. d[2] > k.dials
        BY <1>1, <3>1, <3>2
      <3>4. d # c
        <4>1. ASSUME d = c PROVE FALSE
          <5>1. n = k.dials + 1
            BY <3>1, <4>1
          <5> QED
            BY <1>1, <3>2, <5>1
        <4> QED
          BY <4>1
      <3>5. ~ Shut(w[d][g]) /\ Inv \notin Range(w[d][g])
        BY <1>2, <2>5, <3>3 DEF Numbered
      <3> QED
        BY <3>4, <3>5 DEF Alike
    <2> QED
      BY <2>1, <2>2, <2>3, <2>4, <2>5 DEF Numbered
  <1>11. Linked(x, k2, l, p, v)
    <2> SUFFICES ASSUME NEW d \in Conn
                 PROVE  /\ k2.out.conn = d => l.in.conn = d \/ d \in Range(p) \/ Shut(v[d][x])
                        /\ l.in.conn = d \/ d \in Range(p) => k2.out.conn = d \/ Shut(v[d][Peer(x)])
      BY DEF Linked
    <2>1. CASE d = c
      BY <1>5, <2>1
    <2>2. CASE d # c
      <3>1. Shut(v[d][Peer(x)]) <=> Shut(w[d][Peer(x)])
        BY <1>1, <2>2 DEF Alike
      <3>2. k.out.conn # d
        BY SomeConn
      <3> QED
        BY <1>2, <1>5, <2>2, <3>1, <3>2 DEF Linked
    <2> QED
      BY <2>1, <2>2
  <1>12. ASSUME k2.crp_state > 2 PROVE Invited(x, k2, l, p, v)
    BY <1>8, <1>12, SomeConn DEF Invited
  <1> QED
    BY <1>3, <1>10, <1>11, <1>12 DEF Dialled

\* The first connection of the backlog.
LEMMA FirstOf ==
    ASSUME NEW q \in Seq(Conn), q # <<>>
    PROVE  /\ Head(q) \in Conn /\ Range(q) = {Head(q)} \cup Range(Tail(q))
           /\ 1 \in DOMAIN q /\ Head(q) = q[1]
           /\ \A i \in DOMAIN Tail(q) : i + 1 \in DOMAIN q /\ i + 1 # 1 /\ Tail(q)[i] = q[i + 1] /\ i \in Int
  <1>1. PICK p : p = Tail(q)
    OBVIOUS
  <1>2. /\ Len(q) \in Nat /\ Len(q) >= 1 /\ DOMAIN q = 1 .. Len(q) /\ DOMAIN p = 1 .. Len(q) - 1
        /\ Head(q) = q[1] /\ \A i \in 1 .. Len(q) - 1 : p[i] = q[i + 1]
    BY <1>1
  <1>3. ASSUME NEW y \in Range(q) PROVE y \in {q[1]} \cup Range(p)
    <2>1. PICK i \in 1 .. Len(q) : q[i] = y
      BY <1>2, <1>3 DEF Range
    <2>2. i # 1 => i - 1 \in DOMAIN p /\ p[i - 1] = y
      BY <1>2, <2>1
    <2> QED
      BY <2>1, <2>2 DEF Range
  <1>4. ASSUME NEW y \in {q[1]} \cup Range(p) PROVE y \in Range(q)
    <2>1. CASE y = q[1]
      BY <1>2, <2>1 DEF Range
    <2>2. CASE y \in Range(p)
      <3>1. PICK i \in 1 .. Len(q) - 1 : p[i] = y
        BY <1>2, <2>2 DEF Range
      <3>2. i + 1 \in DOMAIN q /\ q[i + 1] = y
        BY <1>2, <3>1
      <3> QED
        BY <3>2 DEF Range
    <2> QED
      BY <1>4, <2>1, <2>2
  <1>5. Range(q) = {q[1]} \cup Range(p)
    BY <1>3, <1>4
  <1>6. Head(q) \in Conn
    OBVIOUS
  <1>7. \A i \in DOMAIN p : i + 1 \in DOMAIN q /\ i + 1 # 1 /\ p[i] = q[i + 1] /\ i \in Int
    BY <1>2
  <1>8. 1 \in DOMAIN q
    BY <1>2
  <1> QED
    BY <1>1, <1>2, <1>5, <1>6, <1>7, <1>8

\* What the partner takes from the backlog it holds.
LEMMA DialledTaken ==
    ASSUME NEW x \in End, NEW k, NEW l, NEW l2, NEW q \in Seq(Conn), NEW w, q # <<>>,
           Dialled(x, k, l, q, w), l.in.conn = None, l2.in.conn = Head(q),
           l2.in.flag = "READY" \/ (l2.in.flag = "INUSE" /\ ~(l2.crp_state > 2)),
           l2.crp_state > 2 => l.crp_state > 2, l2 \in Knowledge
    PROVE  Dialled(x, k, l2, Tail(q), w)
  <1>1. Numbered(x, k, l, q, w) /\ Linked(x, k, l, q, w)
    BY DEF Dialled
  <1>2. PICK p, c : p = Tail(q) /\ c = Head(q)
    OBVIOUS
  <1>3. /\ c \in Conn /\ Range(q) = {c} \cup Range(p) /\ 1 \in DOMAIN q /\ c = q[1]
        /\ \A i \in DOMAIN p : i + 1 \in DOMAIN q /\ i + 1 # 1 /\ p[i] = q[i + 1] /\ i \in Int
    BY <1>2, FirstOf
  <1>4. \A i, j \in DOMAIN p : i # j => i + 1 # j + 1
    BY <1>3
  <1>5. Numbered(x, k, l2, p, w)
    <2>1. l2.in.flag # "WAIT" /\ l2.in.conn = c /\ c[1] = x /\ c[2] <= k.dials
      BY <1>1, <1>2, <1>3 DEF Numbered
    <2>2. \A i \in DOMAIN p : p[i][1] = x /\ p[i][2] <= k.dials /\ p[i] # c
      BY <1>1, <1>3 DEF Numbered
    <2>3. \A i, j \in DOMAIN p : i # j => p[i] # p[j]
      BY <1>1, <1>3, <1>4 DEF Numbered
    <2>4. /\ k.out.conn \in {None, <<x, k.dials>>}
          /\ \A d \in Conn : d[1] = x /\ d[2] > k.dials =>
                \A g \in End : ~ Shut(w[d][g]) /\ Inv \notin Range(w[d][g])
      BY <1>1 DEF Numbered
    <2> QED
      BY <2>1, <2>2, <2>3, <2>4 DEF Numbered
  <1>6. \A d \in Conn : d # l.in.conn
    BY SomeConn
  <1>7. Linked(x, k, l2, p, w)
    BY <1>1, <1>2, <1>3, <1>6 DEF Linked
  <1>8. ASSUME k.crp_state > 2, l2.crp_state > 2 PROVE Invited(x, k, l2, p, w)
    <2>1. Invited(x, k, l, q, w) /\ l2.in.flag = "READY"
      BY <1>8 DEF Dialled
    <2>2. \A d : l2.in = [flag |-> "READY", conn |-> d] => d \in Range(q)
      BY <1>2, <1>3
    <2>3. \A d : l2.in # [flag |-> "INUSE", conn |-> d]
      BY <2>1
    <2>4. Range(p) \subseteq Range(q)
      BY <1>3
    <2> QED
      BY <2>1, <2>2, <2>3, <2>4 DEF Invited
  <1> QED
    BY <1>2, <1>5, <1>7, <1>8 DEF Dialled

\* What it closes instead brings both the end.
LEMMA DialledRefused ==
    ASSUME NEW x \in End, NEW k, NEW l, NEW q \in Seq(Conn), NEW w, NEW v, q # <<>>,
           Dialled(x, k, l, q, w), Dead(v, Head(q)), k \in Knowledge,
           \A d \in Conn : d # Head(q) => Alike(w, v, d)
    PROVE  Dialled(x, k, l, Tail(q), v)
  <1>0. Peer(x) \in End
    BY PeerIs
  <1>1. Numbered(x, k, l, q, w) /\ Linked(x, k, l, q, w)
    BY DEF Dialled
  <1>2. PICK p, c : p = Tail(q) /\ c = Head(q)
    OBVIOUS
  <1>3. /\ c \in Conn /\ Range(q) = {c} \cup Range(p) /\ 1 \in DOMAIN q /\ c = q[1]
        /\ \A i \in DOMAIN p : i + 1 \in DOMAIN q /\ i + 1 # 1 /\ p[i] = q[i + 1] /\ i \in Int
    BY <1>2, FirstOf
  <1>4. \A i, j \in DOMAIN p : i # j => i + 1 # j + 1
    BY <1>3
  <1>5. Numbered(x, k, l, p, v)
    <2>1. /\ l.in.flag # "WAIT" /\ k.out.conn \in {None, <<x, k.dials>>}
          /\ l.in.conn # None => l.in.conn[1] = x /\ l.in.conn[2] <= k.dials
      BY <1>1 DEF Numbered
    <2>2. \A i \in DOMAIN p : p[i][1] = x /\ p[i][2] <= k.dials /\ p[i] # l.in.conn
      BY <1>1, <1>3 DEF Numbered
    <2>3. \A i, j \in DOMAIN p : i # j => p[i] # p[j]
      BY <1>1, <1>3, <1>4 DEF Numbered
    <2>4. ASSUME NEW d \in Conn, d[1] = x, d[2] > k.dials, NEW g \in End
          PROVE  ~ Shut(v[d][g]) /\ Inv \notin Range(v[d][g])
      <3>1. ~ Shut(w[d][g]) /\ Inv \notin Range(w[d][g])
        BY <1>1, <2>4 DEF Numbered
      <3>2. d # c
        <4>1. c[2] <= k.dials /\ c[2] \in Int /\ k.dials \in Int
          BY <1>1, <1>3 DEF Numbered, Conn, Knowledge
        <4> QED
          BY <2>4, <4>1
      <3> QED
        BY <1>2, <3>1, <3>2 DEF Alike
    <2> QED
      BY <2>1, <2>2, <2>3, <2>4 DEF Numbered
  <1>6. Linked(x, k, l, p, v)
    <2> SUFFICES ASSUME NEW d \in Conn
                 PROVE  /\ k.out.conn = d => l.in.conn = d \/ d \in Range(p) \/ Shut(v[d][x])
                        /\ l.in.conn = d \/ d \in Range(p) => k.out.conn = d \/ Shut(v[d][Peer(x)])
      BY DEF Linked
    <2>1. CASE d = c
      BY <1>0, <1>2, <2>1 DEF Dead
    <2>2. CASE d # c
      <3>1. /\ Shut(v[d][x]) <=> Shut(w[d][x])
            /\ Shut(v[d][Peer(x)]) <=> Shut(w[d][Peer(x)])
        BY <1>0, <1>2, <2>2 DEF Alike
      <3> QED
        BY <1>1, <1>3, <2>2, <3>1 DEF Linked
    <2> QED
      BY <2>1, <2>2
  <1>7. ASSUME k.crp_state > 2, l.crp_state > 2 PROVE Invited(x, k, l, p, v)
    <2>1. Invited(x, k, l, q, w)
      BY <1>7 DEF Dialled
    <2>2. \A d \in Conn : ~ Shut(v[d][x]) =>
             /\ d # c
             /\ Shut(v[d][x]) <=> Shut(w[d][x])
             /\ Shut(v[d][Peer(x)]) <=> Shut(w[d][Peer(x)])
             /\ Inv \in Range(v[d][x]) <=> Inv \in Range(w[d][x])
             /\ Inv \in Range(v[d][Peer(x)]) <=> Inv \in Range(w[d][Peer(x)])
      BY <1>0, <1>2 DEF Alike, Dead
    <2>3. Range(p) \subseteq Range(q)
      BY <1>3
    <2> QED
      BY <2>1, <2>2, <2>3 DEF Invited
  <1> QED
    BY <1>2, <1>5, <1>6, <1>7 DEF Dialled

\* x has read the answer to its invite and uses the connection.
LEMMA DialledUsed ==
    ASSUME NEW x \in End, NEW k, NEW k2, NEW l, NEW q, NEW w, NEW v, NEW c \in Conn,
           Dialled(x, k, l, q, w), k.out.conn = c, k2.out = [flag |-> "INUSE", conn |-> c],
           k2.dials = k.dials, k2.crp_state = k.crp_state, Inv \in Range(w[c][x]),
           \A d \in Conn : d # c => Alike(w, v, d),
           \A g \in End : Shut(v[c][g]) <=> Shut(w[c][g]), k \in Knowledge
    PROVE  Dialled(x, k2, l, q, v)
  <1>0. Peer(x) \in End
    BY PeerIs
  <1>1. Numbered(x, k, l, q, w) /\ Linked(x, k, l, q, w) /\ k2.out.conn = c
    BY DEF Dialled
  <1>2. Numbered(x, k2, l, q, v)
    <2>1. ASSUME NEW d \in Conn, d[1] = x, d[2] > k.dials, NEW g \in End
          PROVE  ~ Shut(v[d][g]) /\ Inv \notin Range(v[d][g])
      <3>1. ~ Shut(w[d][g]) /\ Inv \notin Range(w[d][g])
        BY <1>1, <2>1 DEF Numbered
      <3>2. ASSUME d = c PROVE FALSE
        BY <1>1, <2>1, <3>2 DEF Numbered
      <3> QED
        BY <3>1, <3>2 DEF Alike
    <2> QED
      BY <1>1, <2>1 DEF Numbered
  <1>3. \A d \in Conn : /\ Shut(v[d][x]) <=> Shut(w[d][x])
                        /\ Shut(v[d][Peer(x)]) <=> Shut(w[d][Peer(x)])
    BY <1>0 DEF Alike
  <1>4. Linked(x, k2, l, q, v)
    BY <1>1, <1>3 DEF Linked
  <1>5. ASSUME k2.crp_state > 2, l.crp_state > 2 PROVE Invited(x, k2, l, q, v)
    <2>1. Invited(x, k, l, q, w)
      BY <1>5 DEF Dialled
    <2> QED
      BY <1>1, <1>3, <2>1 DEF Invited
  <1> QED
    BY <1>2, <1>4, <1>5 DEF Dialled

\* Its partner has read the invite, uses the connection and has answered.
LEMMA DialledAnswered ==
    ASSUME NEW x \in End, NEW k, NEW l, NEW l2, NEW q, NEW w, NEW v, NEW c \in Conn,
           Dialled(x, k, l, q, w), l.in.conn = c, l2.in = [flag |-> "INUSE", conn |-> c],
           l2.crp_state = l.crp_state, k \in Knowledge,
           \/ l.in.flag = "READY" /\ (~ Shut(w[c][x]) => Inv \in Range(v[c][x]))
           \/ l.in = l2.in /\ (Inv \in Range(v[c][x]) <=> Inv \in Range(w[c][x])),
           \A d \in Conn : d # c => Alike(w, v, d),
           \A g \in End : Shut(v[c][g]) <=> Shut(w[c][g])
    PROVE  Dialled(x, k, l2, q, v)
  <1>0. Peer(x) \in End
    BY PeerIs
  <1>1. Numbered(x, k, l, q, w) /\ Linked(x, k, l, q, w) /\ l2.in.conn = c /\ c # None
    BY SomeConn DEF Dialled
  <1>2. Numbered(x, k, l2, q, v)
    <2>1. ASSUME NEW d \in Conn, d[1] = x, d[2] > k.dials, NEW g \in End
          PROVE  ~ Shut(v[d][g]) /\ Inv \notin Range(v[d][g])
      <3>1. ~ Shut(w[d][g]) /\ Inv \notin Range(w[d][g])
        BY <1>1, <2>1 DEF Numbered
      <3>2. ASSUME d = c PROVE FALSE
        <4>1. d[2] <= k.dials /\ d[2] \in Int /\ k.dials \in Int
          BY <1>1, <3>2 DEF Numbered, Conn, Knowledge
        <4> QED
          BY <2>1, <4>1
      <3> QED
        BY <3>1, <3>2 DEF Alike
    <2> QED
      BY <1>1, <2>1 DEF Numbered
  <1>3. \A d \in Conn : /\ Shut(v[d][x]) <=> Shut(w[d][x])
                        /\ Shut(v[d][Peer(x)]) <=> Shut(w[d][Peer(x)])
    BY <1>0 DEF Alike
  <1>4. Linked(x, k, l2, q, v)
    BY <1>1, <1>3 DEF Linked
  <1>5. ASSUME k.crp_state > 2, l2.crp_state > 2 PROVE Invited(x, k, l2, q, v)
    <2>1. Invited(x, k, l, q, w)
      BY <1>5 DEF Dialled
    <2>2. c \notin Range(q)
      BY <1>1 DEF Numbered, Range
    <2> SUFFICES ASSUME NEW d \in Conn, k.out.conn = d, ~ Shut(v[d][x]), ~ Shut(v[d][Peer(x)])
                 PROVE  /\ l2.in = [flag |-> "READY", conn |-> d] \/ d \in Range(q) =>
                             /\ k.out.flag = "READY"
                             /\ Inv \in Range(v[d][Peer(x)]) /\ Inv \notin Range(v[d][x])
                        /\ l2.in = [flag |-> "INUSE", conn |-> d] /\ k.out.flag = "READY" =>
                             Inv \in Range(v[d][x])
      BY DEF Invited
    <2>3. CASE d = c
      <3>1. l2.in # [flag |-> "READY", conn |-> d] /\ d \notin Range(q)
        BY <2>2, <2>3
      <3>2. ASSUME k.out.flag = "READY" PROVE Inv \in Range(v[d][x])
        BY <1>3, <2>1, <2>3, <3>2 DEF Invited
      <3> QED
        BY <3>1, <3>2
    <2>4. CASE d # c
      <3>1. Alike(w, v, d) /\ l2.in # [flag |-> "READY", conn |-> d] /\ l2.in # [flag |-> "INUSE", conn |-> d]
        BY <2>4
      <3> QED
        BY <1>0, <2>1, <3>1 DEF Alike, Invited
    <2> QED
      BY <2>3, <2>4
  <1> QED
    BY <1>2, <1>4, <1>5 DEF Dialled

-----------------------------------------------------------------------------
(* The connections: the invariant.                                         *)

\* The invariant tells what is known in the situation of either end.
LEMMA HereKnown ==
    ASSUME DoublingInv, NEW e \in End
    PROVE  /\ Known(Here(e), e, end[Peer(e)], backlog) /\ Safe(Here(e), e, {})
           /\ Here(e).me = end[e] /\ Here(e).wire = wire /\ wire \in Wires
           /\ Here(e) = [me |-> end[e], wire |-> wire]
           /\ end[e] \in Knowledge /\ end[Peer(e)] \in Knowledge /\ Peer(e) \in End
           /\ backlog \in [End -> Seq(Conn)]
           /\ InCall(e) => HasIn(Here(e)) \/ HasOut(Here(e))
  <1>1. Peer(e) \in End /\ Peer(Peer(e)) = e
    BY PeerIs
  <1>2. CountersInv /\ ConnectionsInv
    BY DEF DoublingInv
  <1>3. Safe(Here(e), e, {}) /\ Here(e).me = end[e] /\ Here(e).wire = wire /\ wire \in Wires
    BY <1>2, HereSafe, SafeHas
  <1>4. Known(Here(e), e, end[Peer(e)], backlog)
    BY <1>1, <1>2, <1>3 DEF ConnectionsInv, Known
  <1>5. end[e] \in Knowledge /\ end[Peer(e)] \in Knowledge /\ backlog \in [End -> Seq(Conn)]
    BY <1>1, <1>2 DEF CountersInv, TypeOK
  <1> QED
    BY <1>1, <1>2, <1>3, <1>4, <1>5 DEF ConnectionsInv, Here

\* A step of e to a situation of which the same is known.
LEMMA StepConnections ==
    ASSUME DoublingInv, NEW e \in End, NEW r, Becomes(e, r),
           Known(r, e, end[Peer(e)], backlog'), r.me.crp_state > 2 => HasIn(r) \/ HasOut(r)
    PROVE  ConnectionsInv'
  <1>1. PICK p \in End : p = Peer(e) /\ p # e /\ Peer(p) = e /\ End = {e, p}
    BY PeerIs
  <1>2. end' = [end EXCEPT ![e] = r.me] /\ wire' = r.wire /\ end \in [End -> Knowledge]
    BY DEF Becomes, DoublingInv, CountersInv, TypeOK
  <1>3. end'[e] = r.me /\ end'[p] = end[p] /\ wire' = r.wire
    BY <1>1, <1>2
  <1>4. Dialled(e, end'[e], end'[p], backlog'[p], wire') /\ Dialled(p, end'[p], end'[e], backlog'[e], wire')
    BY <1>1, <1>3 DEF Known
  <1>5. InCall(e)' => HasIn(Here(e)') \/ HasOut(Here(e)')
    BY <1>3 DEF InCall, HasIn, HasOut, Here
  <1>6. InCall(p)' => HasIn(Here(p)') \/ HasOut(Here(p)')
    BY <1>3, HereKnown DEF InCall, HasIn, HasOut, Here
  <1>7. ASSUME NEW f \in End
        PROVE  /\ InCall(f)' => HasIn(Here(f)') \/ HasOut(Here(f)')
               /\ Dialled(f, end'[f], end'[Peer(f)], backlog'[Peer(f)], wire')
    BY <1>1, <1>4, <1>5, <1>6
  <1>8. \A f \in End : HasIn(Here(f)') = HasIn(Here(f))' /\ HasOut(Here(f)') = HasOut(Here(f))'
    BY DEF HasIn, HasOut, Here
  <1> QED
    BY <1>7, <1>8 DEF ConnectionsInv

\* A step of e that only closes connections, or leaves the call.
LEMMA GoesKeeps ==
    ASSUME DoublingInv, NEW e \in End, NEW r, Becomes(e, r), Goes(Here(e), r), UNCHANGED backlog
    PROVE  ConnectionsInv'
  <1>1. Known(r, e, end[Peer(e)], backlog)
    BY HereKnown, KnownLess DEF Goes
  <1>2. r.me.crp_state > 2 => HasIn(r) \/ HasOut(r)
    BY HereKnown DEF Goes, Less, InCall
  <1> QED
    BY <1>1, <1>2, StepConnections

\* do_snd(), the commands, leaving, and a dialling that fails.
LEMMA SimpleConnections ==
    ASSUME DoublingInv, NEW e \in End, User(e) \/ Timeout(e) \/ NotConnected(e)
    PROVE  ConnectionsInv'
  <1>1. Safe(Here(e), e, {})
    BY HereKnown
  <1>2. CASE Voice(e)
    <2>1. Goes(Here(e), Say(Here(e), e, "data"))
      BY <1>1, SayGoes
    <2> QED
      BY <1>2, <2>1, GoesKeeps DEF Voice
  <1>3. CASE Timeout(e) \/ Hangup(e)
    <2>1. Goes(Here(e), Disconnect(Here(e), e))
      BY <1>1, DisconnectGoes
    <2> QED
      BY <1>3, <2>1, GoesKeeps DEF Timeout, Hangup
  <1>4. CASE NotConnected(e)
    <2>1. Goes(Here(e), SockCloseOut(Here(e), e))
      BY <1>1, SockCloseGoes
    <2> QED
      BY <1>4, <2>1, GoesKeeps DEF NotConnected
  <1>5. CASE InitDbl(e)
    <2>1. Goes(Here(e), DialAgain(Here(e), e))
      BY <1>1, DialAgainGoes
    <2> QED
      BY <1>5, <2>1, GoesKeeps DEF InitDbl
  <1>6. CASE ResetDbl(e)
    <2>1. HasOut(Here(e))
      BY <1>6, HereKnown DEF ResetDbl, HasOut
    <2>2. PICK s : s = CloseIn(Here(e), e)
      OBVIOUS
    <2>3. Goes(Here(e), s) /\ Safe(s, e, {})
      BY <1>1, <2>1, <2>2, CloseInGoes
    <2>4. PICK x \in Int : x = 0
      OBVIOUS
    <2>5. Goes(s, AskToDial(s, e, x))
      BY <2>3, AskToDialGoes
    <2>6. Goes(Here(e), AskToDial(s, e, x))
      BY <2>3, <2>5, GoesTwice
    <2> QED
      BY <1>6, <2>2, <2>4, <2>6, GoesKeeps DEF ResetDbl
  <1> QED
    BY <1>2, <1>3, <1>4, <1>5, <1>6 DEF User

\* do_read() after too many rejections.
LEMMA RestoreConnections ==
    ASSUME DoublingInv, NEW e \in End, Restore(e)
    PROVE  ConnectionsInv'
  <1>1. Safe(Here(e), e, {}) /\ Here(e).me = end[e] /\ end[e] \in Knowledge
    BY HereKnown
  <1>2. PICK l : l = MovedOn(end[e])
    OBVIOUS
  <1>3. /\ l \in Knowledge /\ l.out = end[e].out /\ l.in = end[e].in /\ l.dials = end[e].dials
        /\ l.crp_state = end[e].crp_state /\ l.out_ctr = end[e].out_ctr
    BY <1>1, <1>2, MovedOnIs
  <1>4. PICK s : s = [Here(e) EXCEPT !.me = l]
    OBVIOUS
  <1>5. Goes(Here(e), s) /\ Safe(s, e, {})
    BY <1>1, <1>3, <1>4, GoesMe
  <1>6. s.me.out_ctr \in Nat /\ FALSE \in BOOLEAN
    BY <1>5, SafeHas DEF Knowledge
  <1>7. PICK m \in Message : m = Syn(s.me.out_ctr, FALSE) /\ m # Eof /\ m # Inv
    BY <1>6, SynMade, OtherMessages
  <1>8. Goes(Here(e), DoSend(s, e, m)) /\ Goes(Here(e), Disconnect(s, e))
    BY <1>5, <1>7, DoSendGoes, DisconnectGoes, GoesTwice
  <1>9. PICK r : r = IF s.me.in_ctr = FinCtr THEN Disconnect(s, e) ELSE DoSend(s, e, m)
    OBVIOUS
  <1>10. s = [Here(e) EXCEPT !.me = MovedOn(@)]
    BY <1>1, <1>2, <1>4
  <1>11. Becomes(e, r) /\ UNCHANGED backlog
    BY <1>7, <1>9, <1>10 DEF Restore
  <1> QED
    BY <1>8, <1>9, <1>11, GoesKeeps

\* do_read() of an end that measures.
LEMMA MeasureConnections ==
    ASSUME DoublingInv, NEW e \in End, Measure(e)
    PROVE  ConnectionsInv'
  <1>1. Safe(Here(e), e, {})
    BY HereKnown
  <1>2. e \in {Alice, Bob}
    BY DEF End
  <1>3. PICK x \in Int : x = Level[e] \div 2
    BY <1>2, LevelAssumption
  <1>4. CASE LET s == IF Frozen(e) THEN CloseIn(Here(e), e) ELSE Here(e)
             IN  Becomes(e, AskToDial(s, e, Level[e] \div 2))
    <2>1. PICK s : s = IF Frozen(e) THEN CloseIn(Here(e), e) ELSE Here(e)
      OBVIOUS
    <2>2. Frozen(e) => HasOut(Here(e))
      BY HereKnown DEF Frozen, HasOut
    <2>3. Goes(Here(e), Here(e))
      BY AlikeSelf, GoesSame
    <2>4. Goes(Here(e), s) /\ Safe(s, e, {})
      BY <1>1, <2>1, <2>2, <2>3, CloseInGoes
    <2>5. Goes(s, AskToDial(s, e, x))
      BY <2>4, AskToDialGoes
    <2>6. Goes(Here(e), AskToDial(s, e, x))
      BY <2>4, <2>5, GoesTwice
    <2>7. Becomes(e, AskToDial(s, e, x))
      BY <1>3, <1>4, <2>1
    <2> QED
      BY <2>6, <2>7, GoesKeeps DEF Measure
  <1>5. CASE Becomes(e, [Here(e) EXCEPT !.me.rc_cnt = -(Level[e] \div 2)])
    <2>1. PICK r : r = [Here(e) EXCEPT !.me.rc_cnt = -(Level[e] \div 2)]
      OBVIOUS
    <2>4. PICK l : l = [end[e] EXCEPT !.rc_cnt = -(Level[e] \div 2)]
      OBVIOUS
    <2>5. /\ l.out = end[e].out /\ l.in = end[e].in
          /\ l.dials = end[e].dials /\ l.crp_state = end[e].crp_state
      BY <2>4, HereKnown DEF Knowledge
    <2>6. r = [me |-> l, wire |-> wire]
      BY <2>1, <2>4 DEF Here
    <2>2. /\ r.wire = Here(e).wire /\ r.me.out = Here(e).me.out /\ r.me.in = Here(e).me.in
          /\ r.me.dials = Here(e).me.dials /\ r.me.crp_state = Here(e).me.crp_state
      BY <2>5, <2>6, HereKnown
    <2>3. Goes(Here(e), r)
      BY <2>2, AlikeSelf, GoesSame
    <2> QED
      BY <1>5, <2>1, <2>3, GoesKeeps DEF Measure
  <1> QED
    BY <1>4, <1>5 DEF Measure

\* A connection breaks for both.
LEMMA BreakConnections ==
    ASSUME DoublingInv, NEW c \in Conn, Break(c)
    PROVE  ConnectionsInv'
  <1>1. PICK e \in End : c \in {end[e].out.conn, end[e].in.conn}
    BY DEF Break
  <1>2. PICK k \in [End -> 0 .. MaxOut + 2] :
          /\ \A f \in End : k[f] <= Len(wire[c][f])
          /\ wire' = [wire EXCEPT ![c] =
                        [f \in End |-> IF Shut(@[f]) THEN @[f]
                                       ELSE Append(SubSeq(@[f], 1, k[f]), Eof)]]
    BY DEF Break
  <1>3. wire \in Wires /\ end[e] \in Knowledge /\ Here(e) = [me |-> end[e], wire |-> wire]
    BY HereKnown
  <1>4. \A d \in Conn : d # c => wire'[d] = wire[d]
    BY <1>2, <1>3 DEF Wires
  <1>5. Dead(wire', c)
    <2> SUFFICES ASSUME NEW f \in End PROVE Shut(wire'[c][f])
      BY DEF Dead
    <2>1. wire'[c][f] = IF Shut(wire[c][f]) THEN wire[c][f]
                        ELSE Append(SubSeq(wire[c][f], 1, k[f]), Eof)
      BY <1>2, <1>3 DEF Wires
    <2>2. PICK q \in Seq(Message) : q = wire[c][f]
      BY <1>3 DEF Wires
    <2>3. PICK i \in 0 .. Len(q) : i = k[f]
      BY <1>2, <2>2, BoundsAssumption
    <2>4. SubSeq(q, 1, i) \in Seq(Message)
      OBVIOUS
    <2>5. PICK y \in Seq(Message) : y = SubSeq(q, 1, i)
      BY <2>4
    <2>6. Shut(Append(y, Eof))
      BY AppendShows, NothingShown
    <2> QED
      BY <2>1, <2>2, <2>3, <2>5, <2>6
  <1>6. PICK r : r = [me |-> end[e], wire |-> wire']
    OBVIOUS
  <1>7. r.me = end[e] /\ r.wire = wire' /\ Here(e).me = end[e] /\ Here(e).wire = wire
    BY <1>3, <1>6
  <1>8. \A d \in Conn : d # c => Alike(Here(e).wire, r.wire, d)
    BY <1>4, <1>7 DEF Alike
  <1>9. Goes(Here(e), r)
    BY <1>1, <1>5, <1>7, <1>8 DEF Goes, Less, HasIn, HasOut
  <1>10. end' = end /\ backlog' = backlog
    BY DEF Break
  <1>11. Becomes(e, r)
    <2>1. end \in [End -> Knowledge]
      BY DEF DoublingInv, CountersInv, TypeOK
    <2> QED
      BY <1>7, <1>10, <2>1 DEF Becomes
  <1> QED
    BY <1>9, <1>10, <1>11, GoesKeeps

\* Tor has reached the partner.
LEMMA ConnectedConnections ==
    ASSUME DoublingInv, NEW e \in End, Connected(e)
    PROVE  ConnectionsInv'
  <1>1. PICK c : c = <<e, end[e].dials + 1>>
    OBVIOUS
  <1>2. PICK s : s = [Here(e) EXCEPT !.me.dials = @ + 1, !.me.out = [flag |-> "READY", conn |-> c]]
    OBVIOUS
  <1>3. /\ InCall(e) /\ end[e].dials < MaxDial /\ end[e].out.flag = "WAIT"
        /\ \/ HasIn(s) /\ Becomes(e, Send(s, e, c, Inv))
           \/ \E r \in {Redial(s, e), NoRedial(s, e)} : Becomes(e, r)
        /\ backlog' = [backlog EXCEPT ![Peer(e)] = Append(@, c)]
    BY <1>1, <1>2 DEF Connected
  <1>4. /\ Known(Here(e), e, end[Peer(e)], backlog) /\ Safe(Here(e), e, {})
        /\ Here(e) = [me |-> end[e], wire |-> wire] /\ wire \in Wires
        /\ end[e] \in Knowledge /\ end[Peer(e)] \in Knowledge /\ Peer(e) \in End
        /\ backlog \in [End -> Seq(Conn)] /\ {} \in SUBSET Knowledge
    BY HereKnown
  <1>5. end[e].dials + 1 \in 1 .. MaxDial /\ end[e].out.conn = None
    <2>1. end[e].dials + 1 \in 1 .. MaxDial
      <3>1. end[e].dials \in 0 .. MaxDial
        BY <1>4 DEF Knowledge
      <3> QED
        BY <1>3, <3>1, BoundsAssumption
    <2>2. end[e].out \in Socket
      BY <1>4 DEF Knowledge
    <2> QED
      BY <1>3, <2>1, <2>2 DEF Socket
  <1>6. c \in Conn
    BY <1>1, <1>5 DEF Conn
  <1>7. PICK o \in Socket : o = [flag |-> "READY", conn |-> c]
    BY <1>6 DEF Socket
  <1>8. PICK l : l = [end[e] EXCEPT !.dials = @ + 1, !.out = o]
    OBVIOUS
  <1>9. /\ l \in Knowledge /\ l.out = o /\ l.in = end[e].in /\ l.dials = end[e].dials + 1
        /\ l.crp_state = end[e].crp_state
    <2>1. end[e].dials + 1 \in 0 .. MaxDial
      BY <1>5
    <2> QED
      BY <1>4, <1>8, <2>1 DEF Knowledge
  <1>10. s = [me |-> l, wire |-> wire]
    BY <1>2, <1>4, <1>7, <1>8 DEF Here, Knowledge
  <1>11. \A g \in End : ~ Shut(wire[c][g]) /\ Inv \notin Range(wire[c][g])
    <2>1. c[1] = e /\ c[2] > end[e].dials
      <3>1. end[e].dials \in Int
        BY <1>4 DEF Knowledge
      <3> QED
        BY <1>1, <3>1
    <2> QED
      BY <1>4, <1>6, <2>1 DEF Known, Dialled, Numbered
  <1>12. backlog'[Peer(e)] = Append(backlog[Peer(e)], c) /\ backlog'[e] = backlog[e]
    BY <1>3, <1>4, PeerIs
  <1>13. ASSUME NEW k \in Knowledge, NEW v,
                k.out.conn = c, k.dials = l.dials, k.in = l.in,
                k.crp_state > 2 => /\ k.crp_state = l.crp_state /\ k.out.flag = "READY"
                                   /\ Inv \in Range(v[c][Peer(e)]),
                \A d \in Conn : d # c => Alike(wire, v, d),
                \A g \in End : ~ Shut(v[c][g]), Inv \notin Range(v[c][e]),
                NEW r, r = [me |-> k, wire |-> v]
         PROVE  Known(r, e, end[Peer(e)], backlog')
    <2>1. PICK q \in Seq(Conn) : q = backlog[Peer(e)]
      BY <1>4
    <2>2. Dialled(e, end[e], end[Peer(e)], q, wire)
      BY <1>4, <2>1 DEF Known
    <2>3. Dialled(e, k, end[Peer(e)], Append(q, c), v)
      BY <1>1, <1>4, <1>5, <1>6, <1>9, <1>13, <2>2, DialledNew
    <2>4. \A d \in Conn : d[1] = Peer(e) => Alike(wire, v, d)
      BY <1>1, <1>6, <1>13, PeerIs
    <2>5. Dialled(Peer(e), end[Peer(e)], end[e], backlog[e], wire)
      BY <1>4 DEF Known
    <2>7. k.in = end[e].in /\ (k.crp_state > 2 => end[e].crp_state > 2)
      BY <1>9, <1>13
    <2>6. Dialled(Peer(e), end[Peer(e)], k, backlog[e], v)
      BY <1>4, <2>4, <2>5, <2>7, DialledSame
    <2> QED
      BY <1>12, <1>13, <2>1, <2>3, <2>6 DEF Known
  <1>14. CASE HasIn(s) /\ Becomes(e, Send(s, e, c, Inv))
    <2>1. PICK v : v = Put(wire, c, Peer(e), Inv)
      OBVIOUS
    <2>2. PICK r : r = [me |-> l, wire |-> v]
      OBVIOUS
    <2>3. Send(s, e, c, Inv) = r
      BY <1>10, <2>1, <2>2 DEF Send
    <2>6. Inv # Eof /\ Inv \in Message
      BY NothingShown DEF Inv, Eof
    <2>4. /\ \A d \in Conn, g \in End : d # c \/ g # Peer(e) => v[d][g] = wire[d][g]
          /\ v[c][Peer(e)] = Append(wire[c][Peer(e)], Inv)
      BY <1>4, <1>6, <1>11, <2>1, <2>6, PutOther
    <2>5. PICK q \in Seq(Message) : q = wire[c][Peer(e)]
      BY <1>4, <1>6 DEF Wires
    <2>7. ~ Shut(v[c][Peer(e)]) /\ Inv \in Range(v[c][Peer(e)])
      BY <2>4, <2>5, <2>6, AppendShows
    <2>8. \A d \in Conn : d # c => Alike(wire, v, d)
      BY <2>4 DEF Alike
    <2>9. (\A g \in End : ~ Shut(v[c][g])) /\ Inv \notin Range(v[c][e])
      BY <1>6, <1>11, <2>4, <2>7, PeerIs
    <2>10. l.out.conn = c /\ l.out.flag = "READY"
      BY <1>7, <1>9
    <2>11. Known(r, e, end[Peer(e)], backlog')
      BY <1>9, <1>13, <2>2, <2>7, <2>8, <2>9, <2>10
    <2>12. HasIn(r)
      BY <1>10, <1>14, <2>2 DEF HasIn
    <2> QED
      BY <1>14, <2>3, <2>11, <2>12, StepConnections
  <1>15. CASE \E r \in {Redial(s, e), NoRedial(s, e)} : Becomes(e, r)
    <2>1. PICK u \in Socket : u = [flag |-> "INUSE", conn |-> c]
      BY <1>6 DEF Socket
    <2>0. [l.out EXCEPT !.flag = "INUSE"] = u
      BY <1>7, <1>9, <2>1
    <2>2. PICK k, n : /\ k = [l EXCEPT !.crp_state = -1, !.out = u, !.out_ctr = 0, !.in_ctr = 0]
                      /\ n = [l EXCEPT !.crp_state = 0, !.out = u]
      OBVIOUS
    <2>3. /\ k \in Knowledge /\ k.out = u /\ k.in = l.in /\ k.dials = l.dials /\ k.crp_state = -1
          /\ n \in Knowledge /\ n.out = u /\ n.in = l.in /\ n.dials = l.dials /\ n.crp_state = 0
      BY <1>9, <2>2 DEF Knowledge
    <2>4. PICK x, y : x = [me |-> k, wire |-> wire] /\ y = [me |-> n, wire |-> wire]
      OBVIOUS
    <2>5. \A d \in Conn : d # c => Alike(wire, wire, d)
      BY AlikeSelf
    <2>6. u.conn = c /\ ~(-1 > 2) /\ ~(0 > 2)
      BY <2>1
    <2>7. Known(x, e, end[Peer(e)], backlog')
      BY <1>11, <1>13, <2>3, <2>4, <2>5, <2>6
    <2>8. Known(y, e, end[Peer(e)], backlog')
      BY <1>11, <1>13, <2>3, <2>4, <2>5, <2>6
    <2>9. Safe(x, e, {}) /\ Safe(y, e, {})
      <3>1. x \in Situation /\ y \in Situation
        BY <1>4, <2>3, <2>4 DEF Situation
      <3> QED
        BY <2>3, <2>4, <3>1, LeftSafe
    <2>10. Redial(s, e) = Send(x, e, c, Req)
      <3>1. [l EXCEPT !.crp_state = -1, !.out.flag = "INUSE", !.out_ctr = 0, !.in_ctr = 0] = k
        BY <1>9, <2>0, <2>2 DEF Knowledge
      <3>2. [s EXCEPT !.me = [@ EXCEPT !.crp_state = -1, !.out.flag = "INUSE",
                                       !.out_ctr = 0, !.in_ctr = 0]] = x
        BY <1>10, <2>4, <3>1
      <3>3. x.me.out.conn = c
        BY <2>1, <2>3, <2>4
      <3> QED
        BY <3>2, <3>3 DEF Redial
    <2>11. NoRedial(s, e) = Disconnect(y, e)
      <3>1. [l EXCEPT !.crp_state = 0, !.out.flag = "INUSE"] = n
        BY <1>9, <2>0, <2>2 DEF Knowledge
      <3>2. [s EXCEPT !.me = [@ EXCEPT !.crp_state = 0, !.out.flag = "INUSE"]] = y
        BY <1>10, <2>4, <3>1
      <3> QED
        BY <3>2 DEF NoRedial
    <2>12. PICK m \in Message : m = Req /\ m # Eof /\ m # Inv
      BY NothingShown, OtherMessages
    <2>13. Goes(x, Send(x, e, c, m)) /\ Goes(y, Disconnect(y, e))
      BY <2>9, <2>12, SendGoes, DisconnectGoes
    <2>14. backlog' \in [End -> Seq(Conn)]
      BY <1>3, <1>6, BacklogTyped DEF DoublingInv
    <2>15. PICK r : Becomes(e, r) /\ (Goes(x, r) \/ Goes(y, r))
      BY <1>15, <2>10, <2>11, <2>12, <2>13
    <2>16. Known(r, e, end[Peer(e)], backlog')
      BY <1>4, <2>7, <2>8, <2>9, <2>14, <2>15, KnownLess DEF Goes
    <2>17. ~(r.me.crp_state > 2)
      BY <2>3, <2>4, <2>6, <2>15 DEF Goes, Less
    <2> QED
      BY <2>15, <2>16, <2>17, StepConnections
  <1> QED
    BY <1>3, <1>14, <1>15

\* tcpaccept() takes a connection, or closes it.
LEMMA AcceptConnections ==
    ASSUME DoublingInv, NEW e \in End, Accept(e)
    PROVE  ConnectionsInv'
  <1>1. /\ Known(Here(e), e, end[Peer(e)], backlog) /\ Safe(Here(e), e, {})
        /\ Here(e) = [me |-> end[e], wire |-> wire] /\ wire \in Wires
        /\ end[e] \in Knowledge /\ end[Peer(e)] \in Knowledge /\ Peer(e) \in End
        /\ backlog \in [End -> Seq(Conn)]
        /\ InCall(e) => HasIn(Here(e)) \/ HasOut(Here(e))
    BY HereKnown
  <1>2. PICK q \in Seq(Conn) : q = backlog[e] /\ q # <<>>
    BY <1>1 DEF Accept
  <1>3. PICK c \in Conn : c = Head(q)
    BY <1>2
  <1>4. PICK p \in End : p = Peer(e) /\ p # e /\ Peer(p) = e
    BY PeerIs
  <1>5. backlog'[e] = Tail(q) /\ backlog'[p] = backlog[p]
    BY <1>1, <1>2, <1>4 DEF Accept
  <1>6. Dialled(e, end[e], end[p], backlog[p], wire) /\ Dialled(p, end[p], end[e], q, wire)
    BY <1>1, <1>2, <1>4 DEF Known
  <1>7. c[1] = p
    BY <1>2, <1>3, <1>6, FirstOf DEF Dialled, Numbered
  <1>8. CASE HasIn(Here(e))
    <2>1. PICK j : j = Send(Here(e), e, c, Junk)
      OBVIOUS
    <2>2. PICK m \in Message : m = Junk /\ m # Eof /\ m # Inv
      BY NothingShown, OtherMessages
    <2>3. Goes(Here(e), j) /\ Safe(j, e, {}) /\ j.me = end[e]
      BY <1>1, <2>1, <2>2, SendGoes
    <2>4. j.wire \in Wires /\ \A d \in Conn : Alike(wire, j.wire, d)
      <3>1. j.wire = Put(wire, c, p, m)
        BY <1>1, <1>4, <2>1, <2>2 DEF Send
      <3> QED
        BY <1>1, <2>2, <2>3, <3>1, PutAlike, SafeHas
    <2>5. PICK v : v = CloseBy(j.wire, c, e)
      OBVIOUS
    <2>6. Dead(v, c) /\ \A d \in Conn : d # c => Alike(j.wire, v, d)
      BY <2>4, <2>5, CloseDead
    <2>7. \A d \in Conn : d # c => Alike(wire, v, d)
      BY <2>4, <2>6 DEF Alike
    <2>8. PICK r : r = [me |-> end[e], wire |-> v]
      OBVIOUS
    <2>9. Becomes(e, r)
      BY <1>2, <1>3, <1>8, <2>1, <2>5, <2>8 DEF Accept
    <2>10. Dialled(p, end[p], end[e], Tail(q), v)
      BY <1>1, <1>2, <1>3, <1>4, <1>6, <2>6, <2>7, DialledRefused
    <2>11. \A d \in Conn : d[1] = e => Alike(wire, v, d)
      BY <1>4, <1>7, <2>7
    <2>12. Dialled(e, end[e], end[p], backlog[p], v)
      BY <1>6, <2>11, DialledSame
    <2>13. Known(r, e, end[Peer(e)], backlog')
      BY <1>4, <1>5, <2>8, <2>10, <2>12 DEF Known
    <2>14. HasIn(r)
      BY <1>1, <1>8, <2>8 DEF HasIn
    <2> QED
      BY <2>9, <2>13, <2>14, StepConnections
  <1>9. CASE ~ HasIn(Here(e))
    <2>1. PICK f \in {"READY", "INUSE"} : f = IF HasOut(Here(e)) THEN "READY" ELSE "INUSE"
      OBVIOUS
    <2>2. PICK o \in Socket : o = [flag |-> f, conn |-> c]
      BY <2>1 DEF Socket
    <2>3. PICK l : l = [end[e] EXCEPT !.in = o]
      OBVIOUS
    <2>4. /\ l \in Knowledge /\ l.in = o /\ l.out = end[e].out /\ l.dials = end[e].dials
          /\ l.crp_state = end[e].crp_state
      BY <1>1, <2>3 DEF Knowledge
    <2>5. PICK r : r = [me |-> l, wire |-> wire]
      OBVIOUS
    <2>6. Becomes(e, r)
      <3>1. [Here(e) EXCEPT !.me.in = [flag |-> f, conn |-> c]] = r
        BY <2>2, <2>3, <2>5 DEF Here
      <3>2. Becomes(e, [Here(e) EXCEPT !.me.in = [flag |-> f, conn |-> c]])
        BY <1>2, <1>3, <1>9, <2>1 DEF Accept
      <3> QED
        BY <3>1, <3>2
    <2>7. end[e].in.conn = None
      <3>1. end[e].in \in Socket
        BY <1>1 DEF Knowledge
      <3>2. end[e].in.flag = "IDDL"
        BY <1>1, <1>9 DEF HasIn
      <3> QED
        BY <3>1, <3>2 DEF Socket
    <2>8. l.in.conn = Head(q) /\ (l.in.flag = "READY" \/ (l.in.flag = "INUSE" /\ ~(l.crp_state > 2)))
      BY <1>1, <1>3, <1>9, <2>1, <2>2, <2>4 DEF InCall
    <2>9. Dialled(p, end[p], l, Tail(q), wire)
      BY <1>2, <1>6, <2>4, <2>7, <2>8, DialledTaken
    <2>10. Dialled(e, l, end[p], backlog[p], wire)
      BY <1>6, <2>4, AlikeSelf, DialledSame
    <2>11. Known(r, e, end[Peer(e)], backlog')
      BY <1>4, <1>5, <2>5, <2>9, <2>10 DEF Known
    <2>12. HasIn(r)
      BY <2>1, <2>2, <2>4, <2>5 DEF HasIn
    <2> QED
      BY <2>6, <2>11, <2>12, StepConnections
  <1> QED
    BY <1>8, <1>9

\* What remains of the wire of e when the first message is taken.
LEMMA TakenAlike ==
    ASSUME DoublingInv, NEW e \in End, NEW c \in Conn, wire[c][e] # <<>>
    PROVE  LET s == [Here(e) EXCEPT !.wire[c][e] = Tail(@)]
               m == Head(wire[c][e])
           IN  /\ Safe(s, e, {}) /\ s.me = end[e] /\ s.wire \in Wires /\ m \in Message
               /\ \A d \in Conn : d # c => Alike(wire, s.wire, d)
               /\ m # Eof => \A g \in End : Shut(s.wire[c][g]) <=> Shut(wire[c][g])
               /\ m # Eof /\ m # Inv => Alike(wire, s.wire, c)
               /\ m = Inv => Inv \in Range(wire[c][e])
               /\ s.wire[c][Peer(e)] = wire[c][Peer(e)]
  <1>1. PICK s, m : s = [Here(e) EXCEPT !.wire[c][e] = Tail(@)] /\ m = Head(wire[c][e])
    OBVIOUS
  <1>2. Safe(s, e, {}) /\ s.me = end[e] /\ m \in Message
    <2>1. Safe(s, e, Limits(e)) /\ s.me = end[e] /\ m \in Message
      BY <1>1, TakenSafe DEF DoublingInv
    <2> QED
      BY <2>1, SafeHas
  <1>3. wire \in Wires /\ Here(e) = [me |-> end[e], wire |-> wire]
    BY HereKnown
  <1>4. PICK q \in Seq(Message) : q = wire[c][e] /\ q # <<>>
    BY <1>3 DEF Wires
  <1>5. Tail(q) \in Seq(Message)
    BY <1>4
  <1>6. PICK p \in Seq(Message) : p = Tail(q)
    BY <1>5
  <1>7. s.wire = [wire EXCEPT ![c][e] = p]
    BY <1>1, <1>4, <1>6 DEF Here
  <1>8. PICK w : w = s.wire
    OBVIOUS
  <1>9. Replaced(wire, w, c, e, p)
    BY <1>3, <1>7, <1>8, WireReplaced
  <1>10. w \in Wires /\ \A d \in Conn, g \in End : w[d][g] = IF d = c /\ g = e THEN p ELSE wire[d][g]
    BY <1>9 DEF Replaced
  <1>11. /\ m # Eof => (Shut(p) <=> Shut(q))
         /\ m # Inv => (Inv \in Range(p) <=> Inv \in Range(q))
         /\ m = Inv => Inv \in Range(q)
    BY <1>1, <1>4, <1>6, TailShows
  <1>12. \A d \in Conn : d # c => Alike(wire, w, d)
    BY <1>10 DEF Alike
  <1>13. m # Eof => \A g \in End : Shut(w[c][g]) <=> Shut(wire[c][g])
    BY <1>4, <1>10, <1>11
  <1>14. m # Eof /\ m # Inv => Alike(wire, w, c)
    BY <1>4, <1>10, <1>11 DEF Alike
  <1>15. w[c][Peer(e)] = wire[c][Peer(e)]
    BY <1>10, PeerIs
  <1> QED
    BY <1>1, <1>2, <1>4, <1>8, <1>10, <1>11, <1>12, <1>13, <1>14, <1>15

\* A connection that is closed in the end may have been treated in any way before.
LEMMA GoesClosing ==
    ASSUME NEW s, NEW t, NEW r, NEW c, Goes(t, r), t.me = s.me,
           \A d \in Conn : d # c => Alike(s.wire, t.wire, d),
           c \in {s.me.out.conn, s.me.in.conn}, Dead(r.wire, c)
    PROVE  Goes(s, r)
  <1>1. ASSUME NEW d \in Conn
        PROVE  \/ Alike(s.wire, r.wire, d)
               \/ d \in {s.me.out.conn, s.me.in.conn} /\ Dead(r.wire, d)
    <2>1. CASE d = c
      BY <2>1
    <2>2. CASE d # c
      <3>1. Alike(s.wire, t.wire, d)
        BY <2>2
      <3>2. \/ Alike(t.wire, r.wire, d)
            \/ d \in {s.me.out.conn, s.me.in.conn} /\ Dead(r.wire, d)
        BY DEF Goes, Less
      <3> QED
        BY <3>1, <3>2 DEF Alike
    <2> QED
      BY <2>1, <2>2
  <1> QED
    BY <1>1 DEF Goes, Less, HasIn, HasOut

\* readtcpout() of the first packet.
LEMMA FromOutConnections ==
    ASSUME DoublingInv, NEW e \in End, FromOut(e)
    PROVE  ConnectionsInv'
  <1>1. /\ Known(Here(e), e, end[Peer(e)], backlog)
        /\ Here(e).me = end[e] /\ Here(e).wire = wire
        /\ end[e] \in Knowledge /\ end[Peer(e)] \in Knowledge /\ Peer(e) \in End
    BY HereKnown
  <1>2. PICK c : c = end[e].out.conn
    OBVIOUS
  <1>3. c \in Conn /\ wire[c][e] # <<>> /\ end[e].out.flag \in {"READY", "INUSE"}
    <2>1. end[e].out \in Socket
      BY <1>1 DEF Knowledge
    <2> QED
      BY <1>2, <2>1 DEF FromOut, Socket
  <1>4. PICK s, m : s = [Here(e) EXCEPT !.wire[c][e] = Tail(@)] /\ m = Head(wire[c][e])
    OBVIOUS
  <1>5. /\ Safe(s, e, {}) /\ s.me = end[e] /\ s.wire \in Wires /\ m \in Message
        /\ \A d \in Conn : d # c => Alike(wire, s.wire, d)
        /\ m # Eof => \A g \in End : Shut(s.wire[c][g]) <=> Shut(wire[c][g])
        /\ m # Eof /\ m # Inv => Alike(wire, s.wire, c)
        /\ m = Inv => Inv \in Range(wire[c][e])
    BY <1>3, <1>4, TakenAlike
  <1>6. Becomes(e, ReadOut(s, e, m)) /\ UNCHANGED backlog
    BY <1>2, <1>4 DEF FromOut
  <1>7. CASE m # Eof /\ m # Inv
    <2>1. \A d \in Conn : Alike(wire, s.wire, d)
      BY <1>5, <1>7
    <2>2. Goes(Here(e), s)
      BY <1>1, <1>5, <2>1, GoesSame
    <2>3. Goes(s, ReadOut(s, e, m))
      BY <1>5, <1>7, ReadGoes
    <2>4. Goes(Here(e), ReadOut(s, e, m))
      BY <2>2, <2>3, GoesTwice
    <2> QED
      BY <1>6, <2>4, GoesKeeps
  <1>8. ASSUME NEW t, NEW r, Safe(t, e, {}), t.me = end[e], r = SockCloseOut(t, e), Becomes(e, r),
               \A d \in Conn : d # c => Alike(wire, t.wire, d)
        PROVE  ConnectionsInv'
    <2>1. Goes(t, r) /\ Dead(r.wire, c)
      BY <1>2, <1>3, <1>8, SockCloseGoes
    <2>2. Goes(Here(e), r)
      BY <1>1, <1>2, <1>8, <2>1, GoesClosing
    <2> QED
      BY <1>6, <1>8, <2>2, GoesKeeps
  <1>9. CASE m = Eof
    <2>1. ReadOut(s, e, m) = SockCloseOut(s, e)
      BY <1>9 DEF ReadOut, Eof
    <2> QED
      BY <1>5, <1>6, <1>8, <2>1
  <1>10. ASSUME NEW r, m = Inv, r.wire = s.wire, r.me.out = [flag |-> "INUSE", conn |-> c],
                r.me.in = end[e].in, r.me.dials = end[e].dials, r.me.crp_state = end[e].crp_state,
                Becomes(e, r)
         PROVE  ConnectionsInv'
    <2>1. Inv # Eof
      BY DEF Inv, Eof
    <2>2. Dialled(e, end[e], end[Peer(e)], backlog[Peer(e)], wire)
      BY <1>1 DEF Known
    <2>3. Dialled(e, r.me, end[Peer(e)], backlog[Peer(e)], s.wire)
      BY <1>1, <1>2, <1>3, <1>5, <1>10, <2>1, <2>2, DialledUsed
    <2>4. c[1] = e
      BY <1>2, <1>3, <2>2, SomeConn DEF Dialled, Numbered
    <2>5. \A d \in Conn : d[1] = Peer(e) => Alike(wire, s.wire, d)
      BY <1>5, <2>4, PeerIs
    <2>6. Dialled(Peer(e), end[Peer(e)], end[e], backlog[e], wire)
      BY <1>1 DEF Known
    <2>7. Dialled(Peer(e), end[Peer(e)], r.me, backlog[e], s.wire)
      BY <1>1, <1>10, <2>5, <2>6, DialledSame
    <2>8. Known(r, e, end[Peer(e)], backlog')
      BY <1>6, <1>10, <2>3, <2>7 DEF Known
    <2>9. HasOut(r)
      BY <1>10 DEF HasOut
    <2> QED
      BY <1>10, <2>8, <2>9, StepConnections
  <1>11. s \in Situation /\ s.me \in Knowledge /\ s.me.out \in Socket
    BY <1>5, SafeHas DEF Knowledge
  <1>12. CASE m = Inv /\ s.me.out.flag # "READY"
    <2>1. ReadOut(s, e, m) = [s EXCEPT !.me.rc_out = TRUE]
      BY <1>12 DEF ReadOut, Inv
    <2>2. PICK r : r = [s EXCEPT !.me.rc_out = TRUE]
      OBVIOUS
    <2>3. /\ r.wire = s.wire /\ r.me.out = s.me.out /\ r.me.in = s.me.in
          /\ r.me.dials = s.me.dials /\ r.me.crp_state = s.me.crp_state
      BY <1>5, <2>2, NotedGoes
    <2>4. s.me.out = [flag |-> "INUSE", conn |-> c]
      BY <1>2, <1>3, <1>5, <1>11, <1>12 DEF Socket
    <2> QED
      BY <1>5, <1>6, <1>10, <1>12, <2>1, <2>2, <2>3, <2>4
  <1>13. CASE m = Inv /\ s.me.out.flag = "READY"
    <2>1. ReadOut(s, e, m) = InvOut(s, e)
      BY <1>13 DEF ReadOut, Inv
    <2>2. CASE Level[e] > 0
      <3>1. PICK r : r = [s EXCEPT !.me.out.flag = "INUSE"]
        OBVIOUS
      <3>2. ReadOut(s, e, m) = r
        BY <2>1, <2>2, <3>1 DEF InvOut
      <3>3. PICK o : o = [s.me.out EXCEPT !.flag = "INUSE"]
        OBVIOUS
      <3>4. o = [flag |-> "INUSE", conn |-> c]
        BY <1>2, <1>3, <1>5, <1>11, <3>3 DEF Socket
      <3>5. /\ r.wire = s.wire /\ r.me.out = o /\ r.me.in = s.me.in
            /\ r.me.dials = s.me.dials /\ r.me.crp_state = s.me.crp_state
        BY <1>11, <3>1, <3>3 DEF Situation, Knowledge
      <3> QED
        BY <1>5, <1>6, <1>10, <1>13, <3>2, <3>4, <3>5
    <2>3. CASE ~(Level[e] > 0)
      <3>1. PICK k \in Message : k = Zero /\ k # Eof /\ k # Inv
        BY NothingShown, OtherMessages
      <3>2. PICK t : t = Send(s, e, s.me.out.conn, k)
        OBVIOUS
      <3>3. Goes(s, t) /\ Safe(t, e, {}) /\ t.me = s.me
        BY <1>5, <3>1, <3>2, SendGoes
      <3>4. \A d \in Conn : Alike(s.wire, t.wire, d)
        <4>1. t.wire = Put(s.wire, s.me.out.conn, Peer(e), k)
          BY <1>11, <3>2 DEF Send, Situation
        <4> QED
          BY <1>1, <1>5, <3>1, <4>1, PutAlike
      <3>5. \A d \in Conn : d # c => Alike(wire, t.wire, d)
        BY <1>5, <3>4 DEF Alike
      <3>6. ReadOut(s, e, m) = SockCloseOut(t, e)
        BY <2>1, <2>3, <3>1, <3>2 DEF InvOut
      <3> QED
        BY <1>5, <1>6, <1>8, <3>3, <3>5, <3>6
    <2> QED
      BY <2>2, <2>3
  <1> QED
    BY <1>7, <1>9, <1>12, <1>13

\* readtcpin() of the first packet.
LEMMA FromInConnections ==
    ASSUME DoublingInv, NEW e \in End, FromIn(e)
    PROVE  ConnectionsInv'
  <1>1. /\ Known(Here(e), e, end[Peer(e)], backlog)
        /\ Here(e).me = end[e] /\ Here(e).wire = wire
        /\ end[e] \in Knowledge /\ end[Peer(e)] \in Knowledge /\ Peer(e) \in End
    BY HereKnown
  <1>2. PICK c : c = end[e].in.conn
    OBVIOUS
  <1>3. c \in Conn /\ wire[c][e] # <<>> /\ end[e].in.flag \in {"READY", "INUSE"}
    <2>1. end[e].in \in Socket
      BY <1>1 DEF Knowledge
    <2> QED
      BY <1>2, <2>1 DEF FromIn, Socket
  <1>4. PICK s, m : s = [Here(e) EXCEPT !.wire[c][e] = Tail(@)] /\ m = Head(wire[c][e])
    OBVIOUS
  <1>5. /\ Safe(s, e, {}) /\ s.me = end[e] /\ s.wire \in Wires /\ m \in Message
        /\ \A d \in Conn : d # c => Alike(wire, s.wire, d)
        /\ m # Eof => \A g \in End : Shut(s.wire[c][g]) <=> Shut(wire[c][g])
        /\ m # Eof /\ m # Inv => Alike(wire, s.wire, c)
        /\ s.wire[c][Peer(e)] = wire[c][Peer(e)]
    BY <1>3, <1>4, TakenAlike
  <1>6. Becomes(e, ReadIn(s, e, m)) /\ UNCHANGED backlog
    BY <1>2, <1>4 DEF FromIn
  <1>7. CASE m # Eof /\ m # Inv
    <2>1. \A d \in Conn : Alike(wire, s.wire, d)
      BY <1>5, <1>7
    <2>2. Goes(Here(e), s)
      BY <1>1, <1>5, <2>1, GoesSame
    <2>3. Goes(s, ReadIn(s, e, m))
      BY <1>5, <1>7, ReadGoes
    <2>4. Goes(Here(e), ReadIn(s, e, m))
      BY <2>2, <2>3, GoesTwice
    <2> QED
      BY <1>6, <2>4, GoesKeeps
  <1>8. ASSUME NEW t, NEW r, Safe(t, e, {}), t.me = end[e], r = SockCloseIn(t, e), Becomes(e, r),
               \A d \in Conn : d # c => Alike(wire, t.wire, d)
        PROVE  ConnectionsInv'
    <2>1. Goes(t, r) /\ Dead(r.wire, c)
      BY <1>2, <1>3, <1>8, SockCloseGoes
    <2>2. Goes(Here(e), r)
      BY <1>1, <1>2, <1>8, <2>1, GoesClosing
    <2> QED
      BY <1>6, <1>8, <2>2, GoesKeeps
  <1>9. CASE m = Eof
    <2>1. ReadIn(s, e, m) = SockCloseIn(s, e)
      BY <1>9 DEF ReadIn, Eof
    <2> QED
      BY <1>5, <1>6, <1>8, <2>1
  <1>10. ASSUME NEW r, r.me.in = [flag |-> "INUSE", conn |-> c],
                r.me.out = end[e].out, r.me.dials = end[e].dials, r.me.crp_state = end[e].crp_state,
                \A d \in Conn : d # c => Alike(wire, r.wire, d),
                \A g \in End : Shut(r.wire[c][g]) <=> Shut(wire[c][g]),
                \/ end[e].in.flag = "READY" /\ (~ Shut(wire[c][Peer(e)]) => Inv \in Range(r.wire[c][Peer(e)]))
                \/ end[e].in = r.me.in /\ r.wire[c][Peer(e)] = wire[c][Peer(e)],
                Becomes(e, r)
         PROVE  ConnectionsInv'
    <2>1. PICK p \in End : p = Peer(e) /\ p # e /\ Peer(p) = e
      BY PeerIs
    <2>2. Dialled(p, end[p], end[e], backlog[e], wire)
      BY <1>1, <2>1 DEF Known
    <2>3. Dialled(p, end[p], r.me, backlog[e], r.wire)
      BY <1>1, <1>2, <1>3, <1>10, <2>1, <2>2, DialledAnswered
    <2>4. c[1] = p
      BY <1>2, <1>3, <2>2, SomeConn DEF Dialled, Numbered
    <2>5. \A d \in Conn : d[1] = e => Alike(wire, r.wire, d)
      BY <1>10, <2>1, <2>4
    <2>6. Dialled(e, end[e], end[p], backlog[p], wire)
      BY <1>1, <2>1 DEF Known
    <2>7. Dialled(e, r.me, end[p], backlog[p], r.wire)
      BY <1>10, <2>5, <2>6, DialledSame
    <2>8. Known(r, e, end[Peer(e)], backlog')
      BY <1>6, <1>10, <2>1, <2>3, <2>7 DEF Known
    <2>9. HasIn(r)
      BY <1>10 DEF HasIn
    <2> QED
      BY <1>10, <2>8, <2>9, StepConnections
  <1>11. s \in Situation /\ s.me \in Knowledge /\ s.me.in \in Socket
    BY <1>5, SafeHas DEF Knowledge
  <1>12. Inv # Eof /\ Inv \in Message
    BY NothingShown DEF Inv, Eof
  <1>13. CASE m = Inv /\ s.me.in.flag # "READY"
    <2>1. ReadIn(s, e, m) = [s EXCEPT !.me.rc_in = TRUE]
      BY <1>13 DEF ReadIn, Inv
    <2>2. PICK r : r = [s EXCEPT !.me.rc_in = TRUE]
      OBVIOUS
    <2>3. /\ r.wire = s.wire /\ r.me.out = s.me.out /\ r.me.in = s.me.in
          /\ r.me.dials = s.me.dials /\ r.me.crp_state = s.me.crp_state
      BY <1>5, <2>2, NotedGoes
    <2>4. s.me.in = [flag |-> "INUSE", conn |-> c]
      BY <1>2, <1>3, <1>5, <1>11, <1>13 DEF Socket
    <2> QED
      BY <1>5, <1>6, <1>10, <1>12, <1>13, <2>1, <2>2, <2>3, <2>4
  <1>14. CASE m = Inv /\ s.me.in.flag = "READY"
    <2>1. ReadIn(s, e, m) = InvIn(s, e)
      BY <1>14 DEF ReadIn, Inv
    <2>2. PICK w : w = Put(s.wire, c, Peer(e), Inv)
      OBVIOUS
    <2>3. PICK a : a = [me |-> s.me, wire |-> w]
      OBVIOUS
    <2>4. Send(s, e, s.me.in.conn, Inv) = a
      BY <1>2, <1>5, <1>11, <2>2, <2>3 DEF Send, Situation
    <2>5. /\ w \in Wires
          /\ \A d \in Conn, g \in End : d # c \/ g # Peer(e) => w[d][g] = s.wire[d][g]
          /\ ~ Shut(s.wire[c][Peer(e)]) => w[c][Peer(e)] = Append(s.wire[c][Peer(e)], Inv)
          /\ Shut(s.wire[c][Peer(e)]) => w = s.wire
      <3>1. PICK v \in Wires : v = s.wire
        BY <1>5
      <3>2. PICK f \in End : f = Peer(e)
        BY <1>1
      <3>3. PICK i \in Message : i = Inv
        BY <1>12
      <3>4. /\ Put(v, c, f, i) \in Wires
            /\ \A d \in Conn, g \in End : d # c \/ g # f => Put(v, c, f, i)[d][g] = v[d][g]
            /\ ~ Shut(v[c][f]) => Put(v, c, f, i)[c][f] = Append(v[c][f], i)
            /\ Shut(v[c][f]) => Put(v, c, f, i) = v
        BY <1>3, PutOther
      <3>5. w = Put(v, c, f, i)
        BY <2>2, <3>1, <3>2, <3>3
      <3> QED
        BY <3>1, <3>2, <3>3, <3>4, <3>5
    <2>6. \A d \in Conn : d # c => Alike(wire, w, d)
      BY <1>5, <2>5 DEF Alike
    <2>7. CASE Level[e] > 0
      <3>1. PICK r : r = [a EXCEPT !.me.in.flag = "INUSE"]
        OBVIOUS
      <3>2. ReadIn(s, e, m) = r
        BY <2>1, <2>4, <2>7, <3>1 DEF InvIn
      <3>3. PICK o : o = [s.me.in EXCEPT !.flag = "INUSE"]
        OBVIOUS
      <3>4. o = [flag |-> "INUSE", conn |-> c]
        BY <1>2, <1>3, <1>5, <1>11, <3>3 DEF Socket
      <3>5. /\ r.wire = w /\ r.me.in = o /\ r.me.out = s.me.out
            /\ r.me.dials = s.me.dials /\ r.me.crp_state = s.me.crp_state
        BY <1>11, <2>3, <3>1, <3>3 DEF Knowledge
      <3>6. PICK q \in Seq(Message) : q = wire[c][Peer(e)]
        BY <1>1, <1>3, HereKnown DEF Wires
      <3>7. Inv \in Range(Append(q, Inv)) /\ ~ Shut(Append(q, Inv))
        BY <1>12, AppendShows
      <3>8. ~ Shut(wire[c][Peer(e)]) => Inv \in Range(w[c][Peer(e)]) /\ ~ Shut(w[c][Peer(e)])
        BY <1>5, <2>5, <3>6, <3>7
      <3>9. \A g \in End : Shut(w[c][g]) <=> Shut(wire[c][g])
        BY <1>3, <1>5, <1>12, <1>14, <2>5, <3>8
      <3> QED
        BY <1>5, <1>6, <1>10, <1>14, <2>6, <3>2, <3>4, <3>5, <3>8, <3>9
    <2>8. CASE ~(Level[e] > 0)
      <3>1. PICK k \in Message : k = Zero /\ k # Eof /\ k # Inv
        BY NothingShown, OtherMessages
      <3>2. PICK t : t = Send(a, e, s.me.in.conn, k)
        OBVIOUS
      <3>3. Safe(a, e, {})
        <4>1. Safe(Send(s, e, s.me.in.conn, Inv), e, {})
          <5>1. {} \in SUBSET Knowledge
            OBVIOUS
          <5> QED
            BY <1>5, <1>12, <5>1, SendSafe
        <4> QED
          BY <2>4, <4>1
      <3>4. Safe(t, e, {}) /\ t.me = a.me
        BY <3>1, <3>2, <3>3, SendGoes
      <3>5. \A d \in Conn : Alike(w, t.wire, d)
        <4>1. t.wire = Put(w, s.me.in.conn, Peer(e), k)
          BY <2>3, <3>2 DEF Send
        <4> QED
          BY <1>1, <2>5, <3>1, <4>1, PutAlike
      <3>6. \A d \in Conn : d # c => Alike(wire, t.wire, d)
        BY <2>6, <3>5 DEF Alike
      <3>7. ReadIn(s, e, m) = SockCloseIn(t, e)
        BY <2>1, <2>4, <2>8, <3>1, <3>2 DEF InvIn
      <3>8. t.me = end[e]
        BY <1>5, <2>3, <3>4
      <3> QED
        BY <1>6, <1>8, <3>4, <3>6, <3>7, <3>8
    <2> QED
      BY <2>7, <2>8
  <1> QED
    BY <1>7, <1>9, <1>13, <1>14

-----------------------------------------------------------------------------
(* The invariant of the connections, and what it says when all is done.    *)

\* When the key agreement is over both ends use the connection of the originator.
LEMMA InitConnections ==
    ASSUME Init
    PROVE  ConnectionsInv
  <1>1. First \in Conn /\ Alice \in End /\ Bob \in End /\ Alice # Bob /\ First[1] = Alice /\ First[2] = 1
    BY BoundsAssumption, EndsAssumption DEF First, Conn, End
  <1>2. PICK used \in Socket, none \in Socket : used = [flag |-> "INUSE", conn |-> First] /\ none = Idle
    BY <1>1 DEF Socket, Idle
  <1>3. PICK a, b : a = end[Alice] /\ b = end[Bob]
    OBVIOUS
  <1>4. /\ a.out = used /\ a.in = none /\ a.dials = 1 /\ a.crp_state = 3
        /\ b.out = none /\ b.in = used /\ b.dials = 0 /\ b.crp_state = 4
    BY <1>1, <1>2, <1>3 DEF Init
  <1>5. PICK told \in {0, 1} : told = IF Level[Alice] = -1 THEN 0 ELSE 1
    OBVIOUS
  <1>6. wire = [c \in Conn |-> [e \in End |->
                  IF c = First /\ e = Bob /\ told = 1 THEN <<Packet("-W", 0)>> ELSE <<>>]]
    BY <1>5 DEF Init
  <1>7. PICK m \in Message : m = Packet("-W", 0) /\ m # Eof /\ m # Inv
    BY PacketMade, OtherMessages
  <1>8. ~ Shut(<<>>) /\ Inv \notin Range(<<>>) /\ ~ Shut(<<m>>) /\ Inv \notin Range(<<m>>)
    <2>1. ~ Shut(<<>>) /\ Inv \notin Range(<<>>)
      BY DEF Shut, Range
    <2>2. Last(<<m>>) = m /\ Range(<<m>>) = {m}
      BY DEF Last, Range
    <2> QED
      BY <1>7, <2>1, <2>2 DEF Shut
  <1>9. \A c \in Conn, g \in End : ~ Shut(wire[c][g]) /\ Inv \notin Range(wire[c][g])
    <2> TAKE c \in Conn, g \in End
    <2>1. wire[c][g] = <<>> \/ wire[c][g] = <<m>>
      BY <1>6, <1>7
    <2> QED
      BY <1>8, <2>1
  <1>10. backlog[Alice] = <<>> /\ backlog[Bob] = <<>> /\ DOMAIN <<>> = {} /\ Range(<<>>) = {}
    BY <1>1 DEF Init, Range
  <1>11. Peer(Alice) = Bob /\ Peer(Bob) = Alice /\ End = {Alice, Bob}
    BY <1>1, PeerIs DEF End
  <1>12. PICK q : q = <<>>
    OBVIOUS
  <1>13. Dialled(Alice, a, b, q, wire)
    <2>1. Numbered(Alice, a, b, q, wire)
      <3>1. a.out.conn = <<Alice, a.dials>> /\ b.in.flag = "INUSE" /\ b.in.conn = First
        BY <1>2, <1>4 DEF First
      <3>2. b.in.conn[1] = Alice /\ b.in.conn[2] <= a.dials
        BY <1>1, <1>4, <3>1
      <3> QED
        BY <1>9, <1>10, <1>12, <3>1, <3>2 DEF Numbered
    <2>2. Linked(Alice, a, b, q, wire)
      BY <1>2, <1>4, <1>10, <1>12 DEF Linked
    <2>3. Invited(Alice, a, b, q, wire)
      BY <1>2, <1>4, <1>10, <1>12 DEF Invited
    <2> QED
      BY <2>1, <2>2, <2>3 DEF Dialled
  <1>14. Dialled(Bob, b, a, q, wire)
    <2>1. a.in.flag = "IDDL" /\ a.in.conn = None /\ b.out.conn = None
      BY <1>2, <1>4 DEF Idle
    <2>2. Numbered(Bob, b, a, q, wire)
      BY <1>9, <1>10, <1>12, <2>1 DEF Numbered
    <2>3. Linked(Bob, b, a, q, wire) /\ Invited(Bob, b, a, q, wire)
      BY <1>10, <1>12, <2>1, SomeConn DEF Linked, Invited
    <2> QED
      BY <2>2, <2>3 DEF Dialled
  <1>15. HasOut(Here(Alice)) /\ HasIn(Here(Bob))
    BY <1>2, <1>3, <1>4 DEF HasOut, HasIn, Here
  <1> QED
    BY <1>3, <1>10, <1>11, <1>12, <1>13, <1>14, <1>15 DEF ConnectionsInv

\* Every step leaves both parts of the invariant.
LEMMA NextDoubling ==
    ASSUME DoublingInv, [Next]_vars
    PROVE  DoublingInv'
  <1>1. CountersInv'
    BY NextCounters DEF DoublingInv
  <1>2. ASSUME NEW e \in End, User(e) PROVE ConnectionsInv'
    BY <1>2, SimpleConnections
  <1>3. ASSUME NEW e \in End, Program(e) PROVE ConnectionsInv'
    BY <1>3, SimpleConnections, RestoreConnections, MeasureConnections, FromOutConnections, FromInConnections,
       AcceptConnections, ConnectedConnections DEF Program
  <1>4. ASSUME NEW c \in Conn, Break(c) PROVE ConnectionsInv'
    BY <1>4, BreakConnections
  <1>5. ASSUME UNCHANGED vars PROVE ConnectionsInv'
    <2>1. end' = end /\ wire' = wire /\ backlog' = backlog
      BY <1>5 DEF vars
    <2>2. \A e \in End : Here(e)' = Here(e) /\ (InCall(e)' <=> InCall(e))
      BY <2>1 DEF Here, InCall
    <2>3. \A e \in End :
             /\ HasIn(Here(e)') <=> HasIn(Here(e))
             /\ HasOut(Here(e)') <=> HasOut(Here(e))
      BY <2>2
    <2> QED
      BY <2>1, <2>2, <2>3 DEF DoublingInv, ConnectionsInv
  <1>6. ConnectionsInv'
    BY <1>2, <1>3, <1>4, <1>5 DEF Next
  <1> QED
    BY <1>1, <1>6 DEF DoublingInv

\* Whatever is dialled, replaced, refused or broken, both ends know of each connection what
\* they need to agree on it, and no counter is ahead.
THEOREM AlwaysDoubling == Spec => []DoublingInv
  <1>1. Init => DoublingInv
    BY InitCounters, InitConnections DEF DoublingInv
  <1>2. DoublingInv /\ [Next]_vars => DoublingInv'
    BY NextDoubling
  <1> QED
    BY <1>1, <1>2, PTL DEF Spec

\* An end that rests has nothing to read from its sockets, and none if it is in no call.
LEMMA RestingHas ==
    ASSUME DoublingInv, NEW e \in End, Resting(e)
    PROVE  /\ end[e].out.flag # "WAIT" /\ end[e].in.flag # "WAIT"
           /\ ~ InCall(e) => end[e].out = Idle /\ end[e].in = Idle
           /\ \A c \in Conn : c = end[e].out.conn \/ c = end[e].in.conn =>
                 InCall(e) /\ wire[c][e] = <<>>
           /\ backlog[e] = <<>>
  <1>1. end[e] \in Knowledge /\ end[e].out \in Socket /\ end[e].in \in Socket
    BY HereKnown DEF Knowledge
  <1>2. end[e].in.flag # "WAIT"
    BY PeerIs DEF DoublingInv, ConnectionsInv, Dialled, Numbered
  <1>3. ~ InCall(e) => end[e].out = Idle /\ end[e].in = Idle
    <2>1. ~ InCall(e) => end[e].out.flag = "IDDL" /\ end[e].in.flag = "IDDL"
      BY DEF Resting, HasIn, HasOut, Here
    <2> QED
      BY <1>1, <2>1 DEF Socket, Idle
  <1>4. Idle.flag = "IDDL" /\ Idle.conn = None
    BY DEF Idle
  <1>5. ASSUME NEW c \in Conn, c = end[e].out.conn \/ c = end[e].in.conn
        PROVE  InCall(e) /\ wire[c][e] = <<>>
    <2>1. InCall(e)
      BY <1>3, <1>4, <1>5, SomeConn
    <2>2. c \in Sockets(e)
      BY <1>5, SomeConn DEF Sockets
    <2> QED
      BY <2>1, <2>2 DEF Resting
  <1> QED
    BY <1>2, <1>3, <1>4, <1>5 DEF Resting

\* When both rest, the partner of e reads what e sends over, and only that.
LEMMA QuietAgrees ==
    ASSUME DoublingInv, Quiet, NEW e \in End
    PROVE  end[e].out.flag \in {"IDDL", "INUSE"} /\ end[Peer(e)].in = end[e].out
  <1>1. PICK p \in End : p = Peer(e)
    BY PeerIs
  <1>2. Resting(e) /\ Resting(p)
    BY DEF Quiet
  <1>3. Dialled(e, end[e], end[p], <<>>, wire)
    BY <1>1, <1>2, RestingHas DEF DoublingInv, ConnectionsInv
  <1>4. end[e].out \in Socket /\ end[p].in \in Socket
    BY <1>1, HereKnown DEF Knowledge
  <1>5. ~ Shut(<<>>) /\ Range(<<>>) = {}
    BY DEF Shut, Range
  <1>6. \A c \in Conn : /\ c = end[e].out.conn => InCall(e) /\ wire[c][e] = <<>>
                        /\ c = end[p].in.conn => InCall(p) /\ wire[c][p] = <<>>
    BY <1>2, RestingHas
  <1>7. \A c \in Conn : end[e].out.conn = c <=> end[p].in.conn = c
    <2> TAKE c \in Conn
    <2>1. /\ end[e].out.conn = c => end[p].in.conn = c \/ Shut(wire[c][e])
          /\ end[p].in.conn = c => end[e].out.conn = c \/ Shut(wire[c][p])
      BY <1>1, <1>3, <1>5 DEF Dialled, Linked
    <2> QED
      BY <1>5, <1>6, <2>1
  <1>8. ASSUME NEW c \in Conn, end[e].out.conn = c
        PROVE  end[e].out = [flag |-> "INUSE", conn |-> c] /\ end[p].in = end[e].out
    <2>1. end[p].in.conn = c /\ InCall(e) /\ InCall(p) /\ wire[c][e] = <<>> /\ wire[c][p] = <<>>
      BY <1>6, <1>7, <1>8
    <2>2. Invited(e, end[e], end[p], <<>>, wire)
      BY <1>3, <2>1 DEF Dialled, InCall
    <2>3. Inv \notin Range(wire[c][e]) /\ Inv \notin Range(wire[c][p])
      BY <1>5, <2>1
    <2>4. ~ Shut(wire[c][e]) /\ ~ Shut(wire[c][Peer(e)])
      BY <1>1, <1>5, <2>1
    <2>5. end[p].in # [flag |-> "READY", conn |-> c]
      BY <1>1, <1>8, <2>2, <2>3, <2>4 DEF Invited
    <2>6. end[p].in = [flag |-> "INUSE", conn |-> c]
      BY <1>4, <2>1, <2>5, SomeConn DEF Socket
    <2>7. end[e].out.flag # "READY"
      BY <1>8, <2>2, <2>3, <2>4, <2>6 DEF Invited
    <2> QED
      BY <1>4, <1>8, <2>6, <2>7, SomeConn DEF Socket
  <1>9. CASE end[e].out.conn \in Conn
    <2>1. PICK c \in Conn : end[e].out.conn = c
      BY <1>9
    <2>2. end[e].out = [flag |-> "INUSE", conn |-> c] /\ end[p].in = end[e].out
      BY <1>8, <2>1
    <2> QED
      BY <1>1, <2>2
  <1>10. CASE end[e].out.conn \notin Conn
    <2>1. end[e].out.conn = None /\ end[p].in.conn = None
      BY <1>4, <1>7, <1>10 DEF Socket
    <2>2. end[e].out.flag = "IDDL" /\ end[p].in.flag = "IDDL"
      BY <1>2, <1>4, <2>1, RestingHas, SomeConn DEF Socket
    <2> QED
      BY <1>1, <1>4, <2>1, <2>2 DEF Socket
  <1> QED
    BY <1>9, <1>10

\* Who rests in a call has a partner in the call.
LEMMA QuietStays ==
    ASSUME DoublingInv, Quiet, NEW e \in End, InCall(e)
    PROVE  InCall(Peer(e))
  <1>1. PICK p \in End : p = Peer(e) /\ Peer(p) = e
    BY PeerIs
  <1>2. Resting(e) /\ Resting(p)
    BY DEF Quiet
  <1>3. end[e].out.flag \in {"IDDL", "INUSE"} /\ end[p].in = end[e].out /\ end[e].in = end[p].out
    BY <1>1, QuietAgrees
  <1>4. HasIn(Here(e)) \/ HasOut(Here(e))
    BY HereKnown
  <1>5. end[e].in.flag # "IDDL" \/ end[e].out.flag # "IDDL"
    BY <1>4 DEF HasIn, HasOut, Here
  <1>6. InCall(p)
    BY <1>2, <1>3, <1>5, RestingHas DEF Idle
  <1> QED
    BY <1>1, <1>6

\* When all is done both ends agree on every connection: what one sends over, the other
\* reads, and no socket waits for an invite or a close (readtcpout, readtcpin, tcpaccept).
THEOREM FlagsAgreeHolds == Spec => []FlagsAgree
  <1>1. DoublingInv => FlagsAgree
    BY QuietAgrees DEF FlagsAgree
  <1> QED
    BY <1>1, AlwaysDoubling, PTL

\* Whatever breaks, and whoever commands what, when all is done both ends are in the call
\* or both have left it (sock_close, disconnect).
THEOREM LeaveTogetherHolds == Spec => []LeaveTogether
  <1>1. DoublingInv => LeaveTogether
    <2> SUFFICES ASSUME DoublingInv, Quiet PROVE InCall(Alice) <=> InCall(Bob)
      BY DEF LeaveTogether
    <2>1. Alice \in End /\ Bob \in End /\ Peer(Alice) = Bob /\ Peer(Bob) = Alice
      BY PeerIs, EndsAssumption DEF End
    <2> QED
      BY <2>1, QuietStays
  <1> QED
    BY <1>1, AlwaysDoubling, PTL

-----------------------------------------------------------------------------
(* One connection is kept: what may be on the wires and what the ends know *)
(* while the partner of x measures nothing or no slow connection.          *)

\* The messages that make who reads them close the connection.
Closing == {Zero, Eof, BusyInv}

\* The message m, the i-th on its way over d to g, does no harm to the connection c that x
\* has dialled, and, before that one is in use at both ends in both directions:
\* "refused", while the partner's dialling is refused, "asked", while the partner has not
\* dialled but may be asked to, "dialled", while he dials or waits for an answer.
Fit(x, c, mode, d, g, i, m) ==
    /\ d = c => m \notin Closing
    /\ g = x => m.t # "-W"
    /\ mode # "kept" /\ d[1] = Peer(x) /\ g = Peer(x) => ~ IsData(m)
    /\ mode \in {"asked", "dialled"} /\ d[1] = Peer(x) => m \notin Closing
    /\ mode = "asked" /\ g = Peer(x) /\ m.t = "-W" => d = c /\ i = 1
    /\ mode = "dialled" /\ g = Peer(x) => m.t # "-W"

Within(w, x, c, mode) ==
    \A d \in Conn, g \in End : \A i \in DOMAIN w[d][g] : Fit(x, c, mode, d, g, i, w[d][g][i])

\* What e knows, who holds the connection c of x.
Keeps(k, e, x, c, mode) ==
    /\ k.crp_state > 2
    /\ e = x => /\ k.out.conn = c /\ k.in.conn # c
                /\ k.out.flag = "READY" => Level[x] > 0
                /\ mode # "kept" => k.in.flag # "INUSE"
    /\ e # x => /\ k.in = [flag |-> "INUSE", conn |-> c] /\ k.out.conn # c
                /\ mode # "kept" => k.rc_cnt <= 0
                /\ mode = "asked" => k.out = Idle /\ k.dials = 0
                /\ mode = "dialled" =>
                      \/ k.out.conn = None /\ k.dials = 0
                      \/ k.out = [flag |-> "READY", conn |-> <<e, 1>>] /\ k.dials = 1

Holds(s, e, x, c, mode) == Keeps(s.me, e, x, c, mode) /\ Within(s.wire, x, c, mode)

\* What neither ends a connection nor is data does no harm.
LEMMA PlainFit ==
    ASSUME NEW x, NEW c, NEW mode, NEW m, m \notin Closing, ~ IsData(m)
    PROVE  \A d, g, i : Fit(x, c, mode, d, g, i, m)
  BY DEF Fit, IsData

\* Voice does none on a connection in use.
LEMMA DataFit ==
    ASSUME NEW x, NEW c, NEW mode, NEW m, m \notin Closing, m.t = "data", NEW d, NEW g,
           mode = "kept" \/ d[1] # Peer(x) \/ g # Peer(x)
    PROVE  \A i : Fit(x, c, mode, d, g, i, m)
  BY DEF Fit, IsData

\* The end of another connection.
LEMMA ClosingFit ==
    ASSUME NEW x, NEW c, NEW mode, NEW m \in Closing, NEW d, d # c,
           mode \in {"asked", "dialled"} => d[1] # Peer(x)
    PROVE  \A g, i : Fit(x, c, mode, d, g, i, m)
  <1>1. ~ IsData(m) /\ m.t # "-W"
    BY DEF Closing, Zero, Eof, BusyInv, IsData
  <1> QED
    BY <1>1 DEF Fit

\* The messages.
LEMMA MessageFit ==
    /\ \A t, n : t \in {"data", "-W"} => Packet(t, n) \notin Closing
    /\ \A n, a : Syn(n, a) \notin Closing /\ ~ IsData(Syn(n, a))
    /\ \A m \in {Inv, Req, Junk} : m \notin Closing /\ ~ IsData(m)
    /\ Zero \in Closing /\ Eof \in Closing
  BY DEF Packet, Syn, Closing, Inv, Req, Junk, Zero, Eof, BusyInv, IsData

\* send() of a message that does no harm.
LEMMA PutWithin ==
    ASSUME NEW w \in Wires, NEW d, NEW f \in End, NEW m \in Message, NEW x, NEW c, NEW mode,
           Within(w, x, c, mode), d \in Conn => \A i : Fit(x, c, mode, d, f, i, m)
    PROVE  Within(Put(w, d, f, m), x, c, mode)
  <1>1. CASE Shut(w[d][f]) \/ d \notin Conn
    <2>1. Put(w, d, f, m) = w
      BY <1>1 DEF Put, Wires
    <2> QED
      BY <2>1
  <1>2. CASE ~ Shut(w[d][f]) /\ d \in Conn
    <2>1. PICK p \in Seq(Message) : p = w[d][f]
      BY <1>2 DEF Wires
    <2>2. Append(p, m) \in Seq(Message)
      OBVIOUS
    <2>3. PICK q \in Seq(Message) : q = Append(p, m)
      BY <2>2
    <2>4. PICK v : v = [w EXCEPT ![d][f] = q]
      OBVIOUS
    <2>5. Put(w, d, f, m) = v
      BY <1>2, <2>1, <2>3, <2>4 DEF Put
    <2>6. Replaced(w, v, d, f, q)
      BY <2>4, WireReplaced
    <2>7. \A i \in DOMAIN q : (i \in DOMAIN p /\ q[i] = p[i]) \/ q[i] = m
      BY <2>1, <2>3
    <2> SUFFICES ASSUME NEW b \in Conn, NEW g \in End, NEW i \in DOMAIN v[b][g]
                 PROVE  Fit(x, c, mode, b, g, i, v[b][g][i])
      BY <2>5 DEF Within
    <2>8. CASE b = d /\ g = f
      <3>1. v[b][g] = q
        BY <2>6, <2>8 DEF Replaced
      <3> QED
        BY <1>2, <2>1, <2>7, <2>8, <3>1 DEF Within
    <2>9. CASE ~(b = d /\ g = f)
      <3>1. v[b][g] = w[b][g]
        BY <2>6, <2>9 DEF Replaced
      <3> QED
        BY <3>1 DEF Within
    <2> QED
      BY <2>8, <2>9
  <1> QED
    BY <1>1, <1>2

\* close() of a connection that may end.
LEMMA CloseWithin ==
    ASSUME NEW w \in Wires, NEW d \in Conn, NEW e \in End, NEW x, NEW c, NEW mode,
           Within(w, x, c, mode), \A g, i : Fit(x, c, mode, d, g, i, Eof)
    PROVE  Within(CloseBy(w, d, e), x, c, mode)
  <1>1. Peer(e) \in End /\ Eof \in Message
    BY PeerIs, NothingShown
  <1>2. PICK q \in Seq(Message) : q = <<Eof>>
    BY ShowsEof
  <1>3. PICK y : y = Put(w, d, Peer(e), Eof)
    OBVIOUS
  <1>4. y \in Wires /\ Within(y, x, c, mode)
    BY <1>1, <1>3, PutOther, PutWithin
  <1>5. PICK v : v = [y EXCEPT ![d][e] = q]
    OBVIOUS
  <1>6. CloseBy(w, d, e) = v
    BY <1>2, <1>3, <1>5 DEF CloseBy
  <1>7. Replaced(y, v, d, e, q)
    BY <1>4, <1>5, WireReplaced
  <1>8. \A i \in DOMAIN q : q[i] = Eof
    BY <1>2
  <1> SUFFICES ASSUME NEW b \in Conn, NEW g \in End, NEW i \in DOMAIN v[b][g]
               PROVE  Fit(x, c, mode, b, g, i, v[b][g][i])
    BY <1>6 DEF Within
  <1>9. CASE b = d /\ g = e
    <2>1. v[b][g] = q
      BY <1>7, <1>9 DEF Replaced
    <2> QED
      BY <1>8, <1>9, <2>1
  <1>10. CASE ~(b = d /\ g = e)
    <2>1. v[b][g] = y[b][g]
      BY <1>7, <1>10 DEF Replaced
    <2> QED
      BY <1>4, <2>1 DEF Within
  <1> QED
    BY <1>9, <1>10

\* send() in the situation of e.
LEMMA SendHolds ==
    ASSUME NEW s, NEW e \in End, Safe(s, e, {}), NEW d, NEW m \in Message, NEW x, NEW c, NEW mode,
           Holds(s, e, x, c, mode), d \in Conn => \A i : Fit(x, c, mode, d, Peer(e), i, m)
    PROVE  LET r == Send(s, e, d, m)
           IN  Holds(r, e, x, c, mode) /\ Safe(r, e, {}) /\ r.me = s.me
  <1>1. s \in Situation /\ s.wire \in Wires /\ Peer(e) \in End /\ {} \in SUBSET Knowledge
    BY PeerIs, SafeHas
  <1>2. PICK w : w = Put(s.wire, d, Peer(e), m)
    OBVIOUS
  <1>3. Within(w, x, c, mode)
    BY <1>1, <1>2, PutWithin DEF Holds
  <1>4. PICK r : r = Send(s, e, d, m)
    OBVIOUS
  <1>5. r.wire = w /\ r.me = s.me
    BY <1>1, <1>2, <1>4 DEF Send, Situation
  <1>6. Safe(r, e, {})
    BY <1>1, <1>4, SendSafe
  <1> QED
    BY <1>3, <1>4, <1>5, <1>6 DEF Holds

\* do_syn().
LEMMA SendSynHolds ==
    ASSUME NEW s, NEW e \in End, Safe(s, e, {}), NEW d, NEW ask \in BOOLEAN, NEW x, NEW c, NEW mode,
           Holds(s, e, x, c, mode)
    PROVE  LET r == SendSyn(s, e, d, ask)
           IN  Holds(r, e, x, c, mode) /\ Safe(r, e, {}) /\ r.me = s.me
  <1>1. s.me.out_ctr \in Nat
    BY SafeHas DEF Knowledge
  <1>2. PICK m \in Message : m = Syn(s.me.out_ctr, ask)
    BY <1>1, SynMade
  <1>3. \A b, g, i : Fit(x, c, mode, b, g, i, m)
    BY <1>2, MessageFit, PlainFit
  <1> QED
    BY <1>2, <1>3, SendHolds DEF SendSyn

\* do_send() over both sockets.
LEMMA DoSendHolds ==
    ASSUME NEW s, NEW e \in End, Safe(s, e, {}), NEW m \in Message, NEW x, NEW c, NEW mode,
           Holds(s, e, x, c, mode),
           \A d \in Conn : \/ s.me.out.flag = "INUSE" /\ d = s.me.out.conn
                           \/ s.me.in.flag = "INUSE" /\ d = s.me.in.conn
                           => \A i : Fit(x, c, mode, d, Peer(e), i, m)
    PROVE  LET r == DoSend(s, e, m)
           IN  Holds(r, e, x, c, mode) /\ Safe(r, e, {}) /\ r.me = s.me
  <1>1. PICK o : o = IF s.me.out.flag = "INUSE" THEN Send(s, e, s.me.out.conn, m) ELSE s
    OBVIOUS
  <1>2. Holds(o, e, x, c, mode) /\ Safe(o, e, {}) /\ o.me = s.me
    BY <1>1, SendHolds
  <1>3. PICK r : r = Send(o, e, s.me.in.conn, m)
    OBVIOUS
  <1>4. s.me.in.flag = "INUSE" => Holds(r, e, x, c, mode) /\ Safe(r, e, {}) /\ r.me = s.me
    BY <1>2, <1>3, SendHolds
  <1>5. DoSend(s, e, m) = IF s.me.in.flag = "INUSE" THEN r ELSE o
    BY <1>1, <1>3 DEF DoSend
  <1> QED
    BY <1>2, <1>4, <1>5

\* What e knows changes, but neither its sockets nor what it has measured.
LEMMA MeHolds ==
    ASSUME NEW s, NEW e \in End, Safe(s, e, {}), NEW l \in Knowledge, NEW x, NEW c, NEW mode,
           Holds(s, e, x, c, mode), Keeps(l, e, x, c, mode), l.out_ctr = s.me.out_ctr,
           l.crp_state = s.me.crp_state
    PROVE  LET r == [s EXCEPT !.me = l]
           IN  Holds(r, e, x, c, mode) /\ Safe(r, e, {}) /\ r.me = l /\ r.wire = s.wire
  <1>1. s \in Situation /\ s.me \in Knowledge /\ {} \in SUBSET Knowledge
    BY SafeHas
  <1>2. Later(s.me, l, {})
    BY <1>1 DEF Later, Knowledge
  <1>3. PICK r : r = [s EXCEPT !.me = l]
    OBVIOUS
  <1>4. Safe(r, e, {}) /\ r.me = l /\ r.wire = s.wire
    BY <1>1, <1>2, <1>3, MeSafe
  <1> QED
    BY <1>3, <1>4 DEF Holds

\* What Keeps says of is the same.
LEMMA KeepsSame ==
    ASSUME NEW k, NEW l, NEW e, NEW x, NEW c, NEW mode, Keeps(k, e, x, c, mode),
           l.out = k.out, l.in = k.in, l.dials = k.dials, l.crp_state = k.crp_state,
           l.rc_cnt = k.rc_cnt \/ (mode # "kept" /\ e # x => l.rc_cnt <= 0)
    PROVE  Keeps(l, e, x, c, mode)
  BY DEF Keeps

\* do_data() and do_send(): voice goes over the connections in use only, and the request
\* over those of who may ask.
LEMMA SayHolds ==
    ASSUME NEW s, NEW e \in End, Safe(s, e, {}), NEW t \in {"data", "-W"}, NEW x \in End,
           NEW c \in Conn, c[1] = x, NEW mode, Holds(s, e, x, c, mode),
           t = "-W" => e = x /\ mode = "kept"
    PROVE  Holds(Say(s, e, t), e, x, c, mode) /\ Safe(Say(s, e, t), e, {})
  <1>1. s \in Situation /\ s.me \in Knowledge /\ {} \in SUBSET Knowledge
    BY SafeHas
  <1>2. PICK r : r = [s EXCEPT !.me.out_ctr = @ + 1]
    OBVIOUS
  <1>3. /\ r.wire = s.wire /\ r.me.out = s.me.out /\ r.me.in = s.me.in
        /\ r.me.dials = s.me.dials /\ r.me.crp_state = s.me.crp_state /\ r.me.rc_cnt = s.me.rc_cnt
    BY <1>1, <1>2 DEF Situation, Knowledge
  <1>4. Keeps(s.me, e, x, c, mode) /\ Within(s.wire, x, c, mode)
    BY DEF Holds
  <1>5. Holds(r, e, x, c, mode)
    BY <1>3, <1>4, KeepsSame DEF Holds
  <1>6. Safe(r, e, {})
    <2>1. PICK l : l = [s.me EXCEPT !.out_ctr = @ + 1]
      OBVIOUS
    <2>2. /\ l \in Knowledge /\ l.crp_state = s.me.crp_state /\ s.me.out_ctr \in Nat
          /\ l.out_ctr = s.me.out_ctr + 1 /\ l.in_ctr = s.me.in_ctr /\ l.blind = s.me.blind
      BY <1>1, <2>1 DEF Knowledge
    <2>3. Later(s.me, l, {})
      BY <2>2 DEF Later
    <2>4. r = [s EXCEPT !.me = l]
      BY <1>1, <1>2, <2>1 DEF Situation
    <2> QED
      BY <1>1, <2>3, <2>4, MeSafe
  <1>7. PICK m \in Message : m = Packet(t, s.me.out_ctr)
    BY <1>1, PacketMade DEF Knowledge
  <1>8. m \notin Closing /\ m.t = t
    BY <1>7, MessageFit DEF Packet
  <1>9. e # x => Peer(e) # Peer(x)
    BY PeerIs
  <1>10. ASSUME NEW d \in Conn, \/ r.me.out.flag = "INUSE" /\ d = r.me.out.conn
                                \/ r.me.in.flag = "INUSE" /\ d = r.me.in.conn
         PROVE  \A i : Fit(x, c, mode, d, Peer(e), i, m)
    <2>1. CASE t = "data"
      <3>1. e = x /\ mode # "kept" => d = c
        BY <1>3, <1>4, <1>10 DEF Keeps
      <3>2. mode = "kept" \/ d[1] # Peer(x) \/ Peer(e) # Peer(x)
        BY <1>9, <3>1, PeerIs
      <3> QED
        BY <1>8, <2>1, <3>2, DataFit
    <2>2. CASE t = "-W"
      BY <1>8, <2>2, PeerIs DEF Fit
    <2> QED
      BY <2>1, <2>2
  <1>11. Holds(DoSend(r, e, m), e, x, c, mode) /\ Safe(DoSend(r, e, m), e, {})
    BY <1>5, <1>6, <1>10, DoSendHolds
  <1> QED
    BY <1>2, <1>7, <1>11 DEF Say

\* The outgoing connection of the partner of x is closed.
LEMMA CloseOutHolds ==
    ASSUME NEW s, NEW e \in End, Safe(s, e, {}), NEW x \in End, NEW c \in Conn, NEW mode,
           Holds(s, e, x, c, mode), e # x, mode = "dialled" => s.me.out.conn = None
    PROVE  LET r == CloseOut(s, e)
           IN  /\ Holds(r, e, x, c, mode) /\ Safe(r, e, {})
               /\ r.me = [s.me EXCEPT !.out = Idle]
  <1>1. s \in Situation /\ s.me \in Knowledge /\ s.wire \in Wires
    BY SafeHas
  <1>2. PICK r : r = CloseOut(s, e)
    OBVIOUS
  <1>3. Safe(r, e, {}) /\ r.me = [s.me EXCEPT !.out = Idle]
    BY <1>2, CloseOutGoes
  <1>4. /\ r.me.out = Idle /\ r.me.in = s.me.in /\ r.me.dials = s.me.dials
        /\ r.me.crp_state = s.me.crp_state /\ r.me.rc_cnt = s.me.rc_cnt
    BY <1>1, <1>3 DEF Knowledge
  <1>5. Keeps(s.me, e, x, c, mode) /\ Within(s.wire, x, c, mode)
    BY DEF Holds
  <1>6. Keeps(r.me, e, x, c, mode)
    <2>1. s.me.out.conn = None => ~(s.me.out = [flag |-> "READY", conn |-> <<e, 1>>])
      <3>1. <<e, 1>> \in Conn
        BY BoundsAssumption DEF Conn
      <3> QED
        BY <3>1, SomeConn
    <2>2. Idle.conn = None /\ c # None
      BY SomeConn DEF Idle
    <2> QED
      BY <1>4, <1>5, <2>1, <2>2 DEF Keeps
  <1>7. r.wire = IF s.me.out.conn = None THEN s.wire ELSE CloseBy(s.wire, s.me.out.conn, e)
    BY <1>2 DEF CloseOut
  <1>8. CASE s.me.out.conn = None
    BY <1>2, <1>3, <1>5, <1>6, <1>7, <1>8 DEF Holds
  <1>9. CASE s.me.out.conn # None
    <2>1. PICK d \in Conn : d = s.me.out.conn
      BY <1>1, <1>9 DEF Knowledge, Socket
    <2>2. d # c /\ mode \notin {"asked", "dialled"}
      BY <1>5, <1>9, <2>1 DEF Keeps, Idle
    <2>3. \A g, i : Fit(x, c, mode, d, g, i, Eof)
      BY <2>2, MessageFit, ClosingFit
    <2>4. Within(r.wire, x, c, mode)
      BY <1>1, <1>5, <1>7, <1>9, <2>1, <2>3, CloseWithin
    <2> QED
      BY <1>2, <1>3, <1>6, <2>4 DEF Holds
  <1> QED
    BY <1>8, <1>9

\* The incoming connection of x is closed.
LEMMA CloseInHolds ==
    ASSUME NEW s, NEW e \in End, Safe(s, e, {}), NEW x \in End, NEW c \in Conn, NEW mode,
           Holds(s, e, x, c, mode), e = x, mode \notin {"asked", "dialled"}
    PROVE  LET r == CloseIn(s, e)
           IN  Holds(r, e, x, c, mode) /\ Safe(r, e, {})
  <1>1. s \in Situation /\ s.me \in Knowledge /\ s.wire \in Wires
    BY SafeHas
  <1>2. PICK r : r = CloseIn(s, e)
    OBVIOUS
  <1>3. Safe(r, e, {}) /\ r.me = [s.me EXCEPT !.in = Idle]
    BY <1>2, CloseInGoes
  <1>4. /\ r.me.in = Idle /\ r.me.out = s.me.out /\ r.me.dials = s.me.dials
        /\ r.me.crp_state = s.me.crp_state /\ r.me.rc_cnt = s.me.rc_cnt
    BY <1>1, <1>3 DEF Knowledge
  <1>5. Keeps(s.me, e, x, c, mode) /\ Within(s.wire, x, c, mode)
    BY DEF Holds
  <1>6. Keeps(r.me, e, x, c, mode)
    <2>1. Idle.conn = None /\ Idle.flag = "IDDL" /\ c # None
      BY SomeConn DEF Idle
    <2> QED
      BY <1>4, <1>5, <2>1 DEF Keeps
  <1>7. r.wire = IF s.me.in.conn = None THEN s.wire ELSE CloseBy(s.wire, s.me.in.conn, e)
    BY <1>2 DEF CloseIn
  <1>8. CASE s.me.in.conn = None
    BY <1>2, <1>3, <1>5, <1>6, <1>7, <1>8 DEF Holds
  <1>9. CASE s.me.in.conn # None
    <2>1. PICK d \in Conn : d = s.me.in.conn
      BY <1>1, <1>9 DEF Knowledge, Socket
    <2>2. d # c
      BY <1>5, <2>1 DEF Keeps
    <2>3. \A g, i : Fit(x, c, mode, d, g, i, Eof)
      BY <2>2, MessageFit, ClosingFit
    <2>4. Within(r.wire, x, c, mode)
      BY <1>1, <1>5, <1>7, <1>9, <2>1, <2>3, CloseWithin
    <2> QED
      BY <1>2, <1>3, <1>6, <2>4 DEF Holds
  <1> QED
    BY <1>8, <1>9

\* sock_close() takes the other connection, as there is the one that is kept.
LEMMA SockCloseHolds ==
    ASSUME NEW s, NEW e \in End, Safe(s, e, {}), NEW x \in End, NEW c \in Conn, NEW mode,
           Holds(s, e, x, c, mode)
    PROVE  /\ e # x /\ (mode = "dialled" => s.me.out.conn = None) =>
                Holds(SockCloseOut(s, e), e, x, c, mode)
           /\ e = x /\ mode \notin {"asked", "dialled"} => Holds(SockCloseIn(s, e), e, x, c, mode)
  <1>1. s.me.out \in Socket /\ Keeps(s.me, e, x, c, mode)
    BY SafeHas DEF Knowledge, Holds
  <1>2. e # x => HasIn(s)
    BY <1>1 DEF Keeps, HasIn
  <1>3. e = x => HasOut(s)
    BY <1>1, SomeConn DEF Keeps, HasOut, Socket
  <1> QED
    BY <1>2, <1>3, CloseOutHolds, CloseInHolds DEF SockCloseOut, SockCloseIn

\* connecttor() by the partner of x.
LEMMA ConnectTorHolds ==
    ASSUME NEW s, NEW e \in End, Safe(s, e, {}), NEW x \in End, NEW c \in Conn, NEW mode,
           Holds(s, e, x, c, mode), e # x, mode # "asked", mode = "dialled" => s.me.out.conn = None
    PROVE  LET r == ConnectTor(s, e)
           IN  Holds(r, e, x, c, mode) /\ Safe(r, e, {})
  <1>0. s.me \in Knowledge
    BY SafeHas
  <1>1. PICK z : z = IF s.me.out.conn # None THEN Send(s, e, s.me.out.conn, Zero) ELSE s
    OBVIOUS
  <1>2. PICK m \in Message : m = Zero /\ m \in Closing
    BY NothingShown, MessageFit
  <1>3. s.me.out.conn # None => \A g, i : Fit(x, c, mode, s.me.out.conn, g, i, m)
    <2>1. s.me.out.conn # None => s.me.out.conn # c /\ mode \notin {"asked", "dialled"}
      BY DEF Holds, Keeps
    <2> QED
      BY <1>2, <2>1, ClosingFit
  <1>4. Holds(z, e, x, c, mode) /\ Safe(z, e, {}) /\ z.me = s.me
    BY <1>1, <1>2, <1>3, SendHolds
  <1>5. PICK o : o = CloseOut(z, e)
    OBVIOUS
  <1>6. Holds(o, e, x, c, mode) /\ Safe(o, e, {}) /\ o.me = [z.me EXCEPT !.out = Idle]
    BY <1>4, <1>5, CloseOutHolds
  <1>7. o \in Situation /\ o.me \in Knowledge
    BY <1>6, SafeHas
  <1>8. PICK r : r = ConnectTor(s, e)
    OBVIOUS
  <1>9. r = [o EXCEPT !.me.out = [flag |-> "WAIT", conn |-> None]]
    BY <1>1, <1>5, <1>8 DEF ConnectTor
  <1>10. /\ r.wire = o.wire /\ r.me.out = [flag |-> "WAIT", conn |-> None]
         /\ r.me.in = o.me.in /\ r.me.dials = o.me.dials /\ r.me.crp_state = o.me.crp_state
         /\ r.me.rc_cnt = o.me.rc_cnt
    BY <1>7, <1>9 DEF Situation, Knowledge
  <1>11. o.me.out.conn = None /\ c # None
    BY <1>0, <1>4, <1>6, SomeConn DEF Knowledge, Idle
  <1>12. Keeps(r.me, e, x, c, mode)
    <2>1. o.me.out.conn = None => ~(o.me.out = [flag |-> "READY", conn |-> <<e, 1>>])
      <3>1. <<e, 1>> \in Conn
        BY BoundsAssumption DEF Conn
      <3> QED
        BY <3>1, SomeConn
    <2>2. Keeps(o.me, e, x, c, mode)
      BY <1>6 DEF Holds
    <2> QED
      BY <1>10, <1>11, <2>1, <2>2 DEF Keeps
  <1>13. Safe(r, e, {})
    BY <1>8, ConnectTorGoes
  <1> QED
    BY <1>6, <1>8, <1>10, <1>12, <1>13 DEF Holds

\* The end of reconecttor() by the partner of x.
LEMMA DialAgainHolds ==
    ASSUME NEW s, NEW e \in End, Safe(s, e, {}), NEW x \in End, NEW c \in Conn, NEW mode,
           Holds(s, e, x, c, mode), e # x, mode # "asked", mode = "dialled" => s.me.out.conn = None
    PROVE  Holds(DialAgain(s, e), e, x, c, mode)
  <1>1. PICK d : d = ConnectTor(s, e)
    OBVIOUS
  <1>2. Holds(d, e, x, c, mode) /\ Safe(d, e, {})
    BY <1>1, ConnectTorHolds
  <1>3. PICK r : r = [d EXCEPT !.me = [@ EXCEPT !.rc_cnt = 0, !.rc_in = FALSE, !.rc_out = FALSE]]
    OBVIOUS
  <1>4. PICK k \in Int : k = 0
    OBVIOUS
  <1>5. PICK p \in BOOLEAN : p = FALSE
    OBVIOUS
  <1>6. PICK l : l = [d.me EXCEPT !.rc_cnt = k, !.rc_in = p, !.rc_out = p]
    OBVIOUS
  <1>7. d \in Situation /\ d.me \in Knowledge
    BY <1>2, SafeHas
  <1>8. /\ l \in Knowledge /\ l.out = d.me.out /\ l.in = d.me.in /\ l.dials = d.me.dials
        /\ l.crp_state = d.me.crp_state /\ l.out_ctr = d.me.out_ctr /\ l.rc_cnt = k
    BY <1>6, <1>7 DEF Knowledge
  <1>9. r = [d EXCEPT !.me = l]
    BY <1>3, <1>4, <1>5, <1>6, <1>7 DEF Situation
  <1>10. Keeps(l, e, x, c, mode)
    <2>1. k <= 0
      BY <1>4
    <2>2. Keeps(d.me, e, x, c, mode)
      BY <1>2 DEF Holds
    <2> QED
      BY <1>8, <2>1, <2>2, KeepsSame
  <1>11. Holds(r, e, x, c, mode) /\ Safe(r, e, {})
    BY <1>2, <1>8, <1>9, <1>10, MeHolds
  <1>12. PICK a \in BOOLEAN : a = TRUE
    OBVIOUS
  <1>13. DialAgain(s, e) = SendSyn(r, e, r.me.in.conn, a)
    BY <1>1, <1>3, <1>12 DEF DialAgain
  <1> QED
    BY <1>11, <1>13, SendSynHolds

\* reconecttor().
LEMMA ReconecttorHolds ==
    ASSUME NEW s, NEW e \in End, Safe(s, e, {}), NEW x \in End, NEW c \in Conn, NEW mode,
           Holds(s, e, x, c, mode), e # x, mode # "asked", mode = "dialled" => s.me.out.conn = None
    PROVE  Holds(Reconecttor(s, e), e, x, c, mode)
  BY DialAgainHolds DEF Reconecttor

\* x asks its partner to dial again.
LEMMA AskToDialHolds ==
    ASSUME NEW s, NEW e \in End, Safe(s, e, {}), NEW cnt \in Int, NEW c \in Conn, c[1] = e,
           Holds(s, e, e, c, "kept")
    PROVE  Holds(AskToDial(s, e, cnt), e, e, c, "kept")
  <1>1. s \in Situation /\ s.me \in Knowledge
    BY SafeHas
  <1>2. PICK r : r = [s EXCEPT !.me = [@ EXCEPT !.rc_in = FALSE, !.rc_out = FALSE]]
    OBVIOUS
  <1>3. PICK l : l = [s.me EXCEPT !.rc_in = FALSE, !.rc_out = FALSE]
    OBVIOUS
  <1>4. /\ l \in Knowledge /\ l.out = s.me.out /\ l.in = s.me.in /\ l.dials = s.me.dials
        /\ l.crp_state = s.me.crp_state /\ l.out_ctr = s.me.out_ctr /\ l.rc_cnt = s.me.rc_cnt
    BY <1>1, <1>3 DEF Knowledge
  <1>5. r = [s EXCEPT !.me = l]
    BY <1>1, <1>2, <1>3 DEF Situation
  <1>6. Keeps(l, e, e, c, "kept")
    BY <1>4, KeepsSame DEF Holds
  <1>7. Holds(r, e, e, c, "kept") /\ Safe(r, e, {})
    BY <1>4, <1>5, <1>6, MeHolds
  <1>8. PICK y : y = Say(r, e, "-W")
    OBVIOUS
  <1>9. Holds(y, e, e, c, "kept") /\ Safe(y, e, {})
    BY <1>7, <1>8, SayHolds
  <1>10. y \in Situation /\ y.me \in Knowledge
    BY <1>9, SafeHas
  <1>11. PICK k : k = [y.me EXCEPT !.rc_cnt = cnt]
    OBVIOUS
  <1>12. /\ k \in Knowledge /\ k.out = y.me.out /\ k.in = y.me.in /\ k.dials = y.me.dials
         /\ k.crp_state = y.me.crp_state /\ k.out_ctr = y.me.out_ctr
    BY <1>10, <1>11 DEF Knowledge
  <1>13. PICK w : w = [y EXCEPT !.me.rc_cnt = cnt]
    OBVIOUS
  <1>14. w = [y EXCEPT !.me = k]
    BY <1>10, <1>11, <1>13 DEF Situation
  <1>15. Keeps(k, e, e, c, "kept")
    BY <1>9, <1>12, KeepsSame DEF Holds
  <1>16. Holds(w, e, e, c, "kept") /\ Safe(w, e, {})
    BY <1>9, <1>12, <1>14, <1>15, MeHolds
  <1>17. PICK a \in BOOLEAN : a = TRUE
    OBVIOUS
  <1>18. Holds(SendSyn(w, e, w.me.out.conn, a), e, e, c, "kept")
    BY <1>16, SendSynHolds
  <1>19. AskToDial(s, e, cnt) = IF w.me.out.flag = "INUSE" THEN SendSyn(w, e, w.me.out.conn, a) ELSE w
    BY <1>2, <1>8, <1>13, <1>17 DEF AskToDial
  <1> QED
    BY <1>16, <1>18, <1>19

\* go_syn() of a SYN that is no farewell.
LEMMA GoSynHolds ==
    ASSUME NEW s, NEW e \in End, Safe(s, e, {}), NEW d, NEW m \in Message, IsSyn(m),
           m.n < FinCtr, s.me.in_ctr < FinCtr, NEW x, NEW c, NEW mode, Holds(s, e, x, c, mode)
    PROVE  Holds(GoSyn(s, e, d, m), e, x, c, mode)
  <1>1. s \in Situation /\ s.me \in Knowledge /\ m.n \in Nat /\ FinCtr \in Nat
    BY SafeHas, MessageHas DEF FinCtr
  <1>2. PICK l : l = [s.me EXCEPT !.in_ctr = m.n, !.blind = 0]
    OBVIOUS
  <1>3. /\ l \in Knowledge /\ l.out = s.me.out /\ l.in = s.me.in /\ l.dials = s.me.dials
        /\ l.crp_state = s.me.crp_state /\ l.out_ctr = s.me.out_ctr /\ l.rc_cnt = s.me.rc_cnt
        /\ l.in_ctr = m.n
    BY <1>1, <1>2, RaisedIs
  <1>4. PICK g : g = IF m.n > s.me.in_ctr
                     THEN [s EXCEPT !.me = [@ EXCEPT !.in_ctr = m.n, !.blind = 0]] ELSE s
    OBVIOUS
  <1>5. [s EXCEPT !.me = [@ EXCEPT !.in_ctr = m.n, !.blind = 0]] = [s EXCEPT !.me = l]
    BY <1>2
  <1>6. Keeps(l, e, x, c, mode)
    BY <1>3, KeepsSame DEF Holds
  <1>7. LET r == [s EXCEPT !.me = l]
        IN  Holds(r, e, x, c, mode) /\ Safe(r, e, {}) /\ r.me = l
    BY <1>3, <1>6, MeHolds
  <1>8. Holds(g, e, x, c, mode) /\ Safe(g, e, {}) /\ (g.me = l \/ g.me = s.me)
    BY <1>4, <1>5, <1>7
  <1>9. g.me.in_ctr # FinCtr
    <2>1. s.me.in_ctr \in Nat
      BY <1>1 DEF Knowledge
    <2> QED
      BY <1>1, <1>3, <1>8, <2>1
  <1>10. PICK a \in BOOLEAN : a = FALSE
    OBVIOUS
  <1>11. Holds(SendSyn(g, e, d, a), e, x, c, mode)
    BY <1>8, SendSynHolds
  <1>12. GoSyn(s, e, d, m) = IF g.me.in_ctr = FinCtr THEN Disconnect(g, e)
                             ELSE IF m.ask THEN SendSyn(g, e, d, a) ELSE g
    BY <1>4, <1>10 DEF GoSyn
  <1> QED
    BY <1>8, <1>9, <1>11, <1>12

\* A packet with a wrong MAC.
LEMMA RejectedHolds ==
    ASSUME NEW s, NEW e \in End, Safe(s, e, {}), NEW x, NEW c, NEW mode, Holds(s, e, x, c, mode)
    PROVE  Holds(Rejected(s), e, x, c, mode)
  <1>1. s \in Situation
    BY SafeHas
  <1>2. PICK l \in Knowledge :
           /\ Rejected(s) = [s EXCEPT !.me = l]
           /\ l.crp_state = s.me.crp_state /\ l.out = s.me.out /\ l.in = s.me.in
           /\ l.dials = s.me.dials /\ l.out_ctr = s.me.out_ctr /\ l.rc_cnt = s.me.rc_cnt
    BY <1>1, RejectedIs
  <1>3. Keeps(l, e, x, c, mode)
    BY <1>2, KeepsSame DEF Holds
  <1> QED
    BY <1>2, <1>3, MeHolds

\* go_data(): who has not yet two connections in use only ever hears over the first.
LEMMA GoDataHolds ==
    ASSUME NEW s, NEW e \in End, Safe(s, e, {}), NEW m \in Message, NEW side \in {1, -1},
           NEW x \in End, NEW c \in Conn, NEW mode, Holds(s, e, x, c, mode),
           e # x /\ mode # "kept" => side = -1,
           m.t = "-W" => e # x /\ mode # "asked" /\ (mode = "dialled" => s.me.out.conn = None)
    PROVE  Holds(GoData(s, e, m, side), e, x, c, mode)
  <1>1. s \in Situation /\ s.me \in Knowledge
    BY SafeHas
  <1>2. s.me.rc_cnt \in Int
    BY <1>1 DEF Knowledge
  <1>4. PICK l : l = Accepted(s.me, e, side)
    OBVIOUS
  <1>5. /\ l \in Knowledge /\ l.out = s.me.out /\ l.in = s.me.in /\ l.dials = s.me.dials
        /\ l.crp_state = s.me.crp_state /\ l.out_ctr = s.me.out_ctr
        /\ l.rc_cnt = IF Level[e] > 0 THEN s.me.rc_cnt + side ELSE s.me.rc_cnt
    BY <1>1, <1>4, AcceptedIs
  <1>7. PICK g : g = [s EXCEPT !.me = l]
    OBVIOUS
  <1>8. Keeps(s.me, e, x, c, mode)
    BY DEF Holds
  <1>9. mode # "kept" /\ e # x => l.rc_cnt <= 0
    <2>1. mode # "kept" /\ e # x => s.me.rc_cnt <= 0 /\ side = -1
      BY <1>8 DEF Keeps
    <2> QED
      BY <1>2, <1>5, <2>1
  <1>10. Keeps(l, e, x, c, mode)
    <2>1. CASE mode # "kept" /\ e # x
      BY <1>5, <1>8, <1>9, <2>1, KeepsSame
    <2>2. CASE ~(mode # "kept" /\ e # x)
      BY <1>5, <1>8, <2>2 DEF Keeps
    <2> QED
      BY <2>1, <2>2
  <1>11. Holds(g, e, x, c, mode) /\ Safe(g, e, {}) /\ g.me = l
    BY <1>5, <1>7, <1>10, MeHolds
  <1>12. m.t = "-W" => Holds(Reconecttor(g, e), e, x, c, mode)
    BY <1>5, <1>11, ReconecttorHolds
  <1>13. Holds(Rejected(s), e, x, c, mode)
    BY RejectedHolds
  <1>14. GoData(s, e, m, side) = IF m.n # s.me.in_ctr THEN Rejected(s)
                                 ELSE IF m.t = "-W" THEN Reconecttor(g, e) ELSE g
    BY <1>4, <1>7 DEF GoData
  <1> QED
    BY <1>11, <1>12, <1>13, <1>14

\* A packet is noted.
LEMMA NotedHolds ==
    ASSUME NEW s, NEW e \in End, Safe(s, e, {}), NEW x, NEW c, NEW mode, Holds(s, e, x, c, mode)
    PROVE  LET o == [s EXCEPT !.me.rc_out = TRUE]
               i == [s EXCEPT !.me.rc_in = TRUE]
           IN  /\ Holds(o, e, x, c, mode) /\ Safe(o, e, {}) /\ o.me.out = s.me.out
               /\ Holds(i, e, x, c, mode) /\ Safe(i, e, {}) /\ i.me.out = s.me.out
  <1>1. s \in Situation /\ s.me \in Knowledge
    BY SafeHas
  <1>2. PICK o : o = [s EXCEPT !.me.rc_out = TRUE]
    OBVIOUS
  <1>3. PICK i : i = [s EXCEPT !.me.rc_in = TRUE]
    OBVIOUS
  <1>4. Safe(o, e, {}) /\ Safe(i, e, {})
    BY <1>2, <1>3, NotedGoes
  <1>5. /\ o.wire = s.wire /\ o.me.out = s.me.out /\ o.me.in = s.me.in
        /\ o.me.dials = s.me.dials /\ o.me.crp_state = s.me.crp_state /\ o.me.rc_cnt = s.me.rc_cnt
    BY <1>1, <1>2 DEF Situation, Knowledge
  <1>6. /\ i.wire = s.wire /\ i.me.out = s.me.out /\ i.me.in = s.me.in
        /\ i.me.dials = s.me.dials /\ i.me.crp_state = s.me.crp_state /\ i.me.rc_cnt = s.me.rc_cnt
    BY <1>1, <1>3 DEF Situation, Knowledge
  <1>7. Keeps(s.me, e, x, c, mode) /\ Within(s.wire, x, c, mode)
    BY DEF Holds
  <1>8. Keeps(o.me, e, x, c, mode) /\ Keeps(i.me, e, x, c, mode)
    BY <1>5, <1>6, <1>7, KeepsSame
  <1> QED
    BY <1>2, <1>3, <1>4, <1>5, <1>6, <1>7, <1>8 DEF Holds

\* The kinds of messages.
LEMMA MessageKinds ==
    ASSUME NEW m \in Message
    PROVE  /\ m.t \in {"eof", "zero", "busy"} => m \in Closing
           /\ m.t = "inv" <=> m = Inv
           /\ m.t \in {"data", "-W"} <=> IsData(m)
           /\ m.t = "syn" <=> IsSyn(m)
  BY DEF Message, Closing, IsData, IsSyn, Inv, BusyInv, Req, Junk, Zero, Eof

\* The invite, or the answer to it, is read from the outgoing connection.
LEMMA InvOutHolds ==
    ASSUME NEW s, NEW e \in End, Safe(s, e, {}), NEW x \in End, NEW c \in Conn, NEW mode,
           Holds(s, e, x, c, mode), s.me.out.flag = "READY", e # x => mode \notin {"asked", "dialled"}
    PROVE  Holds(InvOut(s, e), e, x, c, mode)
  <1>1. s \in Situation /\ s.me \in Knowledge /\ s.me.out \in Socket
    BY SafeHas DEF Knowledge
  <1>2. Keeps(s.me, e, x, c, mode) /\ Within(s.wire, x, c, mode)
    BY DEF Holds
  <1>3. CASE Level[e] > 0
    <2>1. PICK r : r = [s EXCEPT !.me.out.flag = "INUSE"]
      OBVIOUS
    <2>2. PICK o : o = [s.me.out EXCEPT !.flag = "INUSE"]
      OBVIOUS
    <2>3. o.conn = s.me.out.conn /\ o.flag = "INUSE"
      BY <1>1, <2>2 DEF Socket
    <2>4. /\ r.wire = s.wire /\ r.me.out = o /\ r.me.in = s.me.in
          /\ r.me.dials = s.me.dials /\ r.me.crp_state = s.me.crp_state /\ r.me.rc_cnt = s.me.rc_cnt
      BY <1>1, <2>1, <2>2 DEF Situation, Knowledge
    <2>5. Keeps(r.me, e, x, c, mode)
      BY <1>2, <2>3, <2>4 DEF Keeps
    <2> QED
      BY <1>2, <1>3, <2>1, <2>4, <2>5 DEF InvOut, Holds
  <1>4. CASE ~(Level[e] > 0)
    <2>1. e # x
      BY <1>2, <1>4 DEF Keeps
    <2>2. s.me.out.conn \in Conn /\ s.me.out.conn # c
      BY <1>1, <1>2, <2>1 DEF Keeps, Socket
    <2>3. PICK m \in Message : m = Zero /\ m \in Closing
      BY NothingShown, MessageFit
    <2>4. \A g, i : Fit(x, c, mode, s.me.out.conn, g, i, m)
      BY <2>1, <2>2, <2>3, ClosingFit
    <2>5. PICK z : z = Send(s, e, s.me.out.conn, m)
      OBVIOUS
    <2>6. Holds(z, e, x, c, mode) /\ Safe(z, e, {})
      BY <2>4, <2>5, SendHolds
    <2>7. Holds(SockCloseOut(z, e), e, x, c, mode)
      BY <2>1, <2>6, SockCloseHolds
    <2> QED
      BY <1>4, <2>3, <2>5, <2>7 DEF InvOut
  <1> QED
    BY <1>3, <1>4

\* The invite is read by x from the incoming connection.
LEMMA InvInHolds ==
    ASSUME NEW s, NEW e \in End, Safe(s, e, {}), NEW c \in Conn, NEW mode,
           Holds(s, e, e, c, mode), s.me.in.flag = "READY", mode \notin {"asked", "dialled"},
           mode # "kept" => ~(Level[e] > 0)
    PROVE  Holds(InvIn(s, e), e, e, c, mode)
  <1>1. s.me \in Knowledge /\ s.me.in \in Socket
    BY SafeHas DEF Knowledge
  <1>2. Keeps(s.me, e, e, c, mode)
    BY DEF Holds
  <1>3. s.me.in.conn \in Conn /\ s.me.in.conn # c
    BY <1>1, <1>2 DEF Keeps, Socket
  <1>4. PICK v \in Message : v = Inv /\ v \notin Closing /\ ~ IsData(v)
    BY NothingShown, MessageFit
  <1>5. PICK a : a = Send(s, e, s.me.in.conn, v)
    OBVIOUS
  <1>6. Holds(a, e, e, c, mode) /\ Safe(a, e, {}) /\ a.me = s.me
    BY <1>4, <1>5, PlainFit, SendHolds
  <1>7. CASE Level[e] > 0
    <2>1. PICK r : r = [a EXCEPT !.me.in.flag = "INUSE"]
      OBVIOUS
    <2>2. PICK o : o = [s.me.in EXCEPT !.flag = "INUSE"]
      OBVIOUS
    <2>3. o.conn = s.me.in.conn
      BY <1>1, <2>2 DEF Socket
    <2>4. a \in Situation
      BY <1>6, SafeHas
    <2>5. /\ r.wire = a.wire /\ r.me.in = o /\ r.me.out = s.me.out
          /\ r.me.dials = s.me.dials /\ r.me.crp_state = s.me.crp_state /\ r.me.rc_cnt = s.me.rc_cnt
      BY <1>1, <1>6, <2>1, <2>2, <2>4 DEF Situation, Knowledge
    <2>6. Keeps(r.me, e, e, c, mode)
      BY <1>2, <1>7, <2>3, <2>5 DEF Keeps
    <2> QED
      BY <1>4, <1>5, <1>6, <1>7, <2>1, <2>5, <2>6 DEF InvIn, Holds
  <1>8. CASE ~(Level[e] > 0)
    <2>1. PICK m \in Message : m = Zero /\ m \in Closing
      BY NothingShown, MessageFit
    <2>2. \A g, i : Fit(e, c, mode, s.me.in.conn, g, i, m)
      BY <1>3, <2>1, ClosingFit
    <2>3. PICK z : z = Send(a, e, s.me.in.conn, m)
      OBVIOUS
    <2>4. Holds(z, e, e, c, mode) /\ Safe(z, e, {})
      BY <1>6, <2>2, <2>3, SendHolds
    <2>5. Holds(SockCloseIn(z, e), e, e, c, mode)
      BY <2>4, SockCloseHolds
    <2> QED
      BY <1>4, <1>5, <1>8, <2>1, <2>3, <2>5 DEF InvIn
  <1> QED
    BY <1>7, <1>8

\* readtcpout() of what does no harm.
LEMMA ReadOutHolds ==
    ASSUME NEW s, NEW e \in End, Safe(s, e, {}), NEW m \in Message, NEW x \in End, NEW c \in Conn,
           NEW mode, Holds(s, e, x, c, mode), NEW d, d = s.me.out.conn, Fit(x, c, mode, d, e, 1, m),
           IsSyn(m) => m.n < FinCtr /\ s.me.in_ctr < FinCtr,
           e # x => d[1] = e /\ mode # "asked" /\ (m = Inv => mode # "dialled")
    PROVE  Holds(ReadOut(s, e, m), e, x, c, mode)
  <1>1. /\ m.t \in {"eof", "zero", "busy"} => m \in Closing
        /\ m.t = "inv" <=> m = Inv
        /\ m.t \in {"data", "-W"} <=> IsData(m)
        /\ m.t = "syn" <=> IsSyn(m)
    BY MessageKinds
  <1>2. e # x => e = Peer(x)
    BY PeerIs
  <1>3. PICK o : o = [s EXCEPT !.me.rc_out = TRUE]
    OBVIOUS
  <1>4. Holds(o, e, x, c, mode) /\ Safe(o, e, {})
    BY <1>3, NotedHolds
  <1>5. m \in Closing => e # x /\ mode # "dialled"
    <2>1. e = x => d = c
      BY DEF Holds, Keeps
    <2> QED
      BY <1>2, <2>1 DEF Fit
  <1>6. m \in Closing => Holds(SockCloseOut(s, e), e, x, c, mode)
    BY <1>5, SockCloseHolds
  <1>7. IsSyn(m) => Holds(GoSyn(s, e, d, m), e, x, c, mode)
    BY GoSynHolds
  <1>8. m = Inv /\ s.me.out.flag = "READY" => Holds(InvOut(s, e), e, x, c, mode)
    BY InvOutHolds
  <1>9. IsData(m) => Holds(GoData(o, e, m, 1), e, x, c, mode)
    <2>1. IsData(m) /\ e # x => mode = "kept"
      BY <1>2 DEF Fit
    <2>2. m.t = "-W" => e # x
      BY DEF Fit
    <2> QED
      BY <1>1, <1>4, <2>1, <2>2, GoDataHolds
  <1>10. Holds(Rejected(o), e, x, c, mode)
    BY <1>4, RejectedHolds
  <1> QED
    BY <1>1, <1>3, <1>4, <1>6, <1>7, <1>8, <1>9, <1>10 DEF ReadOut

\* readtcpin() of what does no harm.
LEMMA ReadInHolds ==
    ASSUME NEW s, NEW e \in End, Safe(s, e, {}), NEW m \in Message, NEW x \in End, NEW c \in Conn,
           NEW mode, Holds(s, e, x, c, mode), NEW d, d = s.me.in.conn,
           m \in Closing => e = x /\ mode \notin {"asked", "dialled"},
           m.t = "-W" => e # x /\ mode # "asked" /\ (mode = "dialled" => s.me.out.conn = None),
           IsSyn(m) => m.n < FinCtr /\ s.me.in_ctr < FinCtr,
           m = Inv /\ s.me.in.flag = "READY" =>
               mode = "kept" \/ (mode = "refused" /\ ~(Level[e] > 0))
    PROVE  Holds(ReadIn(s, e, m), e, x, c, mode)
  <1>1. /\ m.t \in {"eof", "zero", "busy"} => m \in Closing
        /\ m.t = "inv" <=> m = Inv
        /\ m.t \in {"data", "-W"} <=> IsData(m)
        /\ m.t = "syn" <=> IsSyn(m)
    BY MessageKinds
  <1>2. PICK i : i = [s EXCEPT !.me.rc_in = TRUE]
    OBVIOUS
  <1>3. Holds(i, e, x, c, mode) /\ Safe(i, e, {}) /\ i.me.out = s.me.out
    BY <1>2, NotedHolds
  <1>4. m \in Closing => Holds(SockCloseIn(s, e), e, x, c, mode)
    BY SockCloseHolds
  <1>5. IsSyn(m) => Holds(GoSyn(s, e, d, m), e, x, c, mode)
    BY GoSynHolds
  <1>6. m = Inv /\ s.me.in.flag = "READY" => Holds(InvIn(s, e), e, x, c, mode)
    <2>1. e # x => s.me.in.flag = "INUSE"
      BY DEF Holds, Keeps
    <2> QED
      BY <2>1, InvInHolds
  <1>7. IsData(m) => Holds(GoData(i, e, m, -1), e, x, c, mode)
    BY <1>1, <1>3, GoDataHolds
  <1>8. Holds(Rejected(i), e, x, c, mode)
    BY <1>3, RejectedHolds
  <1> QED
    BY <1>1, <1>2, <1>3, <1>4, <1>5, <1>6, <1>7, <1>8 DEF ReadIn

-----------------------------------------------------------------------------
(* One connection is kept: steps.                                          *)

KeptIn(x, c, mode) ==
    /\ c[1] = x /\ Within(wire, x, c, mode)
    /\ \A e \in End : Keeps(end[e], e, x, c, mode)

\* Who looks for slow connections, and who accepts to have two.
Alone(x, mode) ==
    \/ mode = "kept" /\ ~ InSlow(Peer(x))
    \/ /\ mode # "kept" /\ ~ InSlow(x) /\ Level[Peer(x)] > 0
       /\ \/ mode = "refused" /\ ~(Level[x] > 0)
          \/ mode \in {"asked", "dialled"} /\ Level[x] > 0

\* No counter has reached that of the last SYN, nor would by a resynchronisation.
Lasting == \A e \in End : end[e].out_ctr < FinCtr /\ end[e].in_ctr + Step < FinCtr

\* Either end is in such a situation.
LEMMA KeptHere ==
    ASSUME DoublingInv, NEW x \in End, NEW c \in Conn, NEW mode, KeptIn(x, c, mode), NEW e \in End
    PROVE  /\ Holds(Here(e), e, x, c, mode) /\ Safe(Here(e), e, {})
           /\ Here(e).me = end[e] /\ Here(e).wire = wire /\ Here(e) = [me |-> end[e], wire |-> wire]
           /\ end[e] \in Knowledge /\ wire \in Wires
           /\ Called
  <1>1. /\ Here(e).me = end[e] /\ Here(e).wire = wire /\ Safe(Here(e), e, {})
        /\ Here(e) = [me |-> end[e], wire |-> wire] /\ end[e] \in Knowledge /\ wire \in Wires
    BY HereKnown
  <1>2. Called
    BY DEF KeptIn, Keeps, Called, InCall
  <1> QED
    BY <1>1, <1>2 DEF KeptIn, Holds

\* A step of one end.
LEMMA StepKept ==
    ASSUME DoublingInv, NEW x \in End, NEW c \in Conn, NEW mode, NEW next, KeptIn(x, c, mode),
           NEW e \in End, NEW r, Becomes(e, r), Holds(r, e, x, c, next),
           next = mode \/ (mode = "asked" /\ next = "dialled")
    PROVE  KeptIn(x, c, next)'
  <1>1. end \in [End -> Knowledge]
    BY DEF DoublingInv, CountersInv, TypeOK
  <1>2. end' = [end EXCEPT ![e] = r.me] /\ wire' = r.wire
    BY DEF Becomes
  <1>3. ASSUME NEW f \in End PROVE Keeps(end'[f], f, x, c, next)
    <2>1. CASE f = e
      BY <1>1, <1>2, <2>1 DEF Holds
    <2>2. CASE f # e
      <3>1. end'[f] = end[f] /\ Keeps(end[f], f, x, c, mode)
        BY <1>1, <1>2, <2>2 DEF KeptIn
      <3> QED
        BY <3>1 DEF Keeps, Idle
    <2> QED
      BY <2>1, <2>2
  <1> QED
    BY <1>2, <1>3 DEF KeptIn, Holds

\* Nothing changes.
LEMMA StutterKept ==
    ASSUME NEW x, NEW c, NEW mode, KeptIn(x, c, mode), UNCHANGED vars
    PROVE  KeptIn(x, c, mode)'
  BY DEF KeptIn, vars

\* A packet of voice.
LEMMA VoiceKept ==
    ASSUME DoublingInv, NEW x \in End, NEW c \in Conn, NEW mode, KeptIn(x, c, mode),
           NEW e \in End, Voice(e)
    PROVE  KeptIn(x, c, mode)'
  <1>1. Holds(Here(e), e, x, c, mode) /\ Safe(Here(e), e, {}) /\ c[1] = x
    BY KeptHere DEF KeptIn
  <1>2. Holds(Say(Here(e), e, "data"), e, x, c, mode)
    BY <1>1, SayHolds
  <1>3. Becomes(e, Say(Here(e), e, "data"))
    BY DEF Voice
  <1> QED
    BY <1>2, <1>3, StepKept

\* do_read() moves in_ctr, not to the counter of the last SYN, and sends a SYN.
LEMMA RestoreKept ==
    ASSUME DoublingInv, Lasting, NEW x \in End, NEW c \in Conn, NEW mode, KeptIn(x, c, mode),
           NEW e \in End, Restore(e)
    PROVE  KeptIn(x, c, mode)'
  <1>1. /\ Holds(Here(e), e, x, c, mode) /\ Safe(Here(e), e, {}) /\ Here(e).me = end[e]
        /\ end[e] \in Knowledge /\ Keeps(end[e], e, x, c, mode)
    BY KeptHere DEF KeptIn
  <1>2. PICK l : l = MovedOn(end[e])
    OBVIOUS
  <1>3. /\ l \in Knowledge /\ l.crp_state = end[e].crp_state /\ l.out = end[e].out
        /\ l.in = end[e].in /\ l.dials = end[e].dials /\ l.out_ctr = end[e].out_ctr
        /\ l.rc_cnt = end[e].rc_cnt /\ l.in_ctr = end[e].in_ctr + Step
    BY <1>1, <1>2, MovedOnIs
  <1>4. Keeps(l, e, x, c, mode)
    BY <1>1, <1>3, KeepsSame
  <1>5. PICK s : s = [Here(e) EXCEPT !.me = l]
    OBVIOUS
  <1>6. Holds(s, e, x, c, mode) /\ Safe(s, e, {}) /\ s.me = l
    BY <1>1, <1>3, <1>4, <1>5, MeHolds
  <1>7. s.me.out_ctr \in Nat /\ FALSE \in BOOLEAN
    BY <1>3, <1>6 DEF Knowledge
  <1>8. PICK m \in Message : m = Syn(s.me.out_ctr, FALSE)
    BY <1>7, SynMade
  <1>9. \A b, g, i : Fit(x, c, mode, b, g, i, m)
    BY <1>8, MessageFit, PlainFit
  <1>10. Holds(DoSend(s, e, m), e, x, c, mode)
    BY <1>6, <1>9, DoSendHolds
  <1>11. s.me.in_ctr # FinCtr
    <2>1. end[e].in_ctr + Step < FinCtr /\ FinCtr \in Nat /\ Step \in Nat /\ end[e].in_ctr \in Nat
      BY <1>1, ResyncAssumption DEF Lasting, FinCtr, Knowledge
    <2> QED
      BY <1>3, <1>6, <2>1
  <1>12. s = [Here(e) EXCEPT !.me = MovedOn(@)]
    BY <1>1, <1>2, <1>5
  <1>13. Becomes(e, DoSend(s, e, m))
    BY <1>8, <1>11, <1>12 DEF Restore
  <1> QED
    BY <1>10, <1>13, StepKept

\* Only the incoming connection of x is found slow, and not before there are two.
LEMMA MeasureKept ==
    ASSUME DoublingInv, NEW x \in End, NEW c \in Conn, NEW mode, KeptIn(x, c, mode),
           Alone(x, mode), NEW e \in End, Measure(e)
    PROVE  KeptIn(x, c, mode)'
  <1>1. /\ Holds(Here(e), e, x, c, mode) /\ Safe(Here(e), e, {}) /\ c[1] = x
        /\ Here(e).me = end[e] /\ Here(e).wire = wire /\ Here(e) = [me |-> end[e], wire |-> wire]
        /\ end[e] \in Knowledge /\ Keeps(end[e], e, x, c, mode)
    BY KeptHere DEF KeptIn
  <1>2. Level[e] \in Int
    BY LevelAssumption DEF End
  <1>3. end[e].rc_cnt \in Int
    BY <1>1 DEF Knowledge
  <1>4. CASE InSlow(e)
    <2>1. e = x /\ mode = "kept"
      <3>1. CASE mode = "kept"
        BY <1>4, <3>1, PeerIs DEF Alone
      <3>2. CASE mode # "kept"
        <4>1. e # x
          BY <1>4, <3>2 DEF Alone
        <4>2. end[e].rc_cnt <= 0
          BY <1>1, <3>2, <4>1 DEF Keeps
        <4> QED
          BY <1>2, <1>3, <1>4, <4>2 DEF InSlow
      <3> QED
        BY <3>1, <3>2
    <2>2. PICK s : s = IF Frozen(e) THEN CloseIn(Here(e), e) ELSE Here(e)
      OBVIOUS
    <2>3. Holds(s, e, x, c, mode) /\ Safe(s, e, {})
      BY <1>1, <2>1, <2>2, CloseInHolds
    <2>4. PICK k \in Int : k = Level[e] \div 2
      BY <1>2
    <2>5. Holds(AskToDial(s, e, k), e, x, c, mode)
      BY <1>1, <2>1, <2>3, AskToDialHolds
    <2>6. Becomes(e, AskToDial(s, e, k))
      BY <1>4, <2>2, <2>4 DEF Measure
    <2> QED
      BY <2>5, <2>6, StepKept
  <1>5. CASE ~ InSlow(e)
    <2>1. PICK k \in Int : k = -(Level[e] \div 2)
      BY <1>2
    <2>2. PICK r : r = [Here(e) EXCEPT !.me.rc_cnt = k]
      OBVIOUS
    <2>3. Becomes(e, r) /\ OutSlow(e)
      BY <1>5, <2>1, <2>2 DEF Measure
    <2>4. k <= 0
      BY <1>2, <2>1, <2>3 DEF OutSlow
    <2>5. PICK l : l = [end[e] EXCEPT !.rc_cnt = k]
      OBVIOUS
    <2>6. r.me = l /\ r.wire = wire
      BY <1>1, <2>2, <2>5
    <2>7. /\ l.out = end[e].out /\ l.in = end[e].in /\ l.dials = end[e].dials
          /\ l.crp_state = end[e].crp_state /\ l.rc_cnt = k
      BY <1>1, <2>5 DEF Knowledge
    <2>8. Keeps(l, e, x, c, mode)
      BY <1>1, <2>4, <2>7 DEF Keeps
    <2>9. Holds(r, e, x, c, mode)
      BY <1>1, <2>6, <2>8 DEF Holds
    <2> QED
      BY <2>3, <2>9, StepKept
  <1> QED
    BY <1>4, <1>5

\* Tor has not reached the other end.
LEMMA NotConnectedKept ==
    ASSUME DoublingInv, NEW x \in End, NEW c \in Conn, NEW mode, KeptIn(x, c, mode),
           NEW e \in End, NotConnected(e)
    PROVE  KeptIn(x, c, mode)'
  <1>1. /\ Holds(Here(e), e, x, c, mode) /\ Safe(Here(e), e, {}) /\ Here(e).me = end[e]
        /\ end[e].out \in Socket /\ Keeps(end[e], e, x, c, mode)
    BY KeptHere DEF KeptIn, Knowledge
  <1>2. end[e].out.flag = "WAIT" /\ Becomes(e, SockCloseOut(Here(e), e))
    BY DEF NotConnected
  <1>3. end[e].out.conn = None
    BY <1>1, <1>2 DEF Socket
  <1>4. e # x
    BY <1>1, <1>3, SomeConn DEF Keeps
  <1>5. Holds(SockCloseOut(Here(e), e), e, x, c, mode)
    BY <1>1, <1>3, <1>4, SockCloseHolds
  <1> QED
    BY <1>2, <1>5, StepKept

\* Tor has reached x, and as its partner has a connection, it offers the doubling.
LEMMA ConnectedKept ==
    ASSUME DoublingInv, NEW x \in End, NEW c \in Conn, NEW mode, KeptIn(x, c, mode),
           NEW e \in End, Connected(e)
    PROVE  KeptIn(x, c, mode)'
  <1>1. /\ Here(e).me = end[e] /\ Here(e).wire = wire /\ Here(e) = [me |-> end[e], wire |-> wire]
        /\ end[e] \in Knowledge /\ Keeps(end[e], e, x, c, mode) /\ Within(wire, x, c, mode)
        /\ c[1] = x /\ wire \in Wires
    BY KeptHere DEF KeptIn
  <1>2. end[e].out.flag = "WAIT" /\ end[e].dials < MaxDial
    BY DEF Connected
  <1>3. end[e].out.conn = None
    BY <1>1, <1>2 DEF Socket, Knowledge
  <1>4. e # x
    BY <1>1, <1>3, SomeConn DEF Keeps
  <1>5. PICK d : d = <<e, end[e].dials + 1>>
    OBVIOUS
  <1>6. d \in Conn /\ d # c /\ end[e].dials \in 0 .. MaxDial
    <2>1. end[e].dials \in 0 .. MaxDial /\ end[e].dials + 1 \in 1 .. MaxDial
      BY <1>1, <1>2, BoundsAssumption DEF Knowledge
    <2> QED
      BY <1>1, <1>4, <1>5, <2>1 DEF Conn
  <1>7. PICK o : o = [flag |-> "READY", conn |-> d]
    OBVIOUS
  <1>8. PICK n : n = end[e].dials + 1
    OBVIOUS
  <1>9. PICK s : s = [Here(e) EXCEPT !.me.dials = @ + 1, !.me.out = [flag |-> "READY", conn |-> d]]
    OBVIOUS
  <1>10. PICK l : l = [end[e] EXCEPT !.dials = n, !.out = o]
    OBVIOUS
  <1>11. s = [me |-> l, wire |-> wire]
    BY <1>1, <1>7, <1>8, <1>9, <1>10 DEF Knowledge
  <1>12. /\ l.out = o /\ l.in = end[e].in /\ l.dials = n
         /\ l.crp_state = end[e].crp_state /\ l.rc_cnt = end[e].rc_cnt
    BY <1>1, <1>10 DEF Knowledge
  <1>13. HasIn(s)
    BY <1>1, <1>4, <1>11, <1>12 DEF HasIn, Keeps
  <1>14. Becomes(e, Send(s, e, d, Inv))
    BY <1>5, <1>9, <1>13 DEF Connected
  <1>15. Keeps(l, e, x, c, mode)
    <2>1. end[e].out # Idle /\ end[e].out # [flag |-> "READY", conn |-> <<e, 1>>]
      BY <1>2 DEF Idle
    <2>2. mode = "dialled" => d = <<e, 1>> /\ n = 1
      BY <1>1, <1>4, <1>5, <1>8, <2>1 DEF Keeps
    <2>3. o.conn = d /\ o.flag = "READY"
      BY <1>7
    <2> QED
      BY <1>1, <1>4, <1>6, <1>7, <1>12, <2>1, <2>2, <2>3 DEF Keeps
  <1>16. PICK v \in Message : v = Inv /\ v \notin Closing /\ ~ IsData(v)
    BY NothingShown, MessageFit
  <1>17. PICK w : w = Put(wire, d, Peer(e), v)
    OBVIOUS
  <1>18. Within(w, x, c, mode)
    BY <1>1, <1>16, <1>17, PlainFit, PutWithin, PeerIs
  <1>19. PICK r : r = Send(s, e, d, Inv)
    OBVIOUS
  <1>20. r.me = l /\ r.wire = w
    BY <1>11, <1>16, <1>17, <1>19 DEF Send
  <1>21. Holds(r, e, x, c, mode)
    BY <1>15, <1>18, <1>20 DEF Holds
  <1> QED
    BY <1>14, <1>19, <1>21, StepKept

\* tcpaccept() of another connection, whose dialler has not been told to dial a second time.
LEMMA AcceptKept ==
    ASSUME DoublingInv, NEW x \in End, NEW c \in Conn, NEW mode, KeptIn(x, c, mode),
           NEW e \in End, Accept(e)
    PROVE  KeptIn(x, c, mode)'
  <1>1. /\ Holds(Here(e), e, x, c, mode) /\ Safe(Here(e), e, {})
        /\ Here(e).me = end[e] /\ Here(e).wire = wire /\ Here(e) = [me |-> end[e], wire |-> wire]
        /\ end[e] \in Knowledge /\ wire \in Wires /\ Keeps(end[e], e, x, c, mode)
        /\ c[1] = x
    BY KeptHere DEF KeptIn
  <1>2. PICK p \in End : p = Peer(e) /\ p # e /\ Peer(p) = e /\ End = {e, p}
    BY PeerIs
  <1>3. PICK q \in Seq(Conn) : q = backlog[e] /\ q # <<>>
    BY HereKnown DEF Accept
  <1>4. PICK h \in Conn : h = Head(q) /\ h = q[1] /\ 1 \in DOMAIN q
    BY <1>3
  <1>5. Numbered(p, end[p], end[e], q, wire) /\ end[p] \in Knowledge
    BY <1>2, <1>3, HereKnown DEF Known, Dialled
  <1>6. h[1] = p /\ h[2] <= end[p].dials /\ h # end[e].in.conn /\ h[2] \in 1 .. MaxDial
    BY <1>4, <1>5 DEF Numbered, Conn
  <1>7. h # c
    BY <1>1, <1>2, <1>6 DEF Keeps
  <1>8. CASE HasIn(Here(e))
    <2>1. mode \in {"asked", "dialled"} => e # x
      <3> SUFFICES ASSUME mode \in {"asked", "dialled"}, e = x PROVE FALSE
        OBVIOUS
      <3>1. Keeps(end[p], p, x, c, mode) /\ p # x
        BY <1>2 DEF KeptIn
      <3>2. end[p].dials \in 0 .. 1
        BY <1>5, <3>1 DEF Keeps, Knowledge
      <3>3. end[e].in.flag # "IDDL" /\ end[e].in.flag # "WAIT" /\ end[e].in \in Socket
        BY <1>1, <1>5, <1>8 DEF HasIn, Numbered, Knowledge
      <3>4. PICK b \in Conn : b = end[e].in.conn
        BY <3>3 DEF Socket
      <3>5. b[1] = p /\ b[2] <= end[p].dials /\ b[2] \in 1 .. MaxDial
        BY <1>5, <3>4, SomeConn DEF Numbered, Conn
      <3>6. b[2] = 1 /\ h[2] = 1
        BY <1>6, <3>2, <3>5, BoundsAssumption
      <3>7. b = h
        BY <1>6, <3>5, <3>6 DEF Conn
      <3> QED
        BY <1>6, <3>4, <3>7
    <2>2. mode \in {"asked", "dialled"} => h[1] # Peer(x)
      BY <1>2, <1>6, <2>1
    <2>3. PICK k \in Message : k = Junk /\ k \notin Closing /\ ~ IsData(k)
      BY NothingShown, MessageFit
    <2>4. PICK j : j = Send(Here(e), e, h, k)
      OBVIOUS
    <2>5. Holds(j, e, x, c, mode) /\ Safe(j, e, {}) /\ j.me = end[e]
      BY <1>1, <2>3, <2>4, PlainFit, SendHolds
    <2>6. PICK w : w = CloseBy(j.wire, h, e)
      OBVIOUS
    <2>7. Within(w, x, c, mode)
      BY <1>7, <2>2, <2>5, <2>6, CloseWithin, ClosingFit, MessageFit, SafeHas DEF Holds
    <2>8. PICK r : r = [me |-> end[e], wire |-> w]
      OBVIOUS
    <2>9. Becomes(e, r)
      BY <1>3, <1>4, <1>8, <2>3, <2>4, <2>6, <2>8 DEF Accept
    <2>10. Holds(r, e, x, c, mode)
      BY <1>1, <2>7, <2>8 DEF Holds
    <2> QED
      BY <2>9, <2>10, StepKept
  <1>9. CASE ~ HasIn(Here(e))
    <2>1. e = x
      BY <1>1, <1>9 DEF HasIn, Keeps
    <2>2. HasOut(Here(e))
      <3>1. end[e].out \in Socket /\ end[e].out.conn = c
        BY <1>1, <2>1 DEF Knowledge, Keeps
      <3> QED
        BY <1>1, <3>1, SomeConn DEF HasOut, Socket
    <2>3. PICK i : i = [flag |-> "READY", conn |-> h]
      OBVIOUS
    <2>4. PICK r : r = [Here(e) EXCEPT !.me.in = [flag |-> "READY", conn |-> h]]
      OBVIOUS
    <2>5. PICK l : l = [end[e] EXCEPT !.in = i]
      OBVIOUS
    <2>6. r.me = l /\ r.wire = wire
      BY <1>1, <2>3, <2>4, <2>5
    <2>7. /\ l.out = end[e].out /\ l.in = i /\ l.dials = end[e].dials
          /\ l.crp_state = end[e].crp_state /\ l.rc_cnt = end[e].rc_cnt
      BY <1>1, <2>5 DEF Knowledge
    <2>8. Keeps(l, e, x, c, mode)
      BY <1>1, <1>7, <2>1, <2>3, <2>7 DEF Keeps
    <2>9. Becomes(e, r)
      BY <1>3, <1>4, <1>9, <2>2, <2>4 DEF Accept
    <2>10. Holds(r, e, x, c, mode)
      BY <1>1, <2>6, <2>8 DEF Holds
    <2> QED
      BY <2>9, <2>10, StepKept
  <1> QED
    BY <1>8, <1>9

\* Before the counters reach that of the last SYN none says that the call is over.
LEMMA SynBelow ==
    ASSUME DoublingInv, Called, Lasting, NEW e \in End, NEW d \in Conn, wire[d][e] # <<>>,
           NEW m, m = Head(wire[d][e])
    PROVE  IsSyn(m) => m.n < FinCtr /\ end[e].in_ctr < FinCtr
  <1>1. PICK p \in End : p = Peer(e)
    BY PeerIs
  <1>2. Sound(Here(e), e, end[p])
    BY <1>1 DEF DoublingInv, CountersInv
  <1>3. /\ end[p].out_ctr < FinCtr /\ end[e].in_ctr + Step < FinCtr
        /\ end[p] \in Knowledge /\ end[e] \in Knowledge /\ FinCtr \in Nat /\ Step \in Nat
    BY <1>1, HereKnown, ResyncAssumption DEF Lasting, FinCtr
  <1>4. Here(e).me = end[e] /\ Here(e).wire = wire /\ wire \in Wires
    BY HereKnown
  <1>5. PICK q \in Seq(Message) : q = wire[d][e] /\ q # <<>>
    BY <1>4 DEF Wires
  <1>6. Shows(q, end[p].out_ctr)
    BY <1>2, <1>4, <1>5 DEF Sound
  <1>7. UpTo(m, end[p].out_ctr) /\ m \in Message
    BY <1>5, <1>6, ShowsTail
  <1>8. IsSyn(m) => m.n \in Nat /\ m.n <= end[p].out_ctr
    BY <1>7, MessageHas DEF UpTo
  <1>9. end[p].out_ctr \in Nat /\ end[e].in_ctr \in Nat
    BY <1>3 DEF Knowledge
  <1> QED
    BY <1>3, <1>8, <1>9

\* Either end in the situation in which the first message of one connection is taken.  When
\* the request is read, or another message in its place, there is none any more.
LEMMA TakenHolds ==
    ASSUME DoublingInv, NEW x \in End, NEW c \in Conn, NEW mode, KeptIn(x, c, mode),
           NEW e \in End, NEW d \in Conn, wire[d][e] # <<>>
    PROVE  LET s == [Here(e) EXCEPT !.wire[d][e] = Tail(@)]
               m == Head(wire[d][e])
           IN  /\ Safe(s, e, {}) /\ s.me = end[e] /\ m \in Message
               /\ Fit(x, c, mode, d, e, 1, m) /\ Holds(s, e, x, c, mode)
               /\ mode = "asked" /\ d = c /\ e = Peer(x) => Holds(s, e, x, c, "dialled")
  <1>1. PICK s, m : s = [Here(e) EXCEPT !.wire[d][e] = Tail(@)] /\ m = Head(wire[d][e])
    OBVIOUS
  <1>2. Safe(s, e, {}) /\ s.me = end[e] /\ m \in Message
    BY <1>1, TakenAlike
  <1>3. wire \in Wires /\ Here(e) = [me |-> end[e], wire |-> wire]
    BY HereKnown
  <1>4. PICK q \in Seq(Message) : q = wire[d][e] /\ q # <<>>
    BY <1>3 DEF Wires
  <1>5. Tail(q) \in Seq(Message)
    BY <1>4
  <1>6. PICK p \in Seq(Message) : p = Tail(q)
    BY <1>5
  <1>7. s.wire = [wire EXCEPT ![d][e] = p]
    BY <1>1, <1>3, <1>4, <1>6
  <1>8. PICK v : v = s.wire
    OBVIOUS
  <1>9. Replaced(wire, v, d, e, p)
    BY <1>3, <1>7, <1>8, WireReplaced
  <1>10. \A i \in DOMAIN p : i \in Int /\ i > 0 /\ i + 1 \in DOMAIN q /\ p[i] = q[i + 1]
    BY <1>4, <1>6
  <1>11. 1 \in DOMAIN q /\ m = q[1]
    BY <1>1, <1>4
  <1>12. Within(wire, x, c, mode) /\ Keeps(end[e], e, x, c, mode)
    BY DEF KeptIn
  <1>13. \A i \in DOMAIN q : Fit(x, c, mode, d, e, i, q[i])
    BY <1>4, <1>12 DEF Within
  <1>14. ASSUME NEW next,
                next = mode \/ (mode = "asked" /\ next = "dialled" /\ d = c /\ e = Peer(x)),
                NEW b \in Conn, NEW g \in End, NEW i \in DOMAIN v[b][g]
         PROVE  Fit(x, c, next, b, g, i, v[b][g][i])
    <2>1. CASE b = d /\ g = e
      <3>1. v[b][g] = p
        BY <1>9, <2>1 DEF Replaced
      <3>2. i \in Int /\ i > 0 /\ v[b][g][i] = q[i + 1] /\ Fit(x, c, mode, d, e, i + 1, q[i + 1])
        BY <1>10, <1>13, <3>1
      <3> QED
        BY <1>14, <2>1, <3>2 DEF Fit
    <2>2. CASE ~(b = d /\ g = e)
      <3>1. v[b][g] = wire[b][g]
        BY <1>9, <2>2 DEF Replaced
      <3>2. Fit(x, c, mode, b, g, i, v[b][g][i])
        BY <1>12, <3>1 DEF Within
      <3> QED
        BY <1>14, <2>2, <3>2 DEF Fit
    <2> QED
      BY <2>1, <2>2
  <1>15. Within(v, x, c, mode)
    BY <1>14 DEF Within
  <1>16. mode = "asked" /\ d = c /\ e = Peer(x) => Within(v, x, c, "dialled")
    BY <1>14 DEF Within
  <1>17. mode = "asked" /\ e = Peer(x) => Keeps(end[e], e, x, c, "dialled")
    BY <1>12, PeerIs DEF Keeps, Idle
  <1> QED
    BY <1>1, <1>2, <1>8, <1>11, <1>12, <1>13, <1>15, <1>16, <1>17 DEF Holds

\* readtcpout() of the first packet.
LEMMA FromOutKept ==
    ASSUME DoublingInv, Lasting, NEW x \in End, NEW c \in Conn, NEW mode, KeptIn(x, c, mode),
           NEW e \in End, FromOut(e)
    PROVE  KeptIn(x, c, mode)'
  <1>1. PICK d : d = end[e].out.conn
    OBVIOUS
  <1>2. /\ end[e] \in Knowledge /\ Called /\ Keeps(end[e], e, x, c, mode)
        /\ wire \in Wires /\ Within(wire, x, c, mode)
    BY KeptHere DEF KeptIn
  <1>3. d \in Conn /\ wire[d][e] # <<>> /\ end[e].out.flag \in {"READY", "INUSE"}
    BY <1>1, <1>2 DEF FromOut, Socket, Knowledge
  <1>4. PICK s, m : s = [Here(e) EXCEPT !.wire[d][e] = Tail(@)] /\ m = Head(wire[d][e])
    OBVIOUS
  <1>5. /\ Holds(s, e, x, c, mode) /\ Safe(s, e, {}) /\ s.me = end[e]
        /\ Fit(x, c, mode, d, e, 1, m) /\ m \in Message
    BY <1>3, <1>4, TakenHolds
  <1>6. Becomes(e, ReadOut(s, e, m))
    BY <1>1, <1>4 DEF FromOut
  <1>7. IsSyn(m) => m.n < FinCtr /\ s.me.in_ctr < FinCtr
    BY <1>2, <1>3, <1>4, <1>5, SynBelow
  <1>8. ASSUME e # x
        PROVE  d[1] = e /\ mode # "asked" /\ (m = Inv => mode # "dialled")
    <2>1. PICK p \in End : p = Peer(e) /\ p # e /\ Peer(p) = e /\ End = {e, p}
      BY PeerIs
    <2>2. p = x /\ e = Peer(x)
      BY <1>8, <2>1
    <2>3. Dialled(e, end[e], end[x], backlog[x], wire)
      BY <2>1, <2>2, HereKnown DEF Known
    <2>4. d[1] = e
      BY <1>1, <1>3, <2>3, SomeConn DEF Dialled, Numbered
    <2>5. mode # "asked"
      BY <1>2, <1>3, <1>8 DEF Keeps, Idle
    <2>6. ASSUME m = Inv, mode = "dialled" PROVE FALSE
      <3>1. ASSUME NEW g \in End PROVE ~ Shut(wire[d][g])
        <4>1. PICK q \in Seq(Message) : q = wire[d][g]
          BY <1>2, <1>3 DEF Wires
        <4>2. \A i \in DOMAIN q : q[i] # Eof
          BY <1>2, <1>3, <2>2, <2>4, <2>6, <4>1, MessageFit DEF Within, Fit
        <4>3. q # <<>> => Last(q) = q[Len(q)] /\ Len(q) \in DOMAIN q
          BY <4>1 DEF Last
        <4> QED
          BY <4>1, <4>2, <4>3 DEF Shut
      <3>2. end[x].in.conn = d \/ d \in Range(backlog[x])
        BY <1>1, <1>3, <2>3, <3>1 DEF Dialled, Linked
      <3>3. Keeps(end[x], x, x, c, mode) /\ end[x] \in Knowledge
        BY <2>1, <2>2, HereKnown DEF KeptIn
      <3>4. end[x].in.flag \notin {"INUSE", "WAIT"} /\ end[x].in \in Socket
        BY <2>3, <2>6, <3>3 DEF Keeps, Knowledge, Dialled, Numbered
      <3>5. end[x].in = [flag |-> "READY", conn |-> d] \/ d \in Range(backlog[x])
        BY <1>3, <3>2, <3>4, SomeConn DEF Socket
      <3>6. end[e].crp_state > 2 /\ end[x].crp_state > 2
        BY <1>2, <3>3 DEF Keeps
      <3>7. Inv \notin Range(wire[d][e])
        BY <1>1, <1>3, <2>1, <2>2, <2>3, <3>1, <3>5, <3>6 DEF Dialled, Invited
      <3> QED
        BY <1>3, <1>4, <2>6, <3>7, TakenAlike
    <2> QED
      BY <2>4, <2>5, <2>6
  <1>9. Holds(ReadOut(s, e, m), e, x, c, mode)
    BY <1>1, <1>5, <1>7, <1>8, ReadOutHolds
  <1> QED
    BY <1>6, <1>9, StepKept

\* What may be on the wires while the partner dials does no harm to his connection either.
LEMMA WithinTurned ==
    ASSUME NEW w, NEW x \in End, NEW c, NEW d \in Conn, d[1] = Peer(x), Within(w, x, c, "dialled")
    PROVE  Within(w, Peer(x), d, "kept")
  BY PeerIs DEF Within, Fit

\* x reads the invite of its partner and answers it: from now on the partner's connection is
\* the one that is kept.
LEMMA SwitchKept ==
    ASSUME DoublingInv, NEW x \in End, NEW c \in Conn, NEW mode \in {"asked", "dialled"},
           KeptIn(x, c, mode), Alone(x, mode), NEW d \in Conn, d = end[x].in.conn,
           end[x].in.flag = "READY",
           NEW s, Holds(s, x, x, c, mode), Safe(s, x, {}), s.me = end[x],
           Becomes(x, ReadIn(s, x, Inv))
    PROVE  KeptIn(Peer(x), <<Peer(x), 1>>, "kept")'
  <1>1. PICK p \in End : p = Peer(x) /\ p # x /\ Peer(p) = x /\ End = {x, p}
    BY PeerIs
  <1>2. s \in Situation
    BY SafeHas
  <1>3. /\ end[x] \in Knowledge /\ Keeps(end[x], x, x, c, mode)
        /\ wire \in Wires /\ Within(wire, x, c, mode) /\ c[1] = x
    BY KeptHere DEF KeptIn
  <1>4. Dialled(p, end[p], end[x], backlog[x], wire)
    BY <1>1, HereKnown DEF Known
  <1>5. d[1] = p
    BY <1>4, SomeConn DEF Dialled, Numbered
  <1>6. ~ Shut(wire[d][x])
    <2>1. PICK q \in Seq(Message) : q = wire[d][x]
      BY <1>3 DEF Wires
    <2>2. \A i \in DOMAIN q : q[i] # Eof
      BY <1>1, <1>3, <1>5, <2>1, MessageFit DEF Within, Fit
    <2>3. q # <<>> => Last(q) = q[Len(q)] /\ Len(q) \in DOMAIN q
      BY <2>1 DEF Last
    <2> QED
      BY <2>1, <2>2, <2>3 DEF Shut
  <1>7. end[p].out.conn = d
    BY <1>1, <1>4, <1>6 DEF Dialled, Linked
  <1>8. Keeps(end[p], p, x, c, mode)
    BY DEF KeptIn
  <1>9. mode = "dialled" /\ d = <<p, 1>>
    BY <1>1, <1>7, <1>8, SomeConn DEF Keeps, Idle
  <1>10. Keeps(end[p], p, p, d, "kept")
    <2>1. Level[p] > 0
      BY <1>1 DEF Alone
    <2>2. end[p].in.conn = c
      BY <1>1, <1>8 DEF Keeps
    <2>3. c # d
      BY <1>1, <1>3, <1>5
    <2> QED
      BY <1>1, <1>7, <1>8, <2>1, <2>2, <2>3 DEF Keeps
  <1>11. PICK k \in Message : k = Inv /\ k \notin Closing /\ ~ IsData(k)
    BY NothingShown, MessageFit
  <1>12. PICK a : a = Send(s, x, d, k)
    OBVIOUS
  <1>13. Holds(a, x, x, c, "dialled") /\ Safe(a, x, {}) /\ a.me = end[x]
    BY <1>2, <1>9, <1>11, <1>12, PlainFit, SendHolds
  <1>14. PICK r : r = [a EXCEPT !.me.in.flag = "INUSE"]
    OBVIOUS
  <1>15. PICK i : i = [end[x].in EXCEPT !.flag = "INUSE"]
    OBVIOUS
  <1>16. i = [flag |-> "INUSE", conn |-> d]
    BY <1>3, <1>15 DEF Knowledge, Socket
  <1>17. PICK l : l = [end[x] EXCEPT !.in = i]
    OBVIOUS
  <1>18. r.me = l /\ r.wire = a.wire
    BY <1>13, <1>14, <1>15, <1>17, SafeHas DEF Situation
  <1>19. l.in = i /\ l.out = end[x].out /\ l.crp_state = end[x].crp_state
    BY <1>3, <1>17 DEF Knowledge
  <1>20. Keeps(l, x, p, d, "kept")
    BY <1>1, <1>3, <1>5, <1>16, <1>19 DEF Keeps
  <1>21. Within(r.wire, p, d, "kept")
    BY <1>1, <1>5, <1>13, <1>18, WithinTurned DEF Holds
  <1>22. Becomes(x, r)
    <2>1. ReadIn(s, x, Inv) = InvIn(s, x)
      BY <1>2 DEF ReadIn, Inv
    <2>2. Level[x] > 0
      BY DEF Alone
    <2>3. InvIn(s, x) = r
      BY <1>2, <1>11, <1>12, <1>14, <2>2 DEF InvIn
    <2> QED
      BY <2>1, <2>3
  <1>23. end \in [End -> Knowledge]
    BY DEF DoublingInv, CountersInv, TypeOK
  <1>24. end' = [end EXCEPT ![x] = l] /\ wire' = r.wire
    BY <1>18, <1>22 DEF Becomes
  <1>25. end'[x] = l /\ end'[p] = end[p]
    BY <1>1, <1>23, <1>24
  <1>26. \A e \in End : Keeps(end'[e], e, p, d, "kept")
    BY <1>1, <1>10, <1>20, <1>25
  <1>27. KeptIn(p, d, "kept")'
    BY <1>5, <1>21, <1>24, <1>26 DEF KeptIn
  <1> QED
    BY <1>1, <1>9, <1>27

\* After a step of the partners: the situation, or the one that comes after it.
Moved(x, c, mode) ==
    \/ KeptIn(x, c, mode)
    \/ mode = "asked" /\ KeptIn(x, c, "dialled")
    \/ mode \in {"asked", "dialled"} /\ KeptIn(Peer(x), <<Peer(x), 1>>, "kept")

\* readtcpin() of the first packet.
LEMMA FromInKept ==
    ASSUME DoublingInv, Lasting, NEW x \in End, NEW c \in Conn, NEW mode, KeptIn(x, c, mode),
           Alone(x, mode), NEW e \in End, FromIn(e)
    PROVE  Moved(x, c, mode)'
  <1>1. PICK d : d = end[e].in.conn
    OBVIOUS
  <1>2. /\ end[e] \in Knowledge /\ Called /\ Keeps(end[e], e, x, c, mode) /\ c[1] = x
    BY KeptHere DEF KeptIn
  <1>3. d \in Conn /\ wire[d][e] # <<>> /\ end[e].in.flag \in {"READY", "INUSE"}
    BY <1>1, <1>2 DEF FromIn, Socket, Knowledge
  <1>4. PICK s, m : s = [Here(e) EXCEPT !.wire[d][e] = Tail(@)] /\ m = Head(wire[d][e])
    OBVIOUS
  <1>5. /\ Holds(s, e, x, c, mode) /\ Safe(s, e, {}) /\ s.me = end[e]
        /\ Fit(x, c, mode, d, e, 1, m) /\ m \in Message
        /\ mode = "asked" /\ d = c /\ e = Peer(x) => Holds(s, e, x, c, "dialled")
    BY <1>3, <1>4, TakenHolds
  <1>6. Becomes(e, ReadIn(s, e, m))
    BY <1>1, <1>4 DEF FromIn
  <1>7. IsSyn(m) => m.n < FinCtr /\ s.me.in_ctr < FinCtr
    BY <1>2, <1>3, <1>4, <1>5, SynBelow
  <1>8. PICK p \in End : p = Peer(x) /\ p # x /\ Peer(p) = x /\ End = {x, p}
    BY PeerIs
  <1>9. CASE e # x
    <2>1. e = p /\ d = c /\ end[e].in.flag = "INUSE"
      BY <1>1, <1>2, <1>8, <1>9 DEF Keeps
    <2>2. m \notin Closing
      BY <1>5, <2>1 DEF Fit
    <2>3. PICK next : next = IF mode = "asked" THEN "dialled" ELSE mode
      OBVIOUS
    <2>4. Holds(s, e, x, c, next)
      BY <1>5, <1>8, <2>1, <2>3
    <2>5. m.t = "-W" => next # "asked" /\ (next = "dialled" => s.me.out.conn = None)
      <3>1. m.t = "-W" => mode # "dialled"
        BY <1>5, <1>8, <2>1 DEF Fit
      <3>2. mode = "asked" => s.me.out.conn = None
        BY <1>2, <1>5, <1>9 DEF Keeps, Idle
      <3> QED
        BY <2>3, <3>1, <3>2
    <2>6. Holds(ReadIn(s, e, m), e, x, c, next)
      BY <1>1, <1>5, <1>7, <1>9, <2>1, <2>2, <2>4, <2>5, ReadInHolds
    <2>7. KeptIn(x, c, next)'
      BY <1>6, <2>3, <2>6, StepKept
    <2> QED
      BY <2>3, <2>7 DEF Moved
  <1>10. CASE e = x
    <2>1. d[1] = p
      <3>1. Dialled(p, end[p], end[x], backlog[x], wire)
        BY <1>8, HereKnown DEF Known
      <3> QED
        BY <1>1, <1>3, <1>10, <3>1, SomeConn DEF Dialled, Numbered
    <2>2. m \in Closing => mode \notin {"asked", "dialled"}
      BY <1>5, <1>8, <2>1 DEF Fit
    <2>3. m.t # "-W"
      BY <1>5, <1>10 DEF Fit
    <2>4. CASE m = Inv /\ end[e].in.flag = "READY" /\ mode \in {"asked", "dialled"}
      <3>1. KeptIn(Peer(x), <<Peer(x), 1>>, "kept")'
        BY <1>1, <1>3, <1>5, <1>6, <1>10, <2>4, SwitchKept
      <3> QED
        BY <2>4, <3>1 DEF Moved
    <2>5. CASE ~(m = Inv /\ end[e].in.flag = "READY" /\ mode \in {"asked", "dialled"})
      <3>1. m = Inv /\ s.me.in.flag = "READY" =>
                mode = "kept" \/ (mode = "refused" /\ ~(Level[e] > 0))
        BY <1>5, <1>10, <2>5 DEF Alone
      <3>2. Holds(ReadIn(s, e, m), e, x, c, mode)
        BY <1>1, <1>5, <1>7, <1>10, <2>2, <2>3, <3>1, ReadInHolds
      <3>3. KeptIn(x, c, mode)'
        BY <1>6, <3>2, StepKept
      <3> QED
        BY <3>3 DEF Moved
    <2> QED
      BY <2>4, <2>5
  <1> QED
    BY <1>9, <1>10

\* Every step but a command or the breaking of a connection.
LEMMA NextKept ==
    ASSUME DoublingInv, Lasting, NEW x \in End, NEW c \in Conn, NEW mode, KeptIn(x, c, mode),
           Alone(x, mode), [Next]_vars, Undisturbed'
    PROVE  Moved(x, c, mode)'
  <1>1. upsets \in Seq({"command", "break"}) /\ Called
    BY KeptHere DEF DoublingInv, CountersInv, TypeOK
  <1>2. \A u \in {"command", "break"} : Append(upsets, u) # <<>>
    BY <1>1
  <1>3. ASSUME NEW e \in End, User(e) PROVE KeptIn(x, c, mode)'
    BY <1>2, <1>3, VoiceKept, PeerIs DEF User, Hangup, ResetDbl, InitDbl, Undisturbed
  <1>4. ASSUME NEW b \in Conn, Break(b) PROVE FALSE
    BY <1>2, <1>4 DEF Break, Undisturbed
  <1>5. ASSUME NEW e \in End, Program(e), ~ FromIn(e) PROVE KeptIn(x, c, mode)'
    <2>1. ~ Timeout(e)
      BY <1>1 DEF Timeout, Called
    <2> QED
      BY <1>5, <2>1, RestoreKept, MeasureKept, FromOutKept, AcceptKept, ConnectedKept, NotConnectedKept
      DEF Program
  <1>6. ASSUME NEW e \in End, FromIn(e) PROVE Moved(x, c, mode)'
    BY <1>6, FromInKept
  <1>7. CASE UNCHANGED vars
    BY <1>7, StutterKept DEF Moved
  <1> QED
    BY <1>3, <1>4, <1>5, <1>6, <1>7 DEF Next, Moved

-----------------------------------------------------------------------------
(* One connection is kept: the theorems.                                   *)

\* Which connection is kept when y finds none slow: the partner's, unless only y looks for
\* slow ones; then y's own, until the partner's is in use in both directions.
Chosen(x, mode, y) ==
    \/ mode = "kept" /\ (Peer(x) = y \/ ~(Level[Peer(x)] > 0))
    \/ /\ x = y /\ Level[Peer(x)] > 0
       /\ \/ mode = "refused" /\ ~(Level[x] > 0)
          \/ mode \in {"asked", "dialled"} /\ Level[x] > 0

OneKept(y) ==
    Undisturbed => \E x \in End, c \in Conn, mode \in {"kept", "refused", "asked", "dialled"} :
                      KeptIn(x, c, mode) /\ Chosen(x, mode, y)

\* The first connection of the call.
LEMMA InitKept ==
    ASSUME Init, NEW mode \in {"kept", "refused", "asked"}
    PROVE  KeptIn(Alice, First, mode)
  <1>1. First \in Conn /\ First[1] = Alice /\ Alice \in End /\ Bob \in End /\ Alice # Bob
        /\ Peer(Alice) = Bob /\ End = {Alice, Bob}
    <2>1. Alice \in End /\ Bob \in End /\ Alice # Bob /\ End = {Alice, Bob}
      BY EndsAssumption DEF End
    <2> QED
      BY <2>1, PeerIs, BoundsAssumption DEF First, Conn
  <1>2. /\ end[Alice].out = [flag |-> "INUSE", conn |-> First] /\ end[Alice].in = Idle
        /\ end[Alice].crp_state = 3
        /\ end[Bob].in = [flag |-> "INUSE", conn |-> First] /\ end[Bob].out = Idle
        /\ end[Bob].crp_state = 4 /\ end[Bob].dials = 0 /\ end[Bob].rc_cnt = 0
    BY <1>1 DEF Init
  <1>3. First # None
    BY <1>1, SomeConn
  <1>4. \A e \in End : Keeps(end[e], e, Alice, First, mode)
    BY <1>1, <1>2, <1>3 DEF Keeps, Idle
  <1>5. PICK m : m = Packet("-W", 0)
    OBVIOUS
  <1>6. m \notin Closing /\ m.t = "-W"
    BY <1>5, MessageFit DEF Packet
  <1>7. \A d \in Conn, g \in End :
           wire[d][g] = <<>> \/ (d = First /\ g = Bob /\ wire[d][g] = <<m>>)
    BY <1>5 DEF Init
  <1>8. Within(wire, Alice, First, mode)
    <2> SUFFICES ASSUME NEW d \in Conn, NEW g \in End, NEW i \in DOMAIN wire[d][g]
                 PROVE  Fit(Alice, First, mode, d, g, i, wire[d][g][i])
      BY DEF Within
    <2>1. d = First /\ g = Bob /\ i = 1 /\ wire[d][g][i] = m
      BY <1>7
    <2> QED
      BY <1>1, <1>6, <2>1 DEF Fit
  <1> QED
    BY <1>1, <1>4, <1>8 DEF KeptIn

\* At the beginning there is one that is kept.
LEMMA InitOneKept ==
    ASSUME Init, NEW y \in End
    PROVE  OneKept(y)
  <1>1. First \in Conn /\ Alice \in End /\ Peer(Alice) = Bob /\ End = {Alice, Bob}
    <2>1. Alice \in End /\ Bob \in End /\ Alice # Bob /\ End = {Alice, Bob}
      BY EndsAssumption DEF End
    <2> QED
      BY <2>1, PeerIs, BoundsAssumption DEF First, Conn
  <1>2. PICK mode \in {"kept", "refused", "asked"} : Chosen(Alice, mode, y)
    BY <1>1 DEF Chosen
  <1>3. KeptIn(Alice, First, mode)
    BY <1>2, InitKept
  <1> QED
    BY <1>1, <1>2, <1>3 DEF OneKept

\* A step leaves one that is kept, though it may be another one.
LEMMA NextOneKept ==
    ASSUME DoublingInv, Lasting, NEW y \in End, ~ InSlow(y), OneKept(y), [Next]_vars
    PROVE  OneKept(y)'
  <1> SUFFICES ASSUME Undisturbed'
               PROVE  \E x \in End, c \in Conn, mode \in {"kept", "refused", "asked", "dialled"} :
                         KeptIn(x, c, mode)' /\ Chosen(x, mode, y)
    BY DEF OneKept, Chosen
  <1>1. Undisturbed
    <2>1. upsets \in Seq({"command", "break"})
      BY DEF DoublingInv, CountersInv, TypeOK
    <2>2. \A u \in {"command", "break"} : Append(upsets, u) # <<>>
      BY <2>1
    <2> QED
      BY <2>2, PeerIs DEF Next, User, Program, Undisturbed, vars, Voice, Hangup, ResetDbl, InitDbl,
         Restore, Measure, FromOut, FromIn, Accept, Timeout, Connected, NotConnected, Break
  <1>2. PICK x \in End, c \in Conn, mode \in {"kept", "refused", "asked", "dialled"} :
            KeptIn(x, c, mode) /\ Chosen(x, mode, y)
    BY <1>1 DEF OneKept
  <1>3. PICK p \in End : p = Peer(x) /\ p # x /\ Peer(p) = x /\ End = {x, p}
    BY PeerIs
  <1>4. Alone(x, mode)
    BY <1>2 DEF Chosen, Alone, InSlow
  <1>5. Moved(x, c, mode)'
    BY <1>2, <1>4, NextKept
  <1>6. CASE KeptIn(x, c, mode)'
    BY <1>2, <1>6
  <1>7. CASE mode = "asked" /\ KeptIn(x, c, "dialled")'
    <2>1. Chosen(x, "dialled", y)
      BY <1>2, <1>7 DEF Chosen
    <2> QED
      BY <1>7, <2>1
  <1>8. CASE mode \in {"asked", "dialled"} /\ KeptIn(p, <<p, 1>>, "kept")'
    <2>1. Chosen(p, "kept", y)
      BY <1>2, <1>3, <1>8 DEF Chosen
    <2>2. <<p, 1>> \in Conn
      BY BoundsAssumption DEF Conn
    <2> QED
      BY <1>8, <2>1, <2>2
  <1> QED
    BY <1>3, <1>5, <1>6, <1>7, <1>8 DEF Moved

\* The connection that is kept is held by both ends, who are in the call.
LEMMA OneHeld ==
    ASSUME DoublingInv, NEW y, OneKept(y), Undisturbed
    PROVE  Called /\ Held # {}
  <1>1. PICK x \in End, c \in Conn, mode \in {"kept", "refused", "asked", "dialled"} :
            KeptIn(x, c, mode)
    BY DEF OneKept
  <1>2. Called /\ wire \in Wires
    BY <1>1, KeptHere
  <1>3. \A e \in End : c \in Sockets(e)
    <2> TAKE e \in End
    <2>1. Keeps(end[e], e, x, c, mode) /\ c # None
      BY <1>1, SomeConn DEF KeptIn
    <2>2. end[e].out.conn = c \/ end[e].in.conn = c
      BY <2>1 DEF Keeps
    <2> QED
      BY <2>1, <2>2 DEF Sockets
  <1>4. ASSUME NEW g \in End PROVE ~ Shut(wire[c][g])
    <2>1. PICK q \in Seq(Message) : q = wire[c][g]
      BY <1>2 DEF Wires
    <2>2. \A i \in DOMAIN q : q[i] # Eof
      BY <1>1, <2>1, MessageFit DEF KeptIn, Within, Fit
    <2>3. q # <<>> => Last(q) = q[Len(q)] /\ Len(q) \in DOMAIN q
      BY <2>1 DEF Last
    <2> QED
      BY <2>1, <2>2, <2>3 DEF Shut
  <1>5. c \in Held
    BY <1>3, <1>4 DEF Held, End
  <1> QED
    BY <1>2, <1>5

\* As long as one end never finds its incoming connection slow.
LEMMA AlwaysOneKept ==
    ASSUME NEW y \in End
    PROVE  Spec /\ []Lasting /\ []~InSlow(y) => []OneKept(y)
  <1>1. Init => OneKept(y)
    BY InitOneKept
  <1>2. DoublingInv /\ Lasting /\ ~ InSlow(y) /\ OneKept(y) /\ [Next]_vars => OneKept(y)'
    BY NextOneKept
  <1> QED
    BY <1>1, <1>2, AlwaysDoubling, PTL DEF Spec

\* The slower connection is replaced while the other one is kept, as long as it is always the
\* same end that looks for slow connections (do_read, reconecttor): at no moment are both closed.
\* The counters stay below that of the last SYN, also if they are moved blindly once more.
THEOREM KeepsOneHolds ==
    ASSUME NEW y \in End
    PROVE  Spec /\ []Lasting /\ []~InSlow(y) => []KeepsOne
  <1>1. DoublingInv /\ OneKept(y) => KeepsOne
    BY OneHeld DEF KeepsOne
  <1> QED
    BY <1>1, AlwaysOneKept, AlwaysDoubling, PTL

\* Under the same conditions no end leaves a call that nothing disturbs (sock_close, do_req).
THEOREM StaysHolds ==
    ASSUME NEW y \in End
    PROVE  Spec /\ []Lasting /\ []~InSlow(y) => Stays
  <1>1. DoublingInv /\ OneKept(y) => (Undisturbed => Called)
    BY OneHeld
  <1>2. (Undisturbed => Called)' =>
            [\A e \in End : InCall(e) /\ ~ InCall(e)' => ~ Undisturbed' \/ Told(e)]_vars
    BY DEF Called
  <1> QED
    BY <1>1, <1>2, AlwaysOneKept, AlwaysDoubling, PTL DEF Stays
=============================================================================
