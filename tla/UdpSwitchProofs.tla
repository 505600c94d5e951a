-------------------------- MODULE UdpSwitchProofs --------------------------
(***************************************************************************)
(* Theorems about UdpSwitch, for any number of SYNs, commands, packets and *)
(* errors: whoever stops takes the other along, whoever sends over Tor is  *)
(* heard, and two ends that meet on UDP send to each other.                *)
(***************************************************************************)
EXTENDS UdpSwitch, SequenceTheorems, TLAPS

\* The two ends are each other's peers.
LEMMA TwoEnds ==
    ASSUME NEW e \in Ends
    PROVE  /\ Peer(e) \in Ends /\ Peer(e) # e /\ Ends = {e, Peer(e)}
           /\ Peer(Peer(e)) = e
  <1>1. PICK a, b \in Ends : a # b /\ Ends = {a, b}
    BY EndsAssumption
  <1>2. \A f \in Ends : \E p \in Ends : p # f
    BY <1>1
  <1>3. \A f \in Ends : Peer(f) \in Ends /\ Peer(f) # f
    BY <1>2 DEF Peer
  <1> QED
    BY <1>1, <1>3

-----------------------------------------------------------------------------
(* What comes over Tor.                                                    *)

\* What every message has.
LEMMA MessageHas ==
    ASSUME NEW m \in Message
    PROVE  /\ m.n \in Nat /\ m.t \in {"voice", "-O", "-U", "-S", "syn"}
           /\ m.t \in {"-U", "-S"} => m.sock \in 1 .. MaxStart
           /\ m.t = "syn" => m.ask \in BOOLEAN
  BY DEF Message

\* The messages that are sent.
LEMMA MessageMade ==
    ASSUME NEW n \in Nat
    PROVE  /\ Packet("voice", n, 0) \in Message /\ Packet("-O", n, 0) \in Message
           /\ \A s \in 1 .. MaxStart, t \in {"-U", "-S"} : Packet(t, n, s) \in Message
           /\ \A ask \in BOOLEAN : Syn(n, ask) \in Message
           /\ \A t, s : Packet(t, n, s).t = t /\ Packet(t, n, s).n = n
           /\ \A ask : Syn(n, ask).t = "syn" /\ Syn(n, ask).n = n /\ Syn(n, ask).ask = ask
  BY DEF Message, Packet, Syn

\* The message that shows no counter.
LEMMA NothingShown ==
    \E m \in Message : m.t = "syn" /\ \A o \in Nat : UpTo(m, o)
  <1>1. Syn(0, FALSE) \in Message /\ Syn(0, FALSE).t = "syn" /\ Syn(0, FALSE).n = 0
    BY MessageMade
  <1>2. PICK m \in Message : m.t = "syn" /\ m.n = 0
    BY <1>1
  <1>3. \A o \in Nat : UpTo(m, o)
    BY <1>2 DEF UpTo
  <1> QED
    BY <1>2, <1>3

\* The first message and those after it.
LEMMA Popped ==
    ASSUME NEW q \in Seq(Message), q # <<>>
    PROVE  /\ Head(q) \in Message /\ Head(q) = q[1] /\ Len(q) \in Nat \ {0}
           /\ Tail(q) \in Seq(Message) /\ Len(Tail(q)) = Len(q) - 1
           /\ \A k \in 1 .. Len(q) - 1 : Tail(q)[k] = q[k + 1]
  OBVIOUS

\* A message after the others.
LEMMA Pushed ==
    ASSUME NEW q \in Seq(Message), NEW m \in Message
    PROVE  /\ Append(q, m) \in Seq(Message) /\ Len(q) \in Nat
           /\ Len(Append(q, m)) = Len(q) + 1 /\ Append(q, m)[Len(q) + 1] = m
           /\ \A k \in 1 .. Len(q) : Append(q, m)[k] = q[k] /\ q[k] \in Message
           /\ q \o <<m>> = Append(q, m) /\ q \o <<>> = q
  OBVIOUS

\* Two messages after the others.
LEMMA PushedTwice ==
    ASSUME NEW q \in Seq(Message), NEW m \in Message, NEW l \in Message
    PROVE  q \o <<m, l>> = Append(Append(q, m), l)
  OBVIOUS

\* The next packet is brought, too.
LEMMA BringsPacket ==
    ASSUME NEW q \in Seq(Message), NEW i \in Nat, NEW n \in Nat, Brings(q, i, n),
           NEW m \in Message, m.t # "syn", m.n = n
    PROVE  Brings(Append(q, m), i, n + 1)
  <1>1. PICK j \in 0 .. Len(q) :
          /\ \A k \in j + 1 .. Len(q) : q[k].t # "syn" /\ q[k].n + (Len(q) + 1 - k) = n
          /\ IF j = 0 THEN i + Len(q) >= n ELSE q[j].t = "syn" /\ q[j].n + (Len(q) - j) = n
    BY DEF Brings
  <1>2. PICK r \in Seq(Message) : r = Append(q, m)
    BY Pushed
  <1>3. /\ Len(q) \in Nat /\ Len(r) = Len(q) + 1 /\ r[Len(q) + 1] = m
        /\ \A k \in 1 .. Len(q) : r[k] = q[k] /\ q[k].n \in Nat
    BY <1>2, Pushed, MessageHas
  <1>4. ASSUME NEW k \in j + 1 .. Len(r)
        PROVE  r[k].t # "syn" /\ r[k].n + (Len(r) + 1 - k) = n + 1
    <2>1. CASE k = Len(q) + 1
      BY <1>3, <2>1
    <2>2. CASE k # Len(q) + 1
      <3>1. k \in j + 1 .. Len(q) /\ k \in 1 .. Len(q)
        BY <1>3, <1>4, <2>2
      <3>2. q[k].t # "syn" /\ q[k].n + (Len(q) + 1 - k) = n
        BY <1>1, <3>1
      <3>3. r[k] = q[k] /\ q[k].n \in Nat
        BY <1>3, <3>1
      <3>4. PICK a \in Nat, l \in Nat : a = q[k].n /\ l = Len(q)
        BY <1>3, <3>3
      <3>5. a + (l + 1 - k) = n /\ Len(r) = l + 1
        BY <1>3, <3>2, <3>4
      <3>6. a + (l + 1 + 1 - k) = n + 1
        BY <3>1, <3>5
      <3> QED
        BY <3>2, <3>3, <3>4, <3>5, <3>6
    <2> QED
      BY <2>1, <2>2
  <1>5. IF j = 0 THEN i + Len(r) >= n + 1 ELSE r[j].t = "syn" /\ r[j].n + (Len(r) - j) = n + 1
    <2>1. CASE j = 0
      BY <1>1, <1>3, <2>1
    <2>2. CASE j # 0
      <3>1. j \in 1 .. Len(q) /\ q[j].t = "syn" /\ q[j].n + (Len(q) - j) = n
        BY <1>1, <1>3, <2>2
      <3>2. r[j] = q[j] /\ q[j].n \in Nat
        BY <1>3, <3>1
      <3>3. q[j].n + (Len(r) - j) = n + 1
        <4>1. PICK a \in Nat, l \in Nat : a = q[j].n /\ l = Len(q)
          BY <1>3, <3>2
        <4>2. a + (l - j) = n /\ Len(r) = l + 1
          BY <1>3, <3>1, <4>1
        <4>3. a + (l + 1 - j) = n + 1
          BY <4>2
        <4> QED
          BY <4>1, <4>2, <4>3
      <3> QED
        BY <2>2, <3>1, <3>2, <3>3
    <2> QED
      BY <2>1, <2>2
  <1>6. j \in 0 .. Len(r)
    BY <1>3
  <1> QED
    BY <1>2, <1>4, <1>5, <1>6 DEF Brings

\* A SYN brings the counter it shows.
LEMMA BringsSyn ==
    ASSUME NEW q \in Seq(Message), NEW i \in Nat, NEW n \in Nat,
           NEW m \in Message, m.t = "syn", m.n = n
    PROVE  Brings(Append(q, m), i, n)
  <1>1. PICK r \in Seq(Message) : r = Append(q, m)
    BY Pushed
  <1>2. Len(q) \in Nat /\ Len(r) = Len(q) + 1 /\ r[Len(r)] = m
    BY <1>1, Pushed
  <1>3. Len(r) \in 0 .. Len(r) /\ Len(r) # 0 /\ n + (Len(r) - Len(r)) = n
    BY <1>2
  <1>4. \A k \in Len(r) + 1 .. Len(r) : FALSE
    BY <1>2
  <1> QED
    BY <1>1, <1>2, <1>3, <1>4 DEF Brings

\* What brings an end up to n does so when the end is further already.
LEMMA BringsMore ==
    ASSUME NEW q \in Seq(Message), NEW i \in Nat, NEW n \in Nat, Brings(q, i, n),
           NEW h \in Nat, i <= h
    PROVE  Brings(q, h, n)
  <1>1. Len(q) \in Nat
    OBVIOUS
  <1> QED
    BY <1>1 DEF Brings

\* The counter after a message from Tor.
After(i, m) ==
    IF m.t = "syn" THEN (IF m.n > i THEN m.n ELSE i) ELSE IF m.n = i THEN m.n + 1 ELSE i

LEMMA AfterIs ==
    ASSUME NEW i \in Nat, NEW m \in Message
    PROVE  After(i, m) \in Nat /\ i <= After(i, m) /\ \A n \in Nat : i <= n /\ UpTo(m, n) => After(i, m) <= n
  BY MessageHas DEF After, UpTo

\* Reading the first message does its part.
LEMMA BringsPopped ==
    ASSUME NEW q \in Seq(Message), q # <<>>, NEW i \in Nat, NEW n \in Nat, Brings(q, i, n)
    PROVE  Brings(Tail(q), After(i, Head(q)), n)
  <1>1. PICK j \in 0 .. Len(q) :
          /\ \A k \in j + 1 .. Len(q) : q[k].t # "syn" /\ q[k].n + (Len(q) + 1 - k) = n
          /\ IF j = 0 THEN i + Len(q) >= n ELSE q[j].t = "syn" /\ q[j].n + (Len(q) - j) = n
    BY DEF Brings
  <1>2. PICK r \in Seq(Message) : r = Tail(q)
    BY Popped
  <1>3. PICK l \in Nat \ {0} : l = Len(q)
    BY Popped
  <1>4. PICK m \in Message : m = Head(q) /\ m = q[1]
    BY Popped
  <1>5. Len(r) = l - 1 /\ \A k \in 1 .. l - 1 : r[k] = q[k + 1]
    BY <1>2, <1>3, Popped
  <1>6. PICK h \in Nat : h = After(i, m) /\ i <= h
    BY AfterIs
  <1>7. m.n \in Nat
    BY MessageHas
  <1>8. CASE j = 0
    <2>1. m.t # "syn" /\ m.n + l = n
      <3>1. 1 \in j + 1 .. Len(q)
        BY <1>3, <1>8
      <3>2. m.t # "syn" /\ m.n + (Len(q) + 1 - 1) = n
        BY <1>1, <1>4, <3>1
      <3> QED
        BY <1>3, <1>7, <3>2
    <2>2. i + l >= n
      BY <1>1, <1>3, <1>8
    <2>3. h + (l - 1) >= n
      BY <1>3, <1>6, <1>7, <2>1, <2>2 DEF After
    <2>4. ASSUME NEW k \in 0 + 1 .. Len(r)
          PROVE  r[k].t # "syn" /\ r[k].n + (Len(r) + 1 - k) = n
      <3>1. k + 1 \in j + 1 .. Len(q) /\ k \in 1 .. l - 1
        BY <1>3, <1>5, <1>8
      <3>2. q[k + 1].t # "syn" /\ q[k + 1].n + (Len(q) + 1 - (k + 1)) = n
        BY <1>1, <3>1
      <3>3. r[k] = q[k + 1] /\ Len(q) + 1 - (k + 1) = Len(r) + 1 - k
        BY <1>3, <1>5, <3>1
      <3> QED
        BY <3>2, <3>3
    <2>5. 0 \in 0 .. Len(r)
      BY <1>3, <1>5
    <2> QED
      BY <1>2, <1>4, <1>5, <1>6, <2>3, <2>4, <2>5 DEF Brings
  <1>9. CASE j # 0
    <2>1. j - 1 \in 0 .. Len(r)
      BY <1>3, <1>5, <1>9
    <2>2. ASSUME NEW k \in (j - 1) + 1 .. Len(r)
          PROVE  r[k].t # "syn" /\ r[k].n + (Len(r) + 1 - k) = n
      <3>1. k + 1 \in j + 1 .. Len(q) /\ k \in 1 .. l - 1
        BY <1>3, <1>5, <1>9
      <3>2. q[k + 1].t # "syn" /\ q[k + 1].n + (Len(q) + 1 - (k + 1)) = n
        BY <1>1, <3>1
      <3>3. r[k] = q[k + 1] /\ Len(q) + 1 - (k + 1) = Len(r) + 1 - k
        BY <1>3, <1>5, <3>1
      <3> QED
        BY <3>2, <3>3
    <2>3. CASE j = 1
      <3>1. m.t = "syn" /\ m.n + (l - 1) = n
        BY <1>1, <1>3, <1>4, <2>3
      <3>2. h >= m.n
        BY <1>6, <1>7, <3>1 DEF After
      <3>3. h + Len(r) >= n
        BY <1>3, <1>5, <1>7, <3>1, <3>2
      <3>4. 0 \in 0 .. Len(r) /\ \A k \in 0 + 1 .. Len(r) :
                r[k].t # "syn" /\ r[k].n + (Len(r) + 1 - k) = n
        BY <2>1, <2>2, <2>3
      <3>5. Brings(r, h, n)
        BY <3>3, <3>4 DEF Brings
      <3> QED
        BY <1>2, <1>4, <1>6, <3>5
    <2>4. CASE j # 1
      <3>1. j - 1 \in 1 .. l - 1 /\ (j - 1) + 1 = j
        BY <1>3, <1>9, <2>4
      <3>2. PICK h1 \in 1 .. l - 1 : h1 = j - 1
        BY <3>1
      <3>3. r[h1] = q[j]
        <4>1. r[h1] = q[h1 + 1] /\ h1 + 1 = j
          BY <1>3, <1>5, <3>1, <3>2
        <4> QED
          BY <4>1
      <3>4. q[j].t = "syn" /\ q[j].n + (Len(q) - j) = n /\ Len(q) - j = Len(r) - h1
        BY <1>1, <1>3, <1>5, <1>9, <3>2
      <3>5. h1 # 0 /\ h1 \in 0 .. Len(r) /\ \A k \in h1 + 1 .. Len(r) :
                r[k].t # "syn" /\ r[k].n + (Len(r) + 1 - k) = n
        BY <1>3, <2>1, <2>2, <3>2
      <3>6. Brings(r, h, n)
        BY <3>3, <3>4, <3>5 DEF Brings
      <3> QED
        BY <1>2, <1>4, <1>6, <3>6
    <2> QED
      BY <2>3, <2>4
  <1> QED
    BY <1>8, <1>9

\* What can be heard before the -O that will be taken does not pass it.
LEMMA StopsAt ==
    ASSUME NEW q \in Seq(Message), NEW u, NEW i \in Nat, Stops(q, u, i)
    PROVE  \E j \in 1 .. Len(q), n \in Nat :
              /\ q[j].t = "-O" /\ q[j].n = n /\ i <= n
              /\ \A k \in 1 .. j - 1 : UpTo(q[k], n)
              /\ \A d \in u : UpTo(d.m, n)
              /\ IF j = 1 THEN i = n ELSE q[j - 1].t = "syn" /\ q[j - 1].n = n
  <1>1. \A j \in 1 .. Len(q) : q[j].n \in Nat
    BY MessageHas
  <1> QED
    BY <1>1 DEF Stops

\* Whatever follows over Tor, and whatever is lost over UDP, the -O will be taken.
LEMMA StopsKept ==
    ASSUME NEW q \in Seq(Message), NEW u, NEW i \in Nat, Stops(q, u, i),
           NEW v, v \subseteq u, NEW m \in Message
    PROVE  Stops(q, v, i) /\ Stops(Append(q, m), v, i)
  <1>1. PICK j \in 1 .. Len(q) :
              /\ q[j].t = "-O" /\ i <= q[j].n
              /\ \A k \in 1 .. j - 1 : UpTo(q[k], q[j].n)
              /\ \A d \in u : UpTo(d.m, q[j].n)
              /\ IF j = 1 THEN i = q[j].n ELSE q[j - 1].t = "syn" /\ q[j - 1].n = q[j].n
    BY DEF Stops
  <1>2. Stops(q, v, i)
    BY <1>1 DEF Stops
  <1>3. PICK r \in Seq(Message) : r = Append(q, m)
    BY Pushed
  <1>4. Len(q) \in Nat /\ Len(r) = Len(q) + 1 /\ \A k \in 1 .. Len(q) : r[k] = q[k]
    BY <1>3, Pushed
  <1>5. j \in 1 .. Len(r) /\ r[j] = q[j] /\ \A k \in 1 .. j - 1 : r[k] = q[k]
    BY <1>4
  <1>6. j # 1 => r[j - 1] = q[j - 1]
    <2>1. j # 1 => j - 1 \in 1 .. j - 1
      OBVIOUS
    <2> QED
      BY <2>1, <1>5
  <1>7. Stops(r, v, i)
    BY <1>1, <1>5, <1>6 DEF Stops
  <1> QED
    BY <1>2, <1>3, <1>7

\* -O and the SYN before it are heard by whoever has heard less.
LEMMA StopsNew ==
    ASSUME NEW q \in Seq(Message), NEW u, NEW i \in Nat, NEW n \in Nat, i <= n,
           \A k \in 1 .. Len(q) : UpTo(q[k], n), \A d \in u : UpTo(d.m, n),
           NEW s \in Message, s.t = "syn", s.n = n,
           NEW o \in Message, o.t = "-O", o.n = n
    PROVE  Stops(Append(Append(q, s), o), u, i)
  <1>1. PICK l \in Nat : l = Len(q)
    BY Pushed
  <1>2. PICK r \in Seq(Message) : r = Append(Append(q, s), o)
    BY Pushed
  <1>3. /\ Len(r) = l + 2 /\ r[l + 2] = o /\ r[l + 1] = s
        /\ \A k \in 1 .. l : r[k] = q[k]
    BY <1>1, <1>2
  <1>4. \A k \in 1 .. l + 1 : UpTo(r[k], n)
    <2>1. ASSUME NEW k \in 1 .. l + 1
          PROVE  UpTo(r[k], n)
      <3>1. CASE k = l + 1
        BY <1>3, <3>1 DEF UpTo
      <3>2. CASE k # l + 1
        BY <1>1, <1>3, <3>2
      <3> QED
        BY <3>1, <3>2
    <2> QED
      BY <2>1
  <1>5. PICK j \in 1 .. Len(r) : j = l + 2
    BY <1>3
  <1>6. r[j] = o /\ j # 1 /\ j - 1 = l + 1 /\ r[j - 1] = s
    BY <1>3, <1>5
  <1> QED
    BY <1>2, <1>4, <1>6 DEF Stops

\* A datagram heard, or a SYN over it, does not keep the -O from being taken.
LEMMA StopsHeard ==
    ASSUME NEW q \in Seq(Message), NEW u, NEW i \in Nat, Stops(q, u, i),
           NEW h \in Nat, i <= h, \A n \in Nat : i <= n /\ (\A d \in u : UpTo(d.m, n)) => h <= n
    PROVE  Stops(q, u, h)
  <1>1. PICK j \in 1 .. Len(q), n \in Nat :
              /\ q[j].t = "-O" /\ q[j].n = n /\ i <= n
              /\ \A k \in 1 .. j - 1 : UpTo(q[k], n)
              /\ \A d \in u : UpTo(d.m, n)
              /\ IF j = 1 THEN i = n ELSE q[j - 1].t = "syn" /\ q[j - 1].n = n
    BY StopsAt
  <1>2. h <= n
    BY <1>1
  <1>3. i = n => h = n
    BY <1>2
  <1> QED
    BY <1>1, <1>2, <1>3 DEF Stops

\* Whoever reads on reads the -O, or it is the one just read.
LEMMA StopsPopped ==
    ASSUME NEW q \in Seq(Message), q # <<>>, NEW u, NEW i \in Nat, Stops(q, u, i)
    PROVE  (Head(q).t = "-O" /\ Head(q).n = i) \/ Stops(Tail(q), u, After(i, Head(q)))
  <1>1. PICK j \in 1 .. Len(q), n \in Nat :
              /\ q[j].t = "-O" /\ q[j].n = n /\ i <= n
              /\ \A k \in 1 .. j - 1 : UpTo(q[k], n)
              /\ \A d \in u : UpTo(d.m, n)
              /\ IF j = 1 THEN i = n ELSE q[j - 1].t = "syn" /\ q[j - 1].n = n
    BY StopsAt
  <1>2. PICK r \in Seq(Message) : r = Tail(q)
    BY Popped
  <1>3. PICK l \in Nat \ {0} : l = Len(q)
    BY Popped
  <1>4. PICK m \in Message : m = Head(q) /\ m = q[1]
    BY Popped
  <1>5. Len(r) = l - 1 /\ \A k \in 1 .. l - 1 : r[k] = q[k + 1]
    BY <1>2, <1>3, Popped
  <1>6. PICK h \in Nat : h = After(i, m) /\ i <= h
    BY AfterIs
  <1>7. CASE j = 1
    BY <1>1, <1>4, <1>7
  <1>8. CASE j # 1
    <2>1. PICK g \in 1 .. l - 1 : g = j - 1
      BY <1>3, <1>8
    <2>2. r[g] = q[j] /\ g \in 1 .. Len(r)
      <3>1. r[g] = q[g + 1] /\ g + 1 = j
        BY <1>5, <2>1
      <3> QED
        BY <1>5, <3>1
    <2>3. UpTo(m, n)
      <3>1. 1 \in 1 .. j - 1
        BY <1>8
      <3> QED
        BY <1>1, <1>4, <3>1
    <2>4. h <= n
      BY <1>1, <1>6, <2>3, AfterIs
    <2>5. ASSUME NEW k \in 1 .. g - 1
          PROVE  UpTo(r[k], n)
      <3>1. k + 1 \in 1 .. j - 1 /\ k \in 1 .. l - 1
        BY <2>1
      <3> QED
        BY <1>1, <1>5, <3>1
    <2>6. IF g = 1 THEN h = n ELSE r[g - 1].t = "syn" /\ r[g - 1].n = n
      <3>1. q[g].t = "syn" /\ q[g].n = n
        BY <1>1, <1>8, <2>1
      <3>2. CASE g = 1
        <4>1. m.t = "syn" /\ m.n = n
          BY <1>4, <3>1, <3>2
        <4> QED
          BY <1>6, <2>4, <3>2, <4>1 DEF After
      <3>3. CASE g # 1
        <4>1. PICK b \in 1 .. l - 1 : b = g - 1
          BY <2>1, <3>3
        <4>2. r[b] = q[b + 1] /\ b + 1 = g
          BY <1>5, <2>1, <4>1
        <4> QED
          BY <3>1, <3>3, <4>1, <4>2
      <3> QED
        BY <3>2, <3>3
    <2>7. Stops(r, u, h)
      BY <1>1, <2>2, <2>4, <2>5, <2>6 DEF Stops
    <2> QED
      BY <1>2, <1>4, <1>6, <2>7
  <1> QED
    BY <1>7, <1>8

-----------------------------------------------------------------------------
(* What every step keeps that does not touch it.                           *)

\* What the invariant says of an end and of what comes to it.
LEMMA Have ==
    ASSUME SwitchInv, NEW f \in Ends
    PROVE  /\ end[f] \in Knowledge /\ end[f].in_ctr \in Nat /\ end[f].out_ctr \in Nat
           /\ end[f].inuse \in BOOLEAN
           /\ tcp[f] \in Seq(Message) /\ udp[f] \subseteq InAir
           /\ SocketRight(f) /\ Bounded(f) /\ Caught(f) /\ Leaves(f) /\ Meets(f)
  <1>1. end[f] \in Knowledge /\ tcp[f] \in Seq(Message) /\ udp[f] \subseteq InAir
    BY DEF SwitchInv, TypeOK, WiresOK
  <1> QED
    BY <1>1 DEF SwitchInv, Knowledge

\* A step in which f hears nothing, and all that is new to f was made by p, whose counter
\* does not go back.
BoundedStep(f, p, m) ==
    /\ end'[f].in_ctr = end[f].in_ctr
    /\ end'[p].out_ctr \in Nat /\ end'[p].out_ctr >= end[p].out_ctr
    /\ UpTo(m, end'[p].out_ctr) /\ tcp'[f] \in {tcp[f], Append(tcp[f], m)}
    /\ \A d \in udp'[f] : d \in udp[f] \/ UpTo(d.m, end'[p].out_ctr)

\* Nothing shows more than its sender has reached.
LEMMA BoundedKept ==
    ASSUME SwitchInv, NEW f \in Ends, NEW p \in Ends, p = Peer(f),
           NEW m \in Message, BoundedStep(f, p, m)
    PROVE  Bounded(f)'
  <1> USE DEF BoundedStep
  <1>1. PICK n \in Nat : n = end[p].out_ctr
    BY TwoEnds, Have
  <1>2. PICK o \in Nat : o = end'[p].out_ctr /\ o >= n
    BY <1>1
  <1>3. \A l \in Message : UpTo(l, n) => UpTo(l, o)
    BY <1>2, MessageHas DEF UpTo
  <1>4. /\ end[f].in_ctr <= n /\ end[f].in_ctr \in Nat
        /\ \A i \in 1 .. Len(tcp[f]) : UpTo(tcp[f][i], n)
        /\ \A d \in udp[f] : UpTo(d.m, n)
    BY <1>1, Have DEF Bounded
  <1>5. tcp[f] \in Seq(Message) /\ \A d \in udp[f] : d.m \in Message
    BY Have DEF InAir
  <1>6. \A i \in 1 .. Len(tcp[f]) : UpTo(tcp[f][i], o)
    BY <1>3, <1>4, <1>5
  <1>7. \A i \in 1 .. Len(tcp'[f]) : UpTo(tcp'[f][i], o)
    <2>1. CASE tcp'[f] = tcp[f]
      BY <1>6, <2>1
    <2>2. CASE tcp'[f] = Append(tcp[f], m)
      BY <1>2, <1>5, <1>6, <2>2, Pushed
    <2> QED
      BY <2>1, <2>2
  <1>8. \A d \in udp'[f] : UpTo(d.m, o)
    BY <1>2, <1>3, <1>4, <1>5
  <1>9. end'[f].in_ctr <= o
    BY <1>2, <1>4
  <1> QED
    BY <1>2, <1>7, <1>8, <1>9 DEF Bounded

\* A step in which f neither hears nor is told anything.
CaughtStep(f, p) ==
    /\ end'[f].in_ctr = end[f].in_ctr /\ tcp'[f] = tcp[f]
    /\ end'[p].out_ctr = end[p].out_ctr /\ end'[p].inuse = end[p].inuse
    /\ p \in notes'.failed <=> p \in notes.failed
    /\ f \in notes'.late <=> f \in notes.late

\* What comes to such an end brings it up to its peer as before.
LEMMA CaughtKept ==
    ASSUME SwitchInv, NEW f \in Ends, NEW p \in Ends, p = Peer(f), CaughtStep(f, p)
    PROVE  Caught(f)'
  <1>1. Caught(f)
    BY Have
  <1> QED
    BY <1>1 DEF Caught, CaughtStep

\* A step in which f hears nothing and nobody commands anything.
LeavesStep(f, p, m) ==
    /\ notes'.stopped => notes.stopped
    /\ notes'.late = {} => notes.late = {}
    /\ end'[f].sock # 0 => end[f].sock # 0
    /\ end[p].sock = 0 => end'[p].sock = 0 /\ udp'[f] \subseteq udp[f]
    /\ end'[f].in_ctr = end[f].in_ctr
    /\ tcp'[f] \in {tcp[f], Append(tcp[f], m)}

\* An end that has heard nothing new still leaves UDP.
LEMMA LeavesKept ==
    ASSUME SwitchInv, NEW f \in Ends, NEW p \in Ends, p = Peer(f),
           NEW m \in Message, LeavesStep(f, p, m)
    PROVE  Leaves(f)'
  <1> USE DEF LeavesStep
  <1> SUFFICES ASSUME notes'.stopped, notes'.late = {}, end'[f].sock # 0
               PROVE  end'[p].sock = 0 /\ Stops(tcp'[f], udp'[f], end'[f].in_ctr)
    BY DEF Leaves
  <1>1. end[p].sock = 0 /\ Stops(tcp[f], udp[f], end[f].in_ctr)
    BY Have DEF Leaves
  <1>2. tcp[f] \in Seq(Message) /\ end[f].in_ctr \in Nat
    BY Have
  <1>3. Stops(tcp[f], udp'[f], end[f].in_ctr) /\ Stops(Append(tcp[f], m), udp'[f], end[f].in_ctr)
    BY <1>1, <1>2, StopsKept
  <1> QED
    BY <1>1, <1>3

\* A step that changes little for f, whose peer p is, and may say m to it over Tor.
MeetsStep(f, p, m) ==
    /\ stops' = 0 /\ fails' = 0 => stops = 0 /\ fails = 0
    /\ path' = path
    /\ m.t # "-O" /\ tcp'[f] \in {tcp[f], Append(tcp[f], m)}
    /\ \A d \in udp'[f] : d \in udp[f] \/ d.from = end'[p].sock
    /\ notes.spent \subseteq notes'.spent
    /\ end'[f].inuse = end[f].inuse
    /\ end'[f].to = end[f].to \/ ~end[f].inuse
    /\ stops = 0 /\ fails = 0 /\ (udp[f] # {} \/ end[f].inuse) =>
         /\ end'[p].sock = end[p].sock
         /\ Trying(end[p]) \/ end[p].inuse
            => p \in notes'.spent \/ Trying(end'[p]) \/ end'[p].inuse
    /\ stops = 0 /\ fails = 0 /\ ~(udp'[f] \subseteq udp[f])
         => p \in notes'.spent \/ Trying(end'[p]) \/ end'[p].inuse
    /\ end'[f].sock # 0 /\ end'[f].u_cnt = 0
         => (end[f].sock # 0 /\ end[f].u_cnt = 0) \/ f \in notes'.spent

\* Two ends that meet go on to do so.
LEMMA MeetsKept ==
    ASSUME SwitchInv, NEW f \in Ends, NEW p \in Ends, p = Peer(f),
           NEW m \in Message, MeetsStep(f, p, m)
    PROVE  Meets(f)'
  <1> USE DEF MeetsStep
  <1> SUFFICES ASSUME stops' = 0, fails' = 0
               PROVE  /\ \A i \in 1 .. Len(tcp'[f]) : tcp'[f][i].t # "-O"
                      /\ \A d \in udp'[f] : d.from = end'[p].sock
                      /\ end'[f].inuse => end'[f].to = [sock |-> end'[p].sock, via |-> path']
                      /\ udp'[f] # {} \/ end'[f].inuse => p \in notes'.spent
                                      \/ Trying(end'[p]) \/ end'[p].inuse
                      /\ end'[f].sock # 0 /\ end'[f].u_cnt = 0 => f \in notes'.spent \/ end'[f].inuse
    BY DEF Meets
  <1>1. /\ \A i \in 1 .. Len(tcp[f]) : tcp[f][i].t # "-O"
        /\ \A d \in udp[f] : d.from = end[p].sock
        /\ end[f].inuse => end[f].to = [sock |-> end[p].sock, via |-> path]
        /\ udp[f] # {} \/ end[f].inuse => p \in notes.spent
                                      \/ Trying(end[p]) \/ end[p].inuse
        /\ end[f].sock # 0 /\ end[f].u_cnt = 0 => f \in notes.spent \/ end[f].inuse
    BY Have DEF Meets
  <1>2. \A i \in 1 .. Len(tcp'[f]) : tcp'[f][i].t # "-O"
    <2>1. CASE tcp'[f] = tcp[f]
      BY <1>1, <2>1
    <2>2. CASE tcp'[f] = Append(tcp[f], m)
      <3>1. tcp[f] \in Seq(Message)
        BY Have
      <3> QED
        BY <1>1, <2>2, <3>1, Pushed
    <2> QED
      BY <2>1, <2>2
  <1>3. \A d \in udp'[f] : d.from = end'[p].sock
    BY <1>1
  <1>4. end'[f].inuse => end'[f].to = [sock |-> end'[p].sock, via |-> path']
    BY <1>1
  <1>5. udp'[f] # {} \/ end'[f].inuse => p \in notes'.spent
                                      \/ Trying(end'[p]) \/ end'[p].inuse
    <2>1. udp'[f] # {} => udp[f] # {} \/ ~(udp'[f] \subseteq udp[f])
      OBVIOUS
    <2> QED
      BY <1>1, <2>1
  <1> QED
    BY <1>1, <1>2, <1>3, <1>4, <1>5

\* The types after a step, from those of what it has changed.
LEMMA Typed ==
    ASSUME SwitchInv, NEW e \in Ends, NEW k \in Knowledge, end' = [end EXCEPT ![e] = k],
           tcp' \in [Ends -> Seq(Message)], udp' \in [Ends -> SUBSET InAir], path' = path,
           notes' \in Note, starts' \in [Ends -> 0 .. MaxStart],
           talks' \in [Ends -> 0 .. MaxTalk], stops' \in 0 .. MaxStop, fails' \in 0 .. MaxFail
    PROVE  /\ TypeOK' /\ WiresOK'
           /\ end'[e] = k /\ end'[Peer(e)] = end[Peer(e)]
  <1>1. end \in [Ends -> Knowledge] /\ path \in Via
    BY DEF SwitchInv, TypeOK
  <1>2. end' \in [Ends -> Knowledge]
    BY <1>1
  <1>3. end'[e] = k /\ end'[Peer(e)] = end[Peer(e)]
    BY <1>1, TwoEnds
  <1>4. InAir' = InAir
    BY DEF InAir
  <1> QED
    BY <1>1, <1>2, <1>3, <1>4 DEF TypeOK, WiresOK

\* The invariant after a step, from its parts for the two ends.
LEMMA BothEnds ==
    ASSUME NEW e \in Ends, TypeOK', WiresOK',
           SocketRight(e)', Bounded(e)', Caught(e)', Leaves(e)', Meets(e)',
           SocketRight(Peer(e))', Bounded(Peer(e))', Caught(Peer(e))', Leaves(Peer(e))', Meets(Peer(e))'
    PROVE  SwitchInv'
  BY TwoEnds DEF SwitchInv

\* A lost datagram and a lost or late STUN answer change nothing that matters.
LEMMA SmallStep ==
    ASSUME SwitchInv, NEW e \in Ends,
           end' = [end EXCEPT ![e] = end[e]] \/ end' = [end EXCEPT ![e] = [end[e] EXCEPT !.stun = FALSE]],
           udp' = udp \/ \E d \in udp[e] : udp' = [udp EXCEPT ![e] = @ \ {d}],
           UNCHANGED <<tcp, path, starts, stops, fails, talks, notes>>
    PROVE  SwitchInv'
  <1>1. PICK p \in Ends : p = Peer(e) /\ p # e /\ Peer(p) = e
    BY TwoEnds
  <1>2. end[e] \in Knowledge /\ SocketRight(e) /\ SocketRight(p) /\ end[p].out_ctr \in Nat
    BY Have
  <1>3. PICK k \in Knowledge : /\ end' = [end EXCEPT ![e] = k]
                               /\ k = end[e] \/ k = [end[e] EXCEPT !.stun = FALSE]
    BY <1>2 DEF Knowledge
  <1>4. /\ k.in_ctr = end[e].in_ctr /\ k.out_ctr = end[e].out_ctr /\ k.inuse = end[e].inuse
        /\ k.to = end[e].to /\ k.sock = end[e].sock /\ (k.stun => end[e].stun)
        /\ k.u_cnt = end[e].u_cnt /\ k.int = end[e].int /\ k.ext = end[e].ext
        /\ k.out_ctr \in Nat
    BY <1>2, <1>3 DEF Knowledge
  <1>5. udp \in [Ends -> SUBSET InAir] /\ tcp \in [Ends -> Seq(Message)]
    BY DEF SwitchInv, WiresOK
  <1>6. udp' \in [Ends -> SUBSET InAir] /\ \A f \in Ends : udp'[f] \subseteq udp[f]
    BY <1>5
  <1>7. TypeOK' /\ WiresOK' /\ end'[e] = k /\ end'[p] = end[p]
    <2>1. /\ notes' \in Note /\ starts' \in [Ends -> 0 .. MaxStart]
          /\ talks' \in [Ends -> 0 .. MaxTalk] /\ stops' \in 0 .. MaxStop
          /\ fails' \in 0 .. MaxFail
      BY DEF SwitchInv, TypeOK
    <2>2. tcp' \in [Ends -> Seq(Message)] /\ path' = path
      BY <1>5
    <2> QED
      BY <1>1, <1>3, <1>6, <2>1, <2>2, Typed
  <1>8. PICK m \in Message : m.t = "syn" /\ \A o \in Nat : UpTo(m, o)
    BY NothingShown
  <1>10. SocketRight(e)' /\ SocketRight(p)'
    BY <1>2, <1>4, <1>7 DEF SocketRight
  <1>11. Bounded(e)' /\ Bounded(p)'
    <2>1. BoundedStep(e, p, m) /\ BoundedStep(p, e, m)
      BY <1>2, <1>4, <1>6, <1>7, <1>8 DEF BoundedStep
    <2> QED
      BY <1>1, <2>1, BoundedKept
  <1>12. Caught(e)' /\ Caught(p)'
    <2>1. CaughtStep(e, p) /\ CaughtStep(p, e)
      BY <1>1, <1>4, <1>7 DEF CaughtStep
    <2> QED
      BY <1>1, <2>1, CaughtKept
  <1>13. Leaves(e)' /\ Leaves(p)'
    <2>1. LeavesStep(e, p, m) /\ LeavesStep(p, e, m)
      BY <1>1, <1>4, <1>6, <1>7 DEF LeavesStep
    <2> QED
      BY <1>1, <2>1, LeavesKept
  <1>14. Trying(k) <=> Trying(end[e])
    BY <1>4 DEF Trying
  <1>15. Meets(e)' /\ Meets(p)'
    <2>1. MeetsStep(e, p, m) /\ MeetsStep(p, e, m)
      BY <1>1, <1>4, <1>6, <1>7, <1>8, <1>14 DEF MeetsStep
    <2> QED
      BY <1>1, <2>1, MeetsKept
  <1> QED
    BY <1>1, <1>7, <1>10, <1>11, <1>12, <1>13, <1>15, BothEnds

\* A STUN answer is lost, or comes when nobody waits for it.
LEMMA StunLostKeeps ==
    ASSUME SwitchInv, NEW e \in Ends, StunLost(e)
    PROVE  SwitchInv'
  <1>1. end' = [end EXCEPT ![e] = [end[e] EXCEPT !.stun = FALSE]]
    BY DEF StunLost
  <1> QED
    BY <1>1, SmallStep DEF StunLost

\* The network loses a datagram: what comes over Tor does not depend on it.
LEMMA LoseKeeps ==
    ASSUME SwitchInv, NEW e \in Ends, NEW d \in udp[e], Lose(e, d)
    PROVE  SwitchInv'
  <1>1. end \in [Ends -> Knowledge]
    BY DEF SwitchInv, TypeOK
  <1>2. end' = [end EXCEPT ![e] = end[e]]
    BY <1>1 DEF Lose
  <1> QED
    BY <1>2, SmallStep DEF Lose

-----------------------------------------------------------------------------
(* Steps that send over Tor.                                               *)

\* A socket that is not there has sent nothing, and nobody sends to it.
LEMMA NoSocketYet ==
    ASSUME SwitchInv, NEW f \in Ends, stops = 0, fails = 0, end[Peer(f)].sock = 0
    PROVE  udp[f] = {} /\ ~end[f].inuse
  <1>1. Meets(f) /\ SocketRight(f) /\ end[f] \in Knowledge /\ udp[f] \subseteq InAir
    BY Have
  <1>2. \A d \in udp[f] : d.from = 0 /\ d.from \in 1 .. MaxStart
    BY <1>1 DEF Meets, InAir
  <1>3. udp[f] = {}
    BY <1>2
  <1>4. ASSUME end[f].inuse
        PROVE  FALSE
    <2>1. end[f].to = [sock |-> 0, via |-> path] /\ end[f].to # Nowhere
      BY <1>1, <1>4 DEF Meets, SocketRight
    <2>2. end[f].to \in Addr
      BY <1>1, <2>1 DEF Knowledge
    <2>3. end[f].to.sock = 0 /\ end[f].to.sock \in 1 .. MaxStart
      BY <2>1, <2>2 DEF Addr
    <2> QED
      BY <2>3
  <1> QED
    BY <1>3, <1>4

\* A step in which e, which becomes l, says m to its peer over Tor.
SaysStep(e, l, m) ==
    /\ ~l.inuse /\ ~end[e].inuse
    /\ l.out_ctr = end[e].out_ctr + 1 /\ l.in_ctr = end[e].in_ctr
    /\ l.int = end[e].int /\ l.ext = end[e].ext
    /\ l.stun => l.sock # 0
    /\ l.sock = end[e].sock \/ (end[e].sock = 0 /\ ~notes'.stopped)
    /\ (l.u_cnt = end[e].u_cnt /\ l.sock = end[e].sock) \/ l.u_cnt > 0
    /\ m.t \notin {"syn", "-O"} /\ m.n = end[e].out_ctr
    /\ end' = [end EXCEPT ![e] = l]
    /\ tcp' = [tcp EXCEPT ![Peer(e)] = Append(@, m)]
    /\ notes' \in {notes, [notes EXCEPT !.stopped = FALSE]}
    /\ starts' \in [Ends -> 0 .. MaxStart] /\ talks' \in [Ends -> 0 .. MaxTalk]
    /\ UNCHANGED <<udp, path, stops, fails>>

\* A chat or voice packet over Tor is the next one that its receiver waits for.
LEMMA SaysKeep ==
    ASSUME SwitchInv, NEW e \in Ends, NEW l \in Knowledge, NEW m \in Message, SaysStep(e, l, m)
    PROVE  SwitchInv'
  <1>1. PICK p \in Ends : p = Peer(e) /\ p # e /\ Peer(p) = e
    BY TwoEnds
  <1>2. /\ end[e] \in Knowledge /\ SocketRight(e) /\ SocketRight(p) /\ end[p].out_ctr \in Nat
        /\ end[p].in_ctr \in Nat /\ end[e].out_ctr \in Nat /\ tcp[p] \in Seq(Message)
        /\ end[p].inuse \in BOOLEAN
    BY Have
  <1>3. /\ udp' = udp /\ path' = path /\ stops' = stops /\ fails' = fails
        /\ ~l.inuse /\ ~end[e].inuse /\ (l.stun => l.sock # 0)
        /\ l.sock = end[e].sock \/ (end[e].sock = 0 /\ ~notes'.stopped)
        /\ (l.u_cnt = end[e].u_cnt /\ l.sock = end[e].sock) \/ l.u_cnt > 0
        /\ m.t # "syn" /\ m.t # "-O" /\ m.n = end[e].out_ctr
    BY DEF SaysStep
  <1>4. /\ l.in_ctr = end[e].in_ctr /\ l.out_ctr = end[e].out_ctr + 1 /\ ~l.inuse
        /\ l.u_cnt \in 0 .. Tries /\ l.int = end[e].int /\ l.ext = end[e].ext
        /\ l.out_ctr \in Nat /\ end[e].u_cnt \in 0 .. Tries /\ l.inuse = end[e].inuse
    BY <1>2 DEF Knowledge, SaysStep
  <1>5. udp \in [Ends -> SUBSET InAir] /\ tcp \in [Ends -> Seq(Message)] /\ notes \in Note
    BY DEF SwitchInv, WiresOK, TypeOK
  <1>6. PICK q \in Seq(Message) : q = Append(tcp[p], m)
    BY <1>2, Pushed
  <1>7. tcp' \in [Ends -> Seq(Message)] /\ tcp'[p] = q /\ tcp'[e] = tcp[e]
    BY <1>1, <1>5, <1>6 DEF SaysStep
  <1>8. /\ notes' \in Note /\ notes'.spent = notes.spent /\ notes'.failed = notes.failed
        /\ notes'.late = notes.late /\ (notes'.stopped => notes.stopped)
    BY <1>5 DEF Note, SaysStep
  <1>9. TypeOK' /\ WiresOK' /\ end'[e] = l /\ end'[p] = end[p]
    <2>1. stops' \in 0 .. MaxStop /\ fails' \in 0 .. MaxFail
      BY <1>3 DEF SwitchInv, TypeOK
    <2>2. udp' \in [Ends -> SUBSET InAir] /\ path' = path
      BY <1>3, <1>5
    <2>3. /\ end' = [end EXCEPT ![e] = l]
          /\ starts' \in [Ends -> 0 .. MaxStart] /\ talks' \in [Ends -> 0 .. MaxTalk]
      BY DEF SaysStep
    <2> QED
      BY <1>1, <1>7, <1>8, <2>1, <2>2, <2>3, Typed
  <1>10. SocketRight(e)' /\ SocketRight(p)'
    BY <1>2, <1>3, <1>4, <1>9 DEF SocketRight
  <1>11. Bounded(e)' /\ Bounded(p)'
    <2>1. PICK s \in Message : \A o \in Nat : UpTo(s, o)
      BY NothingShown
    <2>2. UpTo(s, end[p].out_ctr) /\ UpTo(m, l.out_ctr)
      BY <1>2, <1>3, <1>4, <2>1 DEF UpTo
    <2>3. BoundedStep(e, p, s)
      BY <1>2, <1>3, <1>4, <1>7, <1>9, <2>2 DEF BoundedStep
    <2>4. BoundedStep(p, e, m)
      BY <1>2, <1>3, <1>4, <1>6, <1>7, <1>9, <2>2 DEF BoundedStep
    <2> QED
      BY <1>1, <2>3, <2>4, BoundedKept
  <1>12. Caught(e)'
    <2>1. CaughtStep(e, p)
      BY <1>4, <1>7, <1>8, <1>9 DEF CaughtStep
    <2> QED
      BY <1>1, <2>1, CaughtKept
  <1>13. Caught(p)'
    <2> SUFFICES ASSUME e \notin notes'.failed, p \notin notes'.late
                 PROVE  Brings(q, end[p].in_ctr, l.out_ctr)
      BY <1>1, <1>7, <1>9 DEF Caught
    <2>1. Brings(tcp[p], end[p].in_ctr, end[e].out_ctr)
      <3>1. Caught(p)
        BY Have
      <3> QED
        BY <1>1, <1>3, <1>8, <3>1 DEF Caught
    <2> QED
      BY <1>2, <1>3, <1>4, <1>6, <2>1, BringsPacket
  <1>14. Leaves(e)' /\ Leaves(p)'
    <2>1. CASE notes'.stopped
      <3>1. LeavesStep(e, p, m) /\ LeavesStep(p, e, m)
        BY <1>3, <1>4, <1>6, <1>7, <1>8, <1>9, <2>1 DEF LeavesStep
      <3> QED
        BY <1>1, <3>1, LeavesKept
    <2>2. CASE ~notes'.stopped
      BY <2>2 DEF Leaves
    <2> QED
      BY <2>1, <2>2
  <1>15. Meets(e)'
    <2>1. MeetsStep(e, p, m)
      BY <1>3, <1>4, <1>7, <1>8, <1>9 DEF MeetsStep
    <2> QED
      BY <1>1, <2>1, MeetsKept
  <1>16. Meets(p)'
    <2>1. Trying(end[e]) => Trying(l)
      BY <1>3, <1>4 DEF Trying
    <2>2. stops = 0 /\ fails = 0 /\ (udp[p] # {} \/ end[p].inuse) => l.sock = end[e].sock
      BY <1>1, <1>3, <1>4, NoSocketYet
    <2>3. MeetsStep(p, e, m)
      BY <1>3, <1>4, <1>6, <1>7, <1>8, <1>9, <2>1, <2>2 DEF MeetsStep
    <2> QED
      BY <1>1, <2>3, MeetsKept
  <1> QED
    BY <1>1, <1>9, <1>10, <1>11, <1>12, <1>13, <1>14, <1>15, <1>16, BothEnds

\* An end that has counted a packet.
LEMMA Counted ==
    ASSUME NEW k \in Knowledge
    PROVE  \E l \in Knowledge :
              /\ l = [k EXCEPT !.out_ctr = @ + 1]
              /\ l.sock = k.sock /\ l.inuse = k.inuse /\ l.to = k.to /\ l.u_cnt = k.u_cnt
              /\ l.int = k.int /\ l.ext = k.ext /\ l.stun = k.stun /\ l.in_ctr = k.in_ctr
              /\ l.out_ctr = k.out_ctr + 1 /\ k.out_ctr \in Nat
  <1>1. PICK l : l = [k EXCEPT !.out_ctr = @ + 1]
    OBVIOUS
  <1>2. /\ l \in Knowledge
        /\ l.sock = k.sock /\ l.inuse = k.inuse /\ l.to = k.to /\ l.u_cnt = k.u_cnt
        /\ l.int = k.int /\ l.ext = k.ext /\ l.stun = k.stun /\ l.in_ctr = k.in_ctr
        /\ l.out_ctr = k.out_ctr + 1 /\ k.out_ctr \in Nat
    BY <1>1 DEF Knowledge
  <1> QED
    BY <1>1, <1>2

\* An end that is not on UDP sends its packets over Tor.
LEMMA SaysOverTor ==
    ASSUME NEW e \in Ends, NEW k, NEW t, NEW s, ~k.inuse, Say(e, k, t, s)
    PROVE  /\ end' = [end EXCEPT ![e] = [k EXCEPT !.out_ctr = @ + 1]]
           /\ tcp' = [tcp EXCEPT ![Peer(e)] = Append(@, Packet(t, k.out_ctr, s))]
           /\ udp' = udp
  BY DEF Say, DoSend, Tor, Know

\* do_nat() of an end that is not on UDP: with a STUN server it tells nothing yet, without
\* one it tells its internal address over Tor at once.
LEMMA DoNatKeeps ==
    ASSUME SwitchInv, NEW e \in Ends, NEW ask \in BOOLEAN, DoNat(e, ask)
    PROVE  SwitchInv'
  <1>1. end[e] \in Knowledge /\ ~end[e].inuse
    BY Have DEF DoNat
  <1>2. /\ starts \in [Ends -> 0 .. MaxStart] /\ starts[e] < MaxStart /\ MaxStart \in Nat
        /\ notes \in Note /\ talks \in [Ends -> 0 .. MaxTalk]
    BY BoundsAssumption DEF SwitchInv, TypeOK, DoNat
  <1>3. starts[e] \in 0 .. MaxStart
    BY <1>2
  <1>4. PICK w \in Knowledge :
          /\ w = WithSocket(e) /\ w.sock \in 1 .. MaxStart /\ ~w.inuse
          /\ w.sock = end[e].sock \/ end[e].sock = 0
          /\ w.out_ctr = end[e].out_ctr /\ w.in_ctr = end[e].in_ctr
          /\ w.int = end[e].int /\ w.ext = end[e].ext
    <2>1. CASE end[e].sock = 0
      <3>1. PICK n \in 1 .. MaxStart : n = starts[e] + 1
        BY <1>2, <1>3
      <3>2. PICK w : w = [end[e] EXCEPT !.sock = n, !.inuse = FALSE, !.to = Nowhere]
        OBVIOUS
      <3>3. w = WithSocket(e)
        BY <2>1, <3>1, <3>2 DEF WithSocket
      <3>4. w \in Knowledge
        <4>1. n \in Sock /\ Nowhere \in Addr \cup {Nowhere}
          BY <1>2 DEF Sock
        <4>2. [end[e] EXCEPT !.sock = n] \in Knowledge
          BY <1>1, <4>1 DEF Knowledge
        <4> QED
          BY <3>2, <4>1, <4>2 DEF Knowledge
      <3>5. /\ w.sock = n /\ ~w.inuse /\ w.out_ctr = end[e].out_ctr /\ w.in_ctr = end[e].in_ctr
            /\ w.int = end[e].int /\ w.ext = end[e].ext
        BY <1>1, <3>2 DEF Knowledge
      <3> QED
        BY <2>1, <3>3, <3>4, <3>5
    <2>2. CASE end[e].sock # 0
      <3>1. end[e].sock \in 1 .. MaxStart
        BY <1>1, <1>2, <2>2 DEF Knowledge, Sock
      <3>2. WithSocket(e) = end[e]
        BY <2>2 DEF WithSocket
      <3> QED
        BY <1>1, <3>1, <3>2
    <2> QED
      BY <2>1, <2>2
  <1>5. PICK k \in Knowledge :
          /\ k = [WithSocket(e) EXCEPT !.u_cnt = Tries, !.stun = @ \/ ask]
          /\ k.sock = w.sock /\ ~k.inuse /\ k.u_cnt = Tries
          /\ k.out_ctr = w.out_ctr /\ k.in_ctr = w.in_ctr /\ k.int = w.int /\ k.ext = w.ext
    <2>1. PICK k : k = [w EXCEPT !.u_cnt = Tries, !.stun = @ \/ ask]
      OBVIOUS
    <2>2. Tries \in 0 .. Tries /\ (w.stun \/ ask) \in BOOLEAN
      BY TriesAssumption
    <2>3. k \in Knowledge
      BY <2>1, <2>2 DEF Knowledge
    <2>4. /\ k.sock = w.sock /\ k.inuse = w.inuse /\ k.u_cnt = Tries
          /\ k.out_ctr = w.out_ctr /\ k.in_ctr = w.in_ctr /\ k.int = w.int /\ k.ext = w.ext
      BY <2>1 DEF Knowledge
    <2> QED
      BY <1>4, <2>1, <2>3, <2>4
  <1>6. Say(e, k, "-U", k.sock)
    BY <1>5 DEF DoNat
  <1>7. k.out_ctr \in Nat /\ k.sock \in 1 .. MaxStart /\ k.u_cnt > 0
    BY <1>4, <1>5, TriesAssumption DEF Knowledge
  <1>8. PICK m \in Message : m = Packet("-U", k.out_ctr, k.sock)
    BY <1>7, MessageMade
  <1>9. m.t = "-U" /\ m.n = k.out_ctr
    BY <1>7, <1>8, MessageMade
  <1>10. /\ end' = [end EXCEPT ![e] = [k EXCEPT !.out_ctr = @ + 1]]
         /\ tcp' = [tcp EXCEPT ![Peer(e)] = Append(@, m)]
         /\ udp' = udp
    <2>1. /\ end' = [end EXCEPT ![e] = [k EXCEPT !.out_ctr = @ + 1]]
          /\ tcp' = [tcp EXCEPT ![Peer(e)] = Append(@, Packet("-U", k.out_ctr, k.sock))]
          /\ udp' = udp
      BY <1>5, <1>6 DEF Say, DoSend, Tor, Know
    <2> QED
      BY <1>8, <2>1
  <1>11. /\ notes' = [notes EXCEPT !.stopped = FALSE] /\ ~notes'.stopped
         /\ starts' \in [Ends -> 0 .. MaxStart] /\ talks' \in [Ends -> 0 .. MaxTalk]
         /\ UNCHANGED <<udp, path, stops, fails>>
    <2>1. starts[e] + 1 \in 0 .. MaxStart
      BY <1>2, <1>3
    <2>2. starts' = [starts EXCEPT ![e] = starts[e] + 1] /\ notes' = [notes EXCEPT !.stopped = FALSE]
      BY DEF DoNat
    <2>3. starts' \in [Ends -> 0 .. MaxStart]
      BY <1>2, <2>1, <2>2
    <2> QED
      BY <1>2, <1>10, <2>2, <2>3 DEF DoNat, Note
  <1>12. m.t \notin {"syn", "-O"} /\ notes' \in {notes, [notes EXCEPT !.stopped = FALSE]}
    BY <1>9, <1>11
  <1>13. PICK l \in Knowledge :
           /\ l = [k EXCEPT !.out_ctr = @ + 1]
           /\ l.inuse = k.inuse /\ l.out_ctr = k.out_ctr + 1 /\ l.in_ctr = k.in_ctr
           /\ l.int = k.int /\ l.ext = k.ext /\ l.sock = k.sock /\ l.u_cnt = k.u_cnt
    BY Counted
  <1>14. SaysStep(e, l, m)
    BY <1>1, <1>4, <1>5, <1>7, <1>9, <1>10, <1>11, <1>12, <1>13 DEF SaysStep
  <1> QED
    BY <1>14, SaysKeep

\* setaddr() tells the peer the address that the STUN server saw.
LEMMA StunAnswerKeeps ==
    ASSUME SwitchInv, NEW e \in Ends, StunAnswer(e)
    PROVE  SwitchInv'
  <1>1. /\ end[e] \in Knowledge /\ end[e].sock # 0 /\ (end[e].u_cnt > 0 => ~end[e].inuse)
    BY Have DEF StunAnswer, SocketRight
  <1>2. PICK k \in Knowledge : k = [end[e] EXCEPT !.stun = FALSE]
    BY <1>1 DEF Knowledge
  <1>3. /\ k.sock = end[e].sock /\ k.inuse = end[e].inuse /\ k.u_cnt = end[e].u_cnt
        /\ k.out_ctr = end[e].out_ctr /\ k.in_ctr = end[e].in_ctr
        /\ k.int = end[e].int /\ k.ext = end[e].ext
        /\ k.sock \in 1 .. MaxStart /\ k.out_ctr \in Nat
    BY <1>1, <1>2, BoundsAssumption DEF Knowledge, Sock
  <1>4. UNCHANGED <<path, starts, stops, fails, talks, notes>>
    BY DEF StunAnswer
  <1>5. CASE end[e].u_cnt > 0
    <2>1. Say(e, k, "-S", k.sock) /\ ~k.inuse
      BY <1>1, <1>2, <1>3, <1>5 DEF StunAnswer
    <2>2. PICK m \in Message : m = Packet("-S", k.out_ctr, k.sock)
      BY <1>3, MessageMade
    <2>3. m.t = "-S" /\ m.n = k.out_ctr
      BY <1>3, <2>2, MessageMade
    <2>4. /\ end' = [end EXCEPT ![e] = [k EXCEPT !.out_ctr = @ + 1]]
          /\ tcp' = [tcp EXCEPT ![Peer(e)] = Append(@, m)]
          /\ udp' = udp
      BY <2>1, <2>2, SaysOverTor
    <2>5. starts' \in [Ends -> 0 .. MaxStart] /\ talks' \in [Ends -> 0 .. MaxTalk]
      BY <1>4 DEF SwitchInv, TypeOK
    <2>6. m.t \notin {"syn", "-O"} /\ notes' \in {notes, [notes EXCEPT !.stopped = FALSE]}
      BY <1>4, <2>3
    <2>7. UNCHANGED <<udp, path, stops, fails>>
      BY <1>4, <2>4
    <2>8. PICK l \in Knowledge :
            /\ l = [k EXCEPT !.out_ctr = @ + 1]
            /\ ~l.inuse /\ l.out_ctr = end[e].out_ctr + 1 /\ l.in_ctr = end[e].in_ctr
            /\ l.int = end[e].int /\ l.ext = end[e].ext /\ l.sock # 0
            /\ l.sock = end[e].sock /\ l.u_cnt = end[e].u_cnt
      BY <1>3, <2>1, Counted
    <2>9. /\ ~end[e].inuse /\ m.n = end[e].out_ctr /\ l.sock # 0
          /\ end' = [end EXCEPT ![e] = l]
      BY <1>1, <1>3, <1>5, <2>3, <2>4, <2>8
    <2>10. SaysStep(e, l, m)
      BY <2>4, <2>5, <2>6, <2>7, <2>8, <2>9 DEF SaysStep
    <2> QED
      BY <2>10, SaysKeep
  <1>6. CASE ~(end[e].u_cnt > 0)
    <2>1. end' = [end EXCEPT ![e] = [end[e] EXCEPT !.stun = FALSE]] /\ tcp' = tcp /\ udp' = udp
      BY <1>2, <1>3, <1>6 DEF StunAnswer, Know
    <2> QED
      BY <1>4, <2>1, SmallStep
  <1> QED
    BY <1>5, <1>6

-----------------------------------------------------------------------------
(* Steps that send over UDP.                                               *)

\* What sendto adds to the datagrams on their way.
LEMMA UdpSends ==
    ASSUME SwitchInv, NEW e \in Ends, NEW from \in 1 .. MaxStart, NEW m \in Message,
           m.t \in {"voice", "syn"}, NEW a \in Addr, Udp(e, from, m, a)
    PROVE  /\ udp' \in [Ends -> SUBSET InAir] /\ udp'[e] = udp[e]
           /\ \A d \in udp'[Peer(e)] : d \in udp[Peer(e)] \/ (d.m = m /\ d.from = from)
  <1>1. PICK p \in Ends : p = Peer(e) /\ p # e
    BY TwoEnds
  <1>2. udp \in [Ends -> SUBSET InAir]
    BY DEF SwitchInv, WiresOK
  <1>3. CASE a.via = path
    <2>1. PICK d : d = Datagram(m, from, a.sock, a.via)
      OBVIOUS
    <2>2. d.m = m /\ d.from = from /\ d \in InAir
      BY <1>3, <2>1 DEF Datagram, InAir, Addr
    <2>3. udp' = [udp EXCEPT ![p] = udp[p] \cup {d}]
      BY <1>1, <1>3, <2>1 DEF Udp
    <2> QED
      BY <1>1, <1>2, <2>2, <2>3
  <1>4. CASE a.via # path
    BY <1>1, <1>2, <1>4 DEF Udp
  <1> QED
    BY <1>3, <1>4

\* A voice packet goes the way its end is on.
LEMMA TalkKeeps ==
    ASSUME SwitchInv, NEW e \in Ends, Talk(e)
    PROVE  SwitchInv'
  <1>1. PICK p \in Ends : p = Peer(e) /\ p # e /\ Peer(p) = e
    BY TwoEnds
  <1>2. /\ end[e] \in Knowledge /\ SocketRight(e) /\ SocketRight(p) /\ end[p].out_ctr \in Nat
        /\ end[e].inuse \in BOOLEAN
    BY Have
  <1>3. PICK l \in Knowledge :
              /\ l = [end[e] EXCEPT !.out_ctr = @ + 1]
              /\ l.sock = end[e].sock /\ l.inuse = end[e].inuse /\ l.to = end[e].to
              /\ l.u_cnt = end[e].u_cnt /\ l.int = end[e].int /\ l.ext = end[e].ext
              /\ l.stun = end[e].stun /\ l.in_ctr = end[e].in_ctr
              /\ l.out_ctr = end[e].out_ctr + 1 /\ end[e].out_ctr \in Nat
    BY <1>2, Counted
  <1>4. PICK m \in Message : m = Packet("voice", end[e].out_ctr, 0)
    BY <1>3, MessageMade
  <1>5. m.t = "voice" /\ m.n = end[e].out_ctr
    BY <1>3, <1>4, MessageMade
  <1>6. /\ end' = [end EXCEPT ![e] = l] /\ UNCHANGED <<path, starts, stops, fails, notes>>
        /\ DoSend(e, end[e], m)
    BY <1>3, <1>4 DEF Talk, Say, Know
  <1>7. starts' \in [Ends -> 0 .. MaxStart] /\ talks' \in [Ends -> 0 .. MaxTalk]
    <2>1. starts \in [Ends -> 0 .. MaxStart] /\ talks \in [Ends -> 0 .. MaxTalk]
      BY DEF SwitchInv, TypeOK
    <2>2. talks[e] + 1 \in 0 .. MaxTalk
      BY <2>1, BoundsAssumption DEF Talk
    <2>3. talks' = [talks EXCEPT ![e] = talks[e] + 1]
      BY DEF Talk
    <2> QED
      BY <1>6, <2>1, <2>2, <2>3
  <1>8. CASE ~end[e].inuse
    <2>1. tcp' = [tcp EXCEPT ![Peer(e)] = Append(@, m)] /\ udp' = udp
      BY <1>6, <1>8 DEF DoSend, Tor
    <2>2. notes' \in {notes, [notes EXCEPT !.stopped = FALSE]} /\ UNCHANGED <<udp, path, stops, fails>>
      BY <1>6, <2>1
    <2>3. l.stun => l.sock # 0
      BY <1>2, <1>3 DEF SocketRight
    <2>4. SaysStep(e, l, m)
      BY <1>3, <1>5, <1>6, <1>7, <1>8, <2>1, <2>2, <2>3 DEF SaysStep
    <2> QED
      BY <2>4, SaysKeep
  <1>9. CASE end[e].inuse
    <2>1. /\ end[e].sock # 0 /\ end[e].to # Nowhere /\ end[e].u_cnt = 0
          /\ end[e].sock \in 1 .. MaxStart /\ end[e].to \in Addr
      BY <1>2, <1>9, BoundsAssumption DEF SocketRight, Knowledge, Sock
    <2>2. Udp(e, end[e].sock, m, end[e].to) /\ tcp' = tcp
      BY <1>6, <1>9, <2>1 DEF DoSend
    <2>3. /\ udp' \in [Ends -> SUBSET InAir] /\ udp'[e] = udp[e]
          /\ \A d \in udp'[p] : d \in udp[p] \/ (d.m = m /\ d.from = end[e].sock)
      BY <1>1, <1>5, <2>1, <2>2, UdpSends
    <2>4. TypeOK' /\ WiresOK' /\ end'[e] = l /\ end'[p] = end[p]
      <3>1. /\ tcp' \in [Ends -> Seq(Message)] /\ path' = path /\ notes' \in Note
            /\ stops' \in 0 .. MaxStop /\ fails' \in 0 .. MaxFail
        BY <1>6, <2>2 DEF SwitchInv, TypeOK, WiresOK
      <3> QED
        BY <1>1, <1>6, <1>7, <2>3, <3>1, Typed
    <2>5. SocketRight(e)' /\ SocketRight(p)'
      BY <1>2, <1>3, <2>4 DEF SocketRight
    <2>6. PICK s \in Message : s.t = "syn" /\ \A o \in Nat : UpTo(s, o)
      BY NothingShown
    <2>7. Bounded(e)' /\ Bounded(p)'
      <3>1. l.out_ctr \in Nat /\ UpTo(m, l.out_ctr)
        BY <1>3, <1>5 DEF UpTo
      <3>2. BoundedStep(e, p, s) /\ BoundedStep(p, e, s)
        BY <1>2, <1>3, <2>2, <2>3, <2>4, <2>6, <3>1 DEF BoundedStep
      <3> QED
        BY <1>1, <3>2, BoundedKept
    <2>8. Caught(e)'
      <3>1. CaughtStep(e, p)
        BY <1>3, <1>6, <2>2, <2>4 DEF CaughtStep
      <3> QED
        BY <1>1, <3>1, CaughtKept
    <2>9. Caught(p)'
      BY <1>1, <1>3, <1>9, <2>4 DEF Caught
    <2>10. Leaves(e)' /\ Leaves(p)'
      <3>1. LeavesStep(e, p, s) /\ LeavesStep(p, e, s)
        BY <1>3, <1>6, <2>1, <2>2, <2>3, <2>4 DEF LeavesStep
      <3> QED
        BY <1>1, <2>6, <3>1, LeavesKept
    <2>11. Meets(e)' /\ Meets(p)'
      <3>1. MeetsStep(e, p, s)
        BY <1>3, <1>6, <2>2, <2>3, <2>4, <2>6 DEF MeetsStep
      <3>2. MeetsStep(p, e, s)
        BY <1>3, <1>6, <1>9, <2>2, <2>3, <2>4, <2>6 DEF MeetsStep
      <3> QED
        BY <1>1, <2>6, <3>1, <3>2, MeetsKept
    <2> QED
      BY <1>1, <2>4, <2>5, <2>7, <2>8, <2>9, <2>10, <2>11, BothEnds
  <1> QED
    BY <1>2, <1>8, <1>9

\* The NAT daemon goes on until it has sent its last SYN.
LEMMA NatSynKeeps ==
    ASSUME SwitchInv, NEW e \in Ends, NatSyn(e)
    PROVE  SwitchInv'
  <1>1. PICK p \in Ends : p = Peer(e) /\ p # e /\ Peer(p) = e
    BY TwoEnds
  <1>2. PICK k \in Knowledge : k = end[e]
    BY Have
  <1>3. /\ SocketRight(e) /\ SocketRight(p) /\ end[p].out_ctr \in Nat /\ k.out_ctr \in Nat
        /\ k.u_cnt \in 0 .. Tries /\ k.int \in 0 .. MaxStart /\ k.ext \in 0 .. MaxStart
        /\ k.sock \in 0 .. MaxStart /\ MaxStart \in Nat /\ Tries \in Nat
    BY <1>2, Have, BoundsAssumption, TriesAssumption DEF Knowledge, Sock
  <1>4. k.u_cnt > 0 /\ (k.int # 0 \/ k.ext # 0) /\ ~k.inuse
    BY <1>2, <1>3 DEF NatSyn, Trying, SocketRight
  <1>5. PICK l \in Knowledge :
              /\ l = AfterSyn(k)
              /\ l.sock = k.sock /\ l.inuse = k.inuse /\ l.to = k.to /\ l.stun = k.stun
              /\ l.in_ctr = k.in_ctr /\ l.out_ctr = k.out_ctr
    <2>1. PICK h \in Knowledge :
              /\ h = [k EXCEPT !.u_cnt = @ - 1, !.int = 0]
              /\ h.sock = k.sock /\ h.inuse = k.inuse /\ h.to = k.to /\ h.stun = k.stun
              /\ h.in_ctr = k.in_ctr /\ h.out_ctr = k.out_ctr
      <3>1. PICK h : h = [k EXCEPT !.u_cnt = @ - 1, !.int = 0]
        OBVIOUS
      <3>2. PICK c \in 0 .. Tries : c = k.u_cnt - 1
        BY <1>3, <1>4
      <3>3. 0 \in Sock
        BY <1>3 DEF Sock
      <3>4. h = [[k EXCEPT !.u_cnt = c] EXCEPT !.int = 0]
        BY <3>1, <3>2 DEF Knowledge
      <3>5. [k EXCEPT !.u_cnt = c] \in Knowledge
        BY DEF Knowledge
      <3>6. h \in Knowledge
        BY <3>3, <3>4, <3>5 DEF Knowledge
      <3>7. /\ h.sock = k.sock /\ h.inuse = k.inuse /\ h.to = k.to /\ h.stun = k.stun
            /\ h.in_ctr = k.in_ctr /\ h.out_ctr = k.out_ctr
        BY <3>1 DEF Knowledge
      <3> QED
        BY <3>1, <3>6, <3>7
    <2>2. 0 \in Sock
      BY <1>3 DEF Sock
    <2>3. CASE h.u_cnt = 0
      <3>1. AfterSyn(k) = [h EXCEPT !.ext = 0]
        BY <2>1, <2>3 DEF AfterSyn
      <3> QED
        BY <2>1, <2>2, <3>1 DEF Knowledge
    <2>4. CASE h.u_cnt # 0
      BY <2>1, <2>4 DEF AfterSyn
    <2> QED
      BY <2>3, <2>4
  <1>6. /\ end' = [end EXCEPT ![e] = l]
        /\ UNCHANGED <<tcp, path, starts, stops, fails, talks>>
        /\ notes' = [notes EXCEPT !.spent = IF Trying(l) THEN @ ELSE @ \cup {e}]
    BY <1>2, <1>5 DEF NatSyn, Know
  <1>7. notes \in Note
    BY DEF SwitchInv, TypeOK
  <1>8. /\ notes' \in Note /\ notes'.stopped = notes.stopped /\ notes'.failed = notes.failed
        /\ notes'.late = notes.late /\ notes.spent \subseteq notes'.spent
        /\ Trying(l) \/ e \in notes'.spent
    BY <1>6, <1>7 DEF Note
  <1>9. PICK m \in Message : m = Syn(k.out_ctr, TRUE)
    BY <1>3, MessageMade
  <1>18. m.t = "syn" /\ m.n = k.out_ctr
    BY <1>3, <1>9, MessageMade
  <1>10. /\ udp' \in [Ends -> SUBSET InAir] /\ udp'[e] = udp[e]
         /\ \A d \in udp'[p] : d \in udp[p] \/ (d.m = m /\ d.from = k.sock)
         /\ k.sock = 0 => udp' = udp
    <2>1. udp \in [Ends -> SUBSET InAir]
      BY DEF SwitchInv, WiresOK
    <2>2. CASE k.sock = 0
      BY <1>2, <2>1, <2>2 DEF NatSyn
    <2>3. CASE k.sock # 0
      <3>1. PICK a \in Addr : a = IF k.int # 0 THEN [sock |-> k.int, via |-> "int"]
                                               ELSE [sock |-> k.ext, via |-> "ext"]
        <4>1. CASE k.int # 0
          <5>1. k.int \in 1 .. MaxStart
            BY <1>3, <4>1
          <5>2. [sock |-> k.int, via |-> "int"] \in Addr
            BY <5>1 DEF Addr, Via
          <5> QED
            BY <4>1, <5>2
        <4>2. CASE k.int = 0
          <5>1. k.ext \in 1 .. MaxStart
            BY <1>3, <1>4, <4>2
          <5>2. [sock |-> k.ext, via |-> "ext"] \in Addr
            BY <5>1 DEF Addr, Via
          <5> QED
            BY <4>2, <5>2
        <4> QED
          BY <4>1, <4>2
      <3>2. Udp(e, k.sock, m, a) /\ k.sock \in 1 .. MaxStart
        <4>1. k.sock \in 1 .. MaxStart
          BY <1>3, <2>3
        <4>2. Udp(e, end[e].sock, Syn(end[e].out_ctr, TRUE), a)
          BY <1>2, <2>3, <3>1 DEF NatSyn
        <4> QED
          BY <1>2, <1>9, <4>1, <4>2
      <3> QED
        BY <1>1, <1>18, <2>3, <3>2, UdpSends
    <2> QED
      BY <2>2, <2>3
  <1>11. TypeOK' /\ WiresOK' /\ end'[e] = l /\ end'[p] = end[p]
    <2>1. /\ tcp' \in [Ends -> Seq(Message)] /\ path' = path
          /\ starts' \in [Ends -> 0 .. MaxStart] /\ talks' \in [Ends -> 0 .. MaxTalk]
          /\ stops' \in 0 .. MaxStop /\ fails' \in 0 .. MaxFail
      BY <1>6 DEF SwitchInv, TypeOK, WiresOK
    <2> QED
      BY <1>1, <1>6, <1>8, <1>10, <2>1, Typed
  <1>12. SocketRight(e)' /\ SocketRight(p)'
    BY <1>2, <1>3, <1>4, <1>5, <1>11 DEF SocketRight
  <1>13. PICK s \in Message : s.t = "syn" /\ \A o \in Nat : UpTo(s, o)
    BY NothingShown
  <1>14. Bounded(e)' /\ Bounded(p)'
    <2>1. l.out_ctr \in Nat /\ UpTo(m, l.out_ctr)
      BY <1>3, <1>5, <1>18 DEF UpTo
    <2>2. BoundedStep(e, p, s)
      BY <1>2, <1>3, <1>5, <1>6, <1>10, <1>11, <1>13 DEF BoundedStep
    <2>3. BoundedStep(p, e, s)
      BY <1>2, <1>3, <1>5, <1>6, <1>10, <1>11, <1>13, <2>1 DEF BoundedStep
    <2> QED
      BY <1>1, <2>2, <2>3, BoundedKept
  <1>15. Caught(e)' /\ Caught(p)'
    <2>1. CaughtStep(e, p) /\ CaughtStep(p, e)
      BY <1>2, <1>5, <1>6, <1>8, <1>11 DEF CaughtStep
    <2> QED
      BY <1>1, <2>1, CaughtKept
  <1>16. Leaves(e)' /\ Leaves(p)'
    <2>1. LeavesStep(e, p, s) /\ LeavesStep(p, e, s)
      BY <1>2, <1>5, <1>6, <1>8, <1>10, <1>11 DEF LeavesStep
    <2> QED
      BY <1>1, <1>13, <2>1, LeavesKept
  <1>17. Meets(e)' /\ Meets(p)'
    <2>1. l.u_cnt = 0 => ~Trying(l)
      BY DEF Trying
    <2>2. MeetsStep(e, p, s)
      BY <1>2, <1>4, <1>5, <1>6, <1>8, <1>10, <1>11, <1>13, <2>1 DEF MeetsStep
    <2>3. MeetsStep(p, e, s)
      BY <1>2, <1>4, <1>5, <1>6, <1>8, <1>10, <1>11, <1>13 DEF MeetsStep
    <2> QED
      BY <1>1, <1>13, <2>2, <2>3, MeetsKept
  <1> QED
    BY <1>1, <1>11, <1>12, <1>14, <1>15, <1>16, <1>17, BothEnds

-----------------------------------------------------------------------------
(* Back to Tor.                                                            *)

\* Nobody is told of a socket that has failed.
LEMMA SocketFailsKeeps ==
    ASSUME SwitchInv, NEW e \in Ends, SocketFails(e)
    PROVE  SwitchInv'
  <1>1. PICK p \in Ends : p = Peer(e) /\ p # e /\ Peer(p) = e
    BY TwoEnds
  <1>2. PICK k \in Knowledge : k = end[e]
    BY Have
  <1>3. /\ SocketRight(e) /\ SocketRight(p) /\ end[p].out_ctr \in Nat /\ k.out_ctr \in Nat
        /\ k.sock # 0 /\ notes \in Note /\ 0 \in Sock
    BY <1>2, Have, BoundsAssumption DEF Knowledge, SocketFails, SwitchInv, TypeOK, Sock
  <1>4. PICK l \in Knowledge :
              /\ l = [[[k EXCEPT !.sock = 0] EXCEPT !.inuse = FALSE] EXCEPT !.stun = FALSE]
              /\ l.sock = 0 /\ ~l.inuse /\ ~l.stun
              /\ l.in_ctr = k.in_ctr /\ l.out_ctr = k.out_ctr
    <2>1. PICK l : l = [[[k EXCEPT !.sock = 0] EXCEPT !.inuse = FALSE] EXCEPT !.stun = FALSE]
      OBVIOUS
    <2>2. l \in Knowledge /\ l.sock = 0 /\ ~l.inuse /\ ~l.stun
          /\ l.in_ctr = k.in_ctr /\ l.out_ctr = k.out_ctr
      BY <1>3, <2>1 DEF Knowledge
    <2> QED
      BY <2>1, <2>2
  <1>5. end' = [end EXCEPT ![e] = l]
    <2>1. end \in [Ends -> Knowledge]
      BY DEF SwitchInv, TypeOK
    <2>2. end' = [end EXCEPT ![e].sock = 0, ![e].inuse = FALSE, ![e].stun = FALSE]
      BY DEF SocketFails
    <2> QED
      BY <1>2, <1>4, <2>1, <2>2
  <1>6. /\ notes' \in Note /\ notes'.stopped = notes.stopped /\ notes'.spent = notes.spent
        /\ notes'.late = notes.late /\ notes'.failed = notes.failed \cup {e}
    BY <1>3 DEF SocketFails, Note
  <1>7. UNCHANGED <<tcp, udp, path, starts, stops, talks>>
    BY DEF SocketFails
  <1>8. fails' \in 0 .. MaxFail /\ fails' # 0
    BY BoundsAssumption DEF SocketFails, SwitchInv, TypeOK
  <1>9. TypeOK' /\ WiresOK' /\ end'[e] = l /\ end'[p] = end[p]
    <2>1. /\ tcp' \in [Ends -> Seq(Message)] /\ udp' \in [Ends -> SUBSET InAir] /\ path' = path
          /\ starts' \in [Ends -> 0 .. MaxStart] /\ talks' \in [Ends -> 0 .. MaxTalk]
          /\ stops' \in 0 .. MaxStop
      BY <1>7 DEF SwitchInv, TypeOK, WiresOK
    <2> QED
      BY <1>1, <1>5, <1>6, <1>8, <2>1, Typed
  <1>10. SocketRight(e)' /\ SocketRight(p)'
    BY <1>3, <1>4, <1>9 DEF SocketRight
  <1>11. PICK s \in Message : s.t = "syn" /\ \A o \in Nat : UpTo(s, o)
    BY NothingShown
  <1>12. Bounded(e)' /\ Bounded(p)'
    <2>1. BoundedStep(e, p, s) /\ BoundedStep(p, e, s)
      BY <1>2, <1>3, <1>4, <1>7, <1>9, <1>11 DEF BoundedStep
    <2> QED
      BY <1>1, <2>1, BoundedKept
  <1>13. Caught(e)'
    <2>1. CaughtStep(e, p)
      BY <1>1, <1>2, <1>4, <1>6, <1>7, <1>9 DEF CaughtStep
    <2> QED
      BY <1>1, <2>1, CaughtKept
  <1>14. Caught(p)'
    BY <1>1, <1>6 DEF Caught
  <1>15. Leaves(e)' /\ Leaves(p)'
    <2>1. Leaves(e)'
      BY <1>4, <1>9 DEF Leaves
    <2>2. LeavesStep(p, e, s)
      BY <1>2, <1>3, <1>6, <1>7, <1>9 DEF LeavesStep
    <2> QED
      BY <1>1, <1>11, <2>1, <2>2, LeavesKept
  <1>16. Meets(e)' /\ Meets(p)'
    BY <1>8 DEF Meets
  <1> QED
    BY <1>1, <1>9, <1>10, <1>12, <1>13, <1>14, <1>15, <1>16, BothEnds

\* An end that has closed its UDP socket.
LEMMA Stopped ==
    ASSUME NEW k \in Knowledge
    PROVE  /\ StopUdp(k) \in Knowledge
           /\ StopUdp(k).sock = 0 /\ ~StopUdp(k).inuse /\ ~StopUdp(k).stun
           /\ StopUdp(k).in_ctr = k.in_ctr /\ StopUdp(k).out_ctr = k.out_ctr
  <1>1. 0 \in Sock /\ 0 \in 0 .. Tries
    BY BoundsAssumption, TriesAssumption DEF Sock
  <1>2. PICK a : a = [k EXCEPT !.sock = 0]
    OBVIOUS
  <1>3. a \in Knowledge /\ a.sock = 0 /\ a.in_ctr = k.in_ctr /\ a.out_ctr = k.out_ctr
    BY <1>1, <1>2 DEF Knowledge
  <1>4. PICK b : b = [a EXCEPT !.inuse = FALSE]
    OBVIOUS
  <1>5. b \in Knowledge /\ b.sock = 0 /\ ~b.inuse /\ b.in_ctr = k.in_ctr /\ b.out_ctr = k.out_ctr
    BY <1>1, <1>4, <1>3 DEF Knowledge
  <1>6. PICK c : c = [b EXCEPT !.int = 0]
    OBVIOUS
  <1>7. c \in Knowledge /\ c.sock = 0 /\ ~c.inuse /\ c.in_ctr = k.in_ctr /\ c.out_ctr = k.out_ctr
    BY <1>1, <1>6, <1>5 DEF Knowledge
  <1>8. PICK d : d = [c EXCEPT !.ext = 0]
    OBVIOUS
  <1>9. d \in Knowledge /\ d.sock = 0 /\ ~d.inuse /\ d.in_ctr = k.in_ctr /\ d.out_ctr = k.out_ctr
    BY <1>1, <1>8, <1>7 DEF Knowledge
  <1>10. PICK g : g = [d EXCEPT !.u_cnt = 0]
    OBVIOUS
  <1>11. g \in Knowledge /\ g.sock = 0 /\ ~g.inuse /\ g.in_ctr = k.in_ctr /\ g.out_ctr = k.out_ctr
    BY <1>1, <1>10, <1>9 DEF Knowledge
  <1>12. PICK h : h = [g EXCEPT !.stun = FALSE]
    OBVIOUS
  <1>13. h \in Knowledge /\ h.sock = 0 /\ ~h.inuse /\ ~h.stun /\ h.in_ctr = k.in_ctr /\ h.out_ctr = k.out_ctr
    BY <1>1, <1>12, <1>11 DEF Knowledge
  <1>14. h = StopUdp(k)
    BY <1>2, <1>4, <1>6, <1>8, <1>10, <1>12 DEF StopUdp, Knowledge
  <1> QED
    BY <1>13, <1>14

\* What shows no counter after n goes on to do so.
LEMMA PushedUpTo ==
    ASSUME NEW q \in Seq(Message), NEW n \in Nat, \A i \in 1 .. Len(q) : UpTo(q[i], n),
           NEW m \in Message, NEW o \in Nat, n <= o, UpTo(m, o)
    PROVE  \A i \in 1 .. Len(Append(q, m)) : UpTo(Append(q, m)[i], o)
  <1>1. PICK r \in Seq(Message) : r = Append(q, m)
    BY Pushed
  <1>2. Len(q) \in Nat /\ Len(r) = Len(q) + 1 /\ r[Len(q) + 1] = m
        /\ \A i \in 1 .. Len(q) : r[i] = q[i] /\ q[i] \in Message
    BY <1>1, Pushed
  <1>3. \A l \in Message : UpTo(l, n) => UpTo(l, o)
    BY MessageHas DEF UpTo
  <1>4. \A i \in 1 .. Len(r) : UpTo(r[i], o)
    BY <1>2, <1>3
  <1> QED
    BY <1>1, <1>4

\* Whoever commands -O leaves UDP and takes its peer along.
LEMMA CommandOKeeps ==
    ASSUME SwitchInv, NEW e \in Ends, CommandO(e)
    PROVE  SwitchInv'
  <1>1. PICK p \in Ends : p = Peer(e) /\ p # e /\ Peer(p) = e
    BY TwoEnds
  <1>2. /\ end[e] \in Knowledge /\ SocketRight(p) /\ end[p].out_ctr \in Nat
        /\ end[p].in_ctr \in Nat /\ tcp[p] \in Seq(Message) /\ udp[p] \subseteq InAir
        /\ Bounded(p)
    BY Have
  <1>3. PICK k \in Knowledge :
              /\ k = StopUdp(end[e]) /\ k.sock = 0 /\ ~k.inuse /\ ~k.stun
              /\ k.in_ctr = end[e].in_ctr /\ k.out_ctr = end[e].out_ctr
    BY <1>2, Stopped
  <1>4. PICK l \in Knowledge :
              /\ l = [k EXCEPT !.out_ctr = @ + 1]
              /\ l.sock = 0 /\ ~l.inuse /\ ~l.stun /\ l.in_ctr = end[e].in_ctr
              /\ l.out_ctr = end[e].out_ctr + 1 /\ end[e].out_ctr \in Nat
    <2>1. PICK l \in Knowledge :
              /\ l = [k EXCEPT !.out_ctr = @ + 1]
              /\ l.sock = k.sock /\ l.inuse = k.inuse /\ l.stun = k.stun
              /\ l.in_ctr = k.in_ctr /\ l.out_ctr = k.out_ctr + 1 /\ k.out_ctr \in Nat
      BY Counted
    <2> QED
      BY <1>3, <2>1
  <1>5. PICK n \in Nat : n = end[e].out_ctr
    BY <1>4
  <1>6. PICK s \in Message, o \in Message : s = Syn(n, TRUE) /\ o = Packet("-O", n, 0)
    <2>1. Syn(n, TRUE) \in Message /\ Packet("-O", n, 0) \in Message
      BY MessageMade
    <2> QED
      BY <2>1
  <1>7. s.t = "syn" /\ s.n = n /\ o.t = "-O" /\ o.n = n
    <2>1. /\ Syn(n, TRUE).t = "syn" /\ Syn(n, TRUE).n = n
          /\ Packet("-O", n, 0).t = "-O" /\ Packet("-O", n, 0).n = n
      BY DEF Syn, Packet
    <2> QED
      BY <1>6, <2>1
  <1>8. PICK q \in Seq(Message) : q = Append(tcp[p], s)
    BY <1>2, Pushed
  <1>9. PICK r \in Seq(Message) : r = Append(q, o)
    BY Pushed
  <1>10. /\ end' = [end EXCEPT ![e] = l]
         /\ tcp' = [tcp EXCEPT ![p] = @ \o <<s, o>>]
         /\ notes' = [notes EXCEPT !.stopped = TRUE, !.failed = @ \ {e}]
         /\ UNCHANGED <<udp, path, starts, fails, talks>>
    BY <1>1, <1>3, <1>4, <1>5, <1>6 DEF CommandO, Know
  <1>11. /\ tcp' \in [Ends -> Seq(Message)] /\ tcp'[p] = r /\ tcp'[e] = tcp[e]
    <2>1. tcp \in [Ends -> Seq(Message)]
      BY DEF SwitchInv, WiresOK
    <2>2. tcp[p] \o <<s, o>> = r
      BY <1>2, <1>8, <1>9, PushedTwice
    <2>3. tcp' = [tcp EXCEPT ![p] = r]
      BY <1>10, <2>2
    <2> QED
      BY <1>1, <2>1, <2>3
  <1>12. notes \in Note
    BY DEF SwitchInv, TypeOK
  <1>13. /\ notes' \in Note /\ notes'.spent = notes.spent /\ notes'.late = notes.late
         /\ notes'.failed = notes.failed \ {e}
    BY <1>10, <1>12 DEF Note
  <1>14. stops' \in 0 .. MaxStop /\ stops' # 0
    BY BoundsAssumption DEF CommandO, SwitchInv, TypeOK
  <1>15. TypeOK' /\ WiresOK' /\ end'[e] = l /\ end'[p] = end[p]
    <2>1. /\ udp' \in [Ends -> SUBSET InAir] /\ path' = path
          /\ starts' \in [Ends -> 0 .. MaxStart] /\ talks' \in [Ends -> 0 .. MaxTalk]
          /\ fails' \in 0 .. MaxFail
      BY <1>10 DEF SwitchInv, TypeOK, WiresOK
    <2> QED
      BY <1>1, <1>10, <1>11, <1>13, <1>14, <2>1, Typed
  <1>16. SocketRight(e)' /\ SocketRight(p)'
    BY <1>2, <1>4, <1>15 DEF SocketRight
  <1>17. /\ end[p].in_ctr <= n
         /\ \A i \in 1 .. Len(tcp[p]) : UpTo(tcp[p][i], n)
         /\ \A d \in udp[p] : UpTo(d.m, n)
    BY <1>1, <1>2, <1>5 DEF Bounded
  <1>18. Bounded(e)'
    <2>1. PICK m \in Message : m.t = "syn" /\ \A c \in Nat : UpTo(m, c)
      BY NothingShown
    <2>2. BoundedStep(e, p, m)
      BY <1>2, <1>4, <1>10, <1>11, <1>15, <2>1 DEF BoundedStep
    <2> QED
      BY <1>1, <2>2, BoundedKept
  <1>19. Bounded(p)'
    <2>1. PICK c \in Nat : c = n + 1 /\ c = l.out_ctr
      BY <1>4, <1>5
    <2>2. UpTo(s, n) /\ UpTo(o, c)
      BY <1>7, <2>1 DEF UpTo
    <2>3. \A i \in 1 .. Len(q) : UpTo(q[i], n)
      BY <1>2, <1>8, <1>17, <2>2, PushedUpTo
    <2>4. \A i \in 1 .. Len(r) : UpTo(r[i], c)
      BY <1>9, <2>1, <2>2, <2>3, PushedUpTo
    <2>5. \A d \in udp'[p] : UpTo(d.m, c)
      <3>1. \A m \in Message : UpTo(m, n) => UpTo(m, c)
        BY <2>1, MessageHas DEF UpTo
      <3>2. \A d \in udp[p] : d.m \in Message
        BY <1>2 DEF InAir
      <3> QED
        BY <1>10, <1>17, <3>1, <3>2
    <2>6. end'[p].in_ctr <= c
      BY <1>2, <1>15, <1>17, <2>1
    <2> QED
      BY <1>1, <1>11, <1>15, <2>1, <2>4, <2>5, <2>6 DEF Bounded
  <1>20. Caught(e)'
    <2>1. CaughtStep(e, p)
      BY <1>1, <1>4, <1>11, <1>13, <1>15 DEF CaughtStep
    <2> QED
      BY <1>1, <2>1, CaughtKept
  <1>21. Caught(p)'
    <2>1. Brings(q, end[p].in_ctr, n)
      BY <1>2, <1>7, <1>8, BringsSyn
    <2>2. Brings(r, end[p].in_ctr, n + 1)
      BY <1>2, <1>7, <1>9, <2>1, BringsPacket
    <2> QED
      BY <1>1, <1>4, <1>5, <1>11, <1>15, <2>2 DEF Caught
  <1>22. Leaves(e)'
    BY <1>4, <1>15 DEF Leaves
  <1>23. Leaves(p)'
    <2>1. Stops(r, udp[p], end[p].in_ctr)
      BY <1>2, <1>7, <1>8, <1>9, <1>17, StopsNew
    <2> QED
      BY <1>1, <1>4, <1>10, <1>11, <1>15, <2>1 DEF Leaves
  <1>24. Meets(e)' /\ Meets(p)'
    BY <1>14 DEF Meets
  <1> QED
    BY <1>1, <1>15, <1>16, <1>18, <1>19, <1>20, <1>21, <1>22, <1>23, <1>24, BothEnds

-----------------------------------------------------------------------------
(* Hearing over Tor.                                                       *)

\* What a message that is taken changes for its receiver.
Heard(k, m, l) ==
    /\ l.in_ctr = After(k.in_ctr, m) /\ l.out_ctr = k.out_ctr
    /\ m.t = "-O" => l.sock = 0 /\ ~l.inuse /\ ~l.stun
    /\ m.t # "-O" => /\ l.sock = k.sock /\ l.inuse = k.inuse /\ l.to = k.to
                     /\ l.u_cnt = k.u_cnt /\ l.stun = k.stun
                     /\ Trying(k) => Trying(l)

\* What an end knows after a message it takes: go_syn() or go_chat() has done its part.
LEMMA HeardIs ==
    ASSUME NEW k \in Knowledge, NEW m \in Message, Taken(k, m)
    PROVE  \E l \in Knowledge :
              /\ l = IF m.t = "syn" THEN GoSyn(k, m) ELSE GoChat([k EXCEPT !.in_ctr = m.n + 1], m)
              /\ Heard(k, m, l)
  <1>1. m.n \in Nat /\ k.in_ctr \in Nat
    BY MessageHas DEF Knowledge
  <1>2. CASE m.t = "syn"
    <2>1. PICK h \in Nat : h = IF m.n > k.in_ctr THEN m.n ELSE k.in_ctr
      BY <1>1
    <2>2. PICK l : l = [k EXCEPT !.in_ctr = h]
      OBVIOUS
    <2>3. l \in Knowledge /\ l = GoSyn(k, m) /\ h = After(k.in_ctr, m)
      BY <1>2, <2>1, <2>2 DEF Knowledge, GoSyn, After
    <2>4. /\ l.in_ctr = h /\ l.out_ctr = k.out_ctr /\ l.sock = k.sock /\ l.inuse = k.inuse
          /\ l.to = k.to /\ l.u_cnt = k.u_cnt /\ l.stun = k.stun /\ l.int = k.int /\ l.ext = k.ext
      BY <2>2 DEF Knowledge
    <2>5. Heard(k, m, l)
      BY <1>2, <2>3, <2>4 DEF Heard, Trying
    <2> QED
      BY <1>2, <2>3, <2>5
  <1>3. CASE m.t # "syn"
    <2>1. m.n = k.in_ctr
      BY <1>3 DEF Taken
    <2>2. PICK h \in Nat : h = m.n + 1 /\ h = After(k.in_ctr, m)
      BY <1>1, <1>3, <2>1 DEF After
    <2>3. PICK j : j = [k EXCEPT !.in_ctr = h]
      OBVIOUS
    <2>4. /\ j \in Knowledge
          /\ j.in_ctr = h /\ j.out_ctr = k.out_ctr /\ j.sock = k.sock /\ j.inuse = k.inuse
          /\ j.to = k.to /\ j.u_cnt = k.u_cnt /\ j.stun = k.stun /\ j.int = k.int /\ j.ext = k.ext
      BY <2>3 DEF Knowledge
    <2> SUFFICES \E l \in Knowledge : l = GoChat(j, m) /\ Heard(k, m, l)
      BY <1>3, <2>2, <2>3
    <2>5. CASE m.t = "-O"
      <3>1. GoChat(j, m) = StopUdp(j)
        BY <2>5 DEF GoChat
      <3>2. PICK l \in Knowledge :
              /\ l = StopUdp(j) /\ l.sock = 0 /\ ~l.inuse /\ ~l.stun
              /\ l.in_ctr = j.in_ctr /\ l.out_ctr = j.out_ctr
        BY <2>4, Stopped
      <3>3. Heard(k, m, l)
        BY <2>2, <2>4, <2>5, <3>2 DEF Heard
      <3> QED
        BY <3>1, <3>2, <3>3
    <2>6. CASE m.t = "-U"
      <3>1. PICK c \in 1 .. MaxStart : c = m.sock
        BY <2>6, MessageHas
      <3>2. c \in Sock /\ c # 0
        BY BoundsAssumption DEF Sock
      <3>3. PICK l : l = [j EXCEPT !.int = c]
        OBVIOUS
      <3>4. /\ l \in Knowledge
            /\ l.in_ctr = h /\ l.out_ctr = k.out_ctr /\ l.sock = k.sock /\ l.inuse = k.inuse
            /\ l.to = k.to /\ l.u_cnt = k.u_cnt /\ l.stun = k.stun /\ l.int = c /\ l.ext = k.ext
        BY <2>4, <3>2, <3>3 DEF Knowledge
      <3>5. Heard(k, m, l)
        BY <2>2, <2>6, <3>2, <3>4 DEF Heard, Trying
      <3>6. l = GoChat(j, m)
        BY <2>6, <3>1, <3>3 DEF GoChat
      <3> QED
        BY <3>4, <3>5, <3>6
    <2>7. CASE m.t = "-S"
      <3>1. PICK c \in 1 .. MaxStart : c = m.sock
        BY <2>7, MessageHas
      <3>2. c \in Sock /\ c # 0
        BY BoundsAssumption DEF Sock
      <3>3. PICK l : l = [j EXCEPT !.ext = c]
        OBVIOUS
      <3>4. /\ l \in Knowledge
            /\ l.in_ctr = h /\ l.out_ctr = k.out_ctr /\ l.sock = k.sock /\ l.inuse = k.inuse
            /\ l.to = k.to /\ l.u_cnt = k.u_cnt /\ l.stun = k.stun /\ l.int = k.int /\ l.ext = c
        BY <2>4, <3>2, <3>3 DEF Knowledge
      <3>5. Heard(k, m, l)
        BY <2>2, <2>7, <3>2, <3>4 DEF Heard, Trying
      <3>6. l = GoChat(j, m)
        BY <2>7, <3>1, <3>3 DEF GoChat
      <3> QED
        BY <3>4, <3>5, <3>6
    <2>8. CASE m.t \notin {"-O", "-U", "-S"}
      <3>1. j = GoChat(j, m)
        BY <2>8 DEF GoChat
      <3>2. Heard(k, m, j)
        BY <2>2, <2>4, <2>8 DEF Heard, Trying
      <3> QED
        BY <2>4, <3>1, <3>2
    <2> QED
      BY <2>5, <2>6, <2>7, <2>8
  <1> QED
    BY <1>2, <1>3

\* What is answered over Tor is a SYN that shows the counter.
LEMMA ReplyIs ==
    ASSUME NEW k \in Knowledge, NEW m \in Message, NEW q \in Seq(Message)
    PROVE  \E x \in Message :
              /\ x.t = "syn" /\ x.n = k.out_ctr
              /\ q \o Reply(k, m) \in {q, Append(q, x)}
              /\ m.t = "-O" => q \o Reply(k, m) = Append(q, x)
  <1>1. k.out_ctr \in Nat
    BY DEF Knowledge
  <1>2. PICK a \in Message, b \in Message : a = Syn(k.out_ctr, FALSE) /\ b = Syn(k.out_ctr, TRUE)
    <2>1. Syn(k.out_ctr, FALSE) \in Message /\ Syn(k.out_ctr, TRUE) \in Message
      BY <1>1, MessageMade
    <2> QED
      BY <2>1
  <1>3. a.t = "syn" /\ a.n = k.out_ctr /\ b.t = "syn" /\ b.n = k.out_ctr
    <2>1. /\ Syn(k.out_ctr, FALSE).t = "syn" /\ Syn(k.out_ctr, FALSE).n = k.out_ctr
          /\ Syn(k.out_ctr, TRUE).t = "syn" /\ Syn(k.out_ctr, TRUE).n = k.out_ctr
      BY DEF Syn
    <2> QED
      BY <1>2, <2>1
  <1>4. q \o <<a>> = Append(q, a) /\ q \o <<b>> = Append(q, b) /\ q \o <<>> = q
    BY Pushed
  <1>5. CASE m.t = "syn" /\ m.ask
    <2>1. Reply(k, m) = <<a>> /\ m.t # "-O"
      BY <1>2, <1>5 DEF Reply
    <2> QED
      BY <1>3, <1>4, <2>1
  <1>6. CASE m.t = "-O"
    <2>1. Reply(k, m) = <<b>>
      BY <1>2, <1>6 DEF Reply
    <2> QED
      BY <1>3, <1>4, <2>1
  <1>7. CASE ~(m.t = "syn" /\ m.ask) /\ m.t # "-O"
    <2>1. Reply(k, m) = <<>>
      BY <1>7 DEF Reply
    <2> QED
      BY <1>3, <1>4, <1>7, <2>1
  <1> QED
    BY <1>5, <1>6, <1>7

\* Whoever hears over Tor comes closer to its peer, and is told what it will hear.
LEMMA HearTorKeeps ==
    ASSUME SwitchInv, NEW e \in Ends, HearTor(e)
    PROVE  SwitchInv'
  <1>1. PICK p \in Ends : p = Peer(e) /\ p # e /\ Peer(p) = e
    BY TwoEnds
  <1>2. PICK k \in Knowledge : k = end[e]
    BY Have
  <1>3. /\ SocketRight(e) /\ SocketRight(p) /\ end[p].out_ctr \in Nat /\ k.out_ctr \in Nat
        /\ k.in_ctr \in Nat /\ tcp[e] \in Seq(Message) /\ tcp[p] \in Seq(Message)
        /\ k.inuse \in BOOLEAN
    BY <1>2, Have
  <1>4. tcp[e] # <<>>
    BY DEF HearTor
  <1>5. PICK m \in Message : m = Head(tcp[e]) /\ m = tcp[e][1]
    BY <1>3, <1>4, Popped
  <1>6. PICK q \in Seq(Message) : q = Tail(tcp[e])
    BY <1>3, <1>4, Popped
  <1>7. PICK h \in Nat : h = After(k.in_ctr, m)
    BY <1>3, AfterIs
  <1>8. /\ tcp \in [Ends -> Seq(Message)] /\ udp \in [Ends -> SUBSET InAir]
        /\ end \in [Ends -> Knowledge] /\ notes \in Note
    BY DEF SwitchInv, WiresOK, TypeOK
  <1>9. UNCHANGED <<udp, path, starts, stops, fails, talks>>
    BY DEF HearTor
  <1>10. PICK x \in Message :
              /\ x.t = "syn" /\ x.n = k.out_ctr
              /\ tcp[p] \o Reply(k, m) \in {tcp[p], Append(tcp[p], x)}
              /\ m.t = "-O" => tcp[p] \o Reply(k, m) = Append(tcp[p], x)
    BY <1>3, ReplyIs
  <1>11. PICK l \in Knowledge :
           /\ end' = [end EXCEPT ![e] = l] /\ l.in_ctr = h /\ l.out_ctr = k.out_ctr
           /\ \/ Taken(k, m) /\ Heard(k, m, l)
              \/ ~Taken(k, m) /\ l = k
    <2>1. CASE Taken(k, m)
      <3>1. PICK l \in Knowledge :
              /\ l = IF m.t = "syn" THEN GoSyn(k, m) ELSE GoChat([k EXCEPT !.in_ctr = m.n + 1], m)
              /\ Heard(k, m, l)
        BY <2>1, HeardIs
      <3>2. end' = [end EXCEPT ![e] = l]
        BY <1>2, <1>5, <2>1, <3>1 DEF HearTor, Know
      <3>3. l.in_ctr = h /\ l.out_ctr = k.out_ctr
        BY <1>7, <3>1 DEF Heard
      <3> QED
        BY <2>1, <3>1, <3>2, <3>3
    <2>2. CASE ~Taken(k, m)
      <3>1. end' = end
        BY <1>2, <1>5, <2>2 DEF HearTor
      <3>2. h = k.in_ctr
        BY <1>3, <1>7, <2>2 DEF Taken, After
      <3>3. end' = [end EXCEPT ![e] = k]
        BY <1>2, <1>8, <3>1
      <3> QED
        BY <2>2, <3>2, <3>3
    <2> QED
      BY <2>1, <2>2
  <1>12. /\ tcp' \in [Ends -> Seq(Message)] /\ tcp'[e] = q
         /\ tcp'[p] \in {tcp[p], Append(tcp[p], x)}
         /\ (Taken(k, m) /\ m.t = "-O" => tcp'[p] = Append(tcp[p], x))
    <2>1. CASE Taken(k, m)
      <3>1. PICK r \in Seq(Message) : r = tcp[p] \o Reply(k, m)
        BY <1>3, <1>10, Pushed
      <3>2. tcp' = [[tcp EXCEPT ![e] = q] EXCEPT ![p] = @ \o Reply(k, m)]
        BY <1>1, <1>2, <1>5, <1>6, <2>1 DEF HearTor
      <3>3. tcp' = [[tcp EXCEPT ![e] = q] EXCEPT ![p] = r]
        BY <1>1, <1>8, <3>1, <3>2
      <3> QED
        BY <1>1, <1>8, <1>10, <3>1, <3>3
    <2>2. CASE ~Taken(k, m)
      <3>1. tcp' = [tcp EXCEPT ![e] = q]
        BY <1>2, <1>5, <1>6, <2>2 DEF HearTor
      <3> QED
        BY <1>1, <1>8, <2>2, <3>1
    <2> QED
      BY <2>1, <2>2
  <1>13. /\ notes' \in Note /\ notes'.stopped = notes.stopped /\ notes'.spent = notes.spent
         /\ notes'.late = notes.late /\ (p \in notes'.failed <=> p \in notes.failed)
         /\ notes' = notes \/ (Taken(k, m) /\ m.t = "-O")
    <2>1. notes' = notes \/ (Taken(k, m) /\ m.t = "-O" /\ notes' = [notes EXCEPT !.failed = @ \ {e}])
      BY <1>2, <1>5 DEF HearTor
    <2> QED
      BY <1>1, <1>8, <2>1 DEF Note
  <1>14. TypeOK' /\ WiresOK' /\ end'[e] = l /\ end'[p] = end[p]
    <2>1. /\ udp' \in [Ends -> SUBSET InAir] /\ path' = path
          /\ starts' \in [Ends -> 0 .. MaxStart] /\ talks' \in [Ends -> 0 .. MaxTalk]
          /\ stops' \in 0 .. MaxStop /\ fails' \in 0 .. MaxFail
      BY <1>8, <1>9 DEF SwitchInv, TypeOK
    <2> QED
      BY <1>1, <1>11, <1>12, <1>13, <2>1, Typed
  <1>15. /\ m.t = "-O" /\ Taken(k, m) => l.sock = 0 /\ ~l.inuse /\ ~l.stun
         /\ ~(m.t = "-O" /\ Taken(k, m)) =>
              /\ l.sock = k.sock /\ l.inuse = k.inuse /\ l.to = k.to /\ l.u_cnt = k.u_cnt
              /\ l.stun = k.stun /\ (Trying(k) => Trying(l))
    BY <1>11 DEF Heard
  <1>16. SocketRight(e)' /\ SocketRight(p)'
    BY <1>2, <1>3, <1>14, <1>15 DEF SocketRight
  <1>17. \A i \in 1 .. Len(q) : i + 1 \in 1 .. Len(tcp[e]) /\ q[i] = tcp[e][i + 1]
    BY <1>3, <1>4, <1>6, Popped
  <1>18. 1 \in 1 .. Len(tcp[e])
    BY <1>3, <1>4, Popped
  <1>19. Bounded(e)'
    <2>1. PICK n \in Nat : n = end[p].out_ctr
      BY <1>3
    <2>2. /\ k.in_ctr <= n
          /\ \A i \in 1 .. Len(tcp[e]) : UpTo(tcp[e][i], n)
          /\ \A d \in udp[e] : UpTo(d.m, n)
      BY <1>1, <1>2, <2>1, Have DEF Bounded
    <2>3. UpTo(m, n)
      BY <1>5, <1>18, <2>2
    <2>4. h <= n
      BY <1>3, <1>7, <2>2, <2>3, AfterIs
    <2>5. \A i \in 1 .. Len(q) : UpTo(q[i], n)
      BY <1>17, <2>2
    <2> QED
      BY <1>1, <1>9, <1>11, <1>12, <1>14, <2>1, <2>2, <2>4, <2>5 DEF Bounded
  <1>20. Bounded(p)'
    <2>1. UpTo(x, k.out_ctr)
      BY <1>3, <1>10 DEF UpTo
    <2>2. BoundedStep(p, e, x)
      BY <1>2, <1>3, <1>9, <1>11, <1>12, <1>14, <2>1 DEF BoundedStep
    <2> QED
      BY <1>1, <2>2, BoundedKept
  <1>21. Caught(e)'
    <2> SUFFICES ASSUME ~end[p].inuse, p \notin notes.failed, e \notin notes.late
                 PROVE  Brings(q, h, end[p].out_ctr)
      BY <1>1, <1>11, <1>12, <1>13, <1>14 DEF Caught
    <2>1. Brings(tcp[e], k.in_ctr, end[p].out_ctr)
      BY <1>1, <1>2, Have DEF Caught
    <2> QED
      BY <1>3, <1>4, <1>5, <1>6, <1>7, <2>1, BringsPopped
  <1>22. Caught(p)'
    <2>1. CASE tcp'[p] = Append(tcp[p], x)
      <3>1. end[p].in_ctr \in Nat
        BY Have
      <3>2. Brings(Append(tcp[p], x), end[p].in_ctr, k.out_ctr)
        BY <1>3, <1>10, <3>1, BringsSyn
      <3> QED
        BY <1>1, <1>11, <1>14, <2>1, <3>2 DEF Caught
    <2>2. CASE tcp'[p] # Append(tcp[p], x)
      <3>1. CaughtStep(p, e)
        BY <1>2, <1>11, <1>12, <1>13, <1>14, <1>15, <2>2 DEF CaughtStep
      <3> QED
        BY <1>1, <3>1, CaughtKept
    <2> QED
      BY <2>1, <2>2
  <1>23. Leaves(e)'
    <2> SUFFICES ASSUME notes.stopped, notes.late = {}, l.sock # 0
                 PROVE  end[p].sock = 0 /\ Stops(q, udp[e], h)
      BY <1>1, <1>9, <1>11, <1>12, <1>13, <1>14 DEF Leaves
    <2>1. ~(m.t = "-O" /\ Taken(k, m)) /\ k.sock # 0
      BY <1>15
    <2>2. end[p].sock = 0 /\ Stops(tcp[e], udp[e], k.in_ctr)
      BY <1>1, <1>2, <2>1, Have DEF Leaves
    <2>3. ~(m.t = "-O" /\ m.n = k.in_ctr)
      BY <2>1 DEF Taken
    <2> QED
      BY <1>3, <1>4, <1>5, <1>6, <1>7, <2>2, <2>3, StopsPopped
  <1>24. Leaves(p)'
    <2>1. LeavesStep(p, e, x)
      BY <1>2, <1>9, <1>12, <1>13, <1>14, <1>15 DEF LeavesStep
    <2> QED
      BY <1>1, <2>1, LeavesKept
  <1>25. stops = 0 /\ fails = 0 => m.t # "-O" /\ \A i \in 1 .. Len(tcp[e]) : tcp[e][i].t # "-O"
    <2>1. stops = 0 /\ fails = 0 => \A i \in 1 .. Len(tcp[e]) : tcp[e][i].t # "-O"
      BY Have DEF Meets
    <2> QED
      BY <1>5, <1>18, <2>1
  <1>26. Meets(e)'
    <2> SUFFICES ASSUME stops = 0, fails = 0
                 PROVE  /\ \A i \in 1 .. Len(q) : q[i].t # "-O"
                        /\ \A d \in udp[e] : d.from = end[p].sock
                        /\ l.inuse => l.to = [sock |-> end[p].sock, via |-> path]
                        /\ udp[e] # {} \/ l.inuse => p \in notes.spent
                                      \/ Trying(end[p]) \/ end[p].inuse
                        /\ l.sock # 0 /\ l.u_cnt = 0 => e \in notes.spent \/ l.inuse
      BY <1>1, <1>9, <1>12, <1>13, <1>14 DEF Meets
    <2>1. \A i \in 1 .. Len(q) : q[i].t # "-O"
      BY <1>17, <1>25
    <2>2. l.sock = k.sock /\ l.inuse = k.inuse /\ l.to = k.to /\ l.u_cnt = k.u_cnt
      BY <1>15, <1>25
    <2>3. /\ \A d \in udp[e] : d.from = end[p].sock
          /\ k.inuse => k.to = [sock |-> end[p].sock, via |-> path]
          /\ udp[e] # {} \/ k.inuse => p \in notes.spent \/ Trying(end[p]) \/ end[p].inuse
          /\ k.sock # 0 /\ k.u_cnt = 0 => e \in notes.spent \/ k.inuse
      BY <1>1, <1>2, Have DEF Meets
    <2> QED
      BY <2>1, <2>2, <2>3
  <1>27. Meets(p)'
    <2>1. stops = 0 /\ fails = 0 =>
              l.sock = k.sock /\ l.inuse = k.inuse /\ (Trying(k) => Trying(l))
      BY <1>15, <1>25
    <2>2. MeetsStep(p, e, x)
      BY <1>2, <1>9, <1>10, <1>12, <1>13, <1>14, <2>1 DEF MeetsStep
    <2> QED
      BY <1>1, <2>2, MeetsKept
  <1> QED
    BY <1>1, <1>14, <1>16, <1>19, <1>20, <1>21, <1>22, <1>23, <1>24, <1>26, <1>27, BothEnds

-----------------------------------------------------------------------------
(* Hearing over UDP.                                                       *)

\* What is sent to e over UDP: a datagram that e's socket hears shows that it has one.
LEMMA DatagramIs ==
    ASSUME SwitchInv, NEW e \in Ends, NEW d \in udp[e]
    PROVE  /\ d.m \in Message /\ d.m.n \in Nat /\ d.m.t \in {"voice", "syn"}
           /\ d.from \in 1 .. MaxStart /\ d.dest \in 1 .. MaxStart /\ d.via = path
           /\ UpTo(d.m, end[Peer(e)].out_ctr)
           /\ stops = 0 /\ fails = 0 =>
                /\ d.from = end[Peer(e)].sock
                /\ Peer(e) \in notes.spent \/ Trying(end[Peer(e)]) \/ end[Peer(e)].inuse
  <1>1. d \in InAir /\ Bounded(e) /\ Meets(e)
    BY Have
  <1>2. d.m \in Message /\ d.m.t \in {"voice", "syn"}
    BY <1>1 DEF InAir
  <1>3. d.from \in 1 .. MaxStart /\ d.dest \in 1 .. MaxStart /\ d.via = path
    BY <1>1 DEF InAir
  <1>4. UpTo(d.m, end[Peer(e)].out_ctr)
    BY <1>1 DEF Bounded
  <1>5. udp[e] # {}
    OBVIOUS
  <1> QED
    BY <1>1, <1>2, <1>3, <1>4, <1>5, MessageHas DEF Meets

\* A SYN over UDP brings an end that is trying to UDP, and its sender goes on.
LEMMA HearSynKeeps ==
    ASSUME SwitchInv, NEW e \in Ends, NEW d \in udp[e], HearSyn(e, d)
    PROVE  SwitchInv'
  <1>1. PICK p \in Ends : p = Peer(e) /\ p # e /\ Peer(p) = e
    BY TwoEnds
  <1>2. PICK k \in Knowledge : k = end[e]
    BY Have
  <1>3. /\ SocketRight(e) /\ SocketRight(p) /\ end[p].out_ctr \in Nat /\ k.out_ctr \in Nat
        /\ k.in_ctr \in Nat /\ tcp[e] \in Seq(Message)
        /\ k.u_cnt \in 0 .. Tries /\ Tries \in Nat /\ k.inuse \in BOOLEAN
    BY <1>2, Have, TriesAssumption DEF Knowledge
  <1>4. /\ d.m \in Message /\ d.m.n \in Nat /\ d.m.t = "syn" /\ d.dest = k.sock
        /\ d.from \in 1 .. MaxStart /\ d.dest \in 1 .. MaxStart /\ d.via = path
        /\ UpTo(d.m, end[p].out_ctr)
        /\ stops = 0 /\ fails = 0 =>
             d.from = end[p].sock /\ (p \in notes.spent \/ Trying(end[p]) \/ end[p].inuse)
    BY <1>1, <1>2, DatagramIs DEF HearSyn
  <1>5. /\ tcp \in [Ends -> Seq(Message)] /\ udp \in [Ends -> SUBSET InAir]
        /\ UNCHANGED <<tcp, path, starts, stops, fails, talks, notes>>
    BY DEF SwitchInv, WiresOK, HearSyn
  <1>6. PICK h \in Nat : h = IF d.m.n > k.in_ctr THEN d.m.n ELSE k.in_ctr
    BY <1>3, <1>4
  <1>7. k.in_ctr <= h /\ \A n \in Nat : k.in_ctr <= n /\ UpTo(d.m, n) => h <= n
    BY <1>3, <1>4, <1>6 DEF UpTo
  <1>8. PICK g \in Knowledge :
              /\ g = GoSyn(k, d.m)
              /\ g.in_ctr = h /\ g.out_ctr = k.out_ctr /\ g.sock = k.sock /\ g.inuse = k.inuse
              /\ g.to = k.to /\ g.u_cnt = k.u_cnt /\ g.stun = k.stun /\ g.int = k.int /\ g.ext = k.ext
    <2>1. PICK g : g = [k EXCEPT !.in_ctr = h]
      OBVIOUS
    <2>2. /\ g \in Knowledge
          /\ g.in_ctr = h /\ g.out_ctr = k.out_ctr /\ g.sock = k.sock /\ g.inuse = k.inuse
          /\ g.to = k.to /\ g.u_cnt = k.u_cnt /\ g.stun = k.stun /\ g.int = k.int /\ g.ext = k.ext
      BY <2>1 DEF Knowledge
    <2>3. g = GoSyn(k, d.m)
      BY <1>6, <2>1 DEF GoSyn
    <2> QED
      BY <2>2, <2>3
  <1>9. PICK to \in Addr : to = [sock |-> d.from, via |-> path] /\ to # Nowhere
    <2>1. PICK to \in Addr : to = [sock |-> d.from, via |-> path]
      BY <1>4 DEF SwitchInv, TypeOK, Addr
    <2>2. to.sock = d.from /\ d.from # 0 /\ Nowhere.sock = 0
      BY <1>4, <2>1 DEF Nowhere
    <2> QED
      BY <2>1, <2>2
  <1>10. PICK l \in Knowledge :
           /\ end' = [end EXCEPT ![e] = l] /\ l = IF g.u_cnt > 0 THEN Switched(g, d) ELSE g
           /\ l.in_ctr = h /\ l.out_ctr = k.out_ctr /\ l.sock = k.sock /\ l.stun = k.stun
           /\ \/ l.inuse /\ l.u_cnt = 0 /\ l.to = to /\ g.u_cnt > 0
              \/ /\ l.inuse = k.inuse /\ l.u_cnt = k.u_cnt /\ l.to = k.to /\ k.u_cnt = 0
                 /\ l.int = k.int /\ l.ext = k.ext
    <2>1. CASE g.u_cnt > 0
      <3>1. 0 \in Sock /\ 0 \in 0 .. Tries
        BY BoundsAssumption, TriesAssumption DEF Sock
      <3>2. PICK a : a = [g EXCEPT !.to = to]
        OBVIOUS
      <3>3. PICK b : b = [a EXCEPT !.inuse = TRUE]
        OBVIOUS
      <3>4. PICK c : c = [b EXCEPT !.u_cnt = 0]
        OBVIOUS
      <3>5. PICK i : i = [c EXCEPT !.int = 0]
        OBVIOUS
      <3>6. PICK l : l = [i EXCEPT !.ext = 0]
        OBVIOUS
      <3>7. /\ b \in Knowledge /\ b.inuse /\ b.to = to
            /\ b.in_ctr = h /\ b.out_ctr = k.out_ctr /\ b.sock = k.sock /\ b.stun = k.stun
        BY <1>8, <3>2, <3>3 DEF Knowledge
      <3>8. /\ i \in Knowledge /\ i.inuse /\ i.to = to /\ i.u_cnt = 0
            /\ i.in_ctr = h /\ i.out_ctr = k.out_ctr /\ i.sock = k.sock /\ i.stun = k.stun
        BY <3>1, <3>4, <3>5, <3>7 DEF Knowledge
      <3>9. /\ l \in Knowledge /\ l.inuse /\ l.to = to /\ l.u_cnt = 0
            /\ l.in_ctr = h /\ l.out_ctr = k.out_ctr /\ l.sock = k.sock /\ l.stun = k.stun
        BY <3>1, <3>6, <3>8 DEF Knowledge
      <3>10. l = Switched(g, d)
        BY <1>4, <1>9, <3>2, <3>3, <3>4, <3>5, <3>6 DEF Switched, Knowledge
      <3>11. end' = [end EXCEPT ![e] = l]
        BY <1>2, <1>8, <2>1, <3>10 DEF HearSyn, Know
      <3> QED
        BY <2>1, <3>9, <3>10, <3>11
    <2>2. CASE ~(g.u_cnt > 0)
      <3>1. end' = [end EXCEPT ![e] = g]
        BY <1>2, <1>8, <2>2 DEF HearSyn, Know
      <3>2. k.u_cnt = 0
        BY <1>3, <1>8, <2>2
      <3> QED
        BY <1>8, <2>2, <3>1, <3>2
    <2> QED
      BY <2>1, <2>2
  <1>11. PICK s \in Message : s = Answer(g, d.m) /\ s.t = "syn" /\ UpTo(s, k.out_ctr)
    <2>1. CASE d.m.ask
      <3>1. PICK s \in Message : s = Syn(k.out_ctr, FALSE)
        BY <1>3, MessageMade
      <3>2. s = Answer(g, d.m)
        BY <1>8, <2>1, <3>1 DEF Answer
      <3>3. s.t = "syn" /\ s.n = k.out_ctr
        BY <3>1 DEF Syn
      <3> QED
        BY <1>3, <3>2, <3>3 DEF UpTo
    <2>2. CASE ~d.m.ask
      <3>1. PICK s \in Message : s = Syn(0, FALSE)
        BY MessageMade
      <3>2. s = Answer(g, d.m)
        BY <2>2, <3>1 DEF Answer, Echo
      <3>3. s.t = "syn" /\ s.n = 0
        BY <3>1 DEF Syn
      <3> QED
        BY <1>3, <3>2, <3>3 DEF UpTo
    <2> QED
      BY <2>1, <2>2
  <1>12. PICK sent \in InAir :
           /\ sent = [m |-> Answer(g, d.m), from |-> g.sock, dest |-> d.from, via |-> d.via]
           /\ sent.m = s /\ sent.from = k.sock
    <2>1. PICK sent : sent = [m |-> s, from |-> k.sock, dest |-> d.from, via |-> d.via]
      OBVIOUS
    <2>2. sent \in InAir /\ sent.m = s /\ sent.from = k.sock
      BY <1>4, <1>11, <2>1 DEF InAir
    <2> QED
      BY <1>8, <1>11, <2>1, <2>2
  <1>13. /\ udp' \in [Ends -> SUBSET InAir] /\ udp'[e] \subseteq udp[e]
         /\ udp'[p] \subseteq udp[p] \cup {sent}
    <2>1. PICK v : v = udp[e] \ {d}
      OBVIOUS
    <2>2. PICK back \in [Ends -> SUBSET InAir] : back = [udp EXCEPT ![e] = v]
      BY <1>5, <2>1
    <2>3. back[e] \subseteq udp[e] /\ back[p] = udp[p]
      BY <1>1, <1>5, <2>1, <2>2
    <2>4. udp' = back \/ udp' = [back EXCEPT ![p] = @ \cup {sent}]
      BY <1>1, <1>2, <1>8, <1>12, <2>1, <2>2 DEF HearSyn
    <2> QED
      BY <1>1, <2>2, <2>3, <2>4
  <1>14. TypeOK' /\ WiresOK' /\ end'[e] = l /\ end'[p] = end[p]
    <2>1. /\ tcp' \in [Ends -> Seq(Message)] /\ path' = path /\ notes' \in Note
          /\ starts' \in [Ends -> 0 .. MaxStart] /\ talks' \in [Ends -> 0 .. MaxTalk]
          /\ stops' \in 0 .. MaxStop /\ fails' \in 0 .. MaxFail
      BY <1>5 DEF SwitchInv, TypeOK
    <2> QED
      BY <1>1, <1>10, <1>13, <2>1, Typed
  <1>15. k.sock # 0
    BY <1>4
  <1>16. SocketRight(e)' /\ SocketRight(p)'
    BY <1>2, <1>3, <1>9, <1>10, <1>14, <1>15 DEF SocketRight
  <1>17. Bounded(e)'
    <2>1. PICK n \in Nat : n = end[p].out_ctr
      BY <1>3
    <2>2. /\ k.in_ctr <= n
          /\ \A i \in 1 .. Len(tcp[e]) : UpTo(tcp[e][i], n)
          /\ \A c \in udp[e] : UpTo(c.m, n)
      BY <1>1, <1>2, <2>1, Have DEF Bounded
    <2>3. h <= n
      BY <1>4, <1>7, <2>1, <2>2
    <2> QED
      BY <1>1, <1>5, <1>10, <1>13, <1>14, <2>1, <2>2, <2>3 DEF Bounded
  <1>18. PICK x \in Message : x.t = "syn" /\ \A o \in Nat : UpTo(x, o)
    BY NothingShown
  <1>19. Bounded(p)'
    <2>1. BoundedStep(p, e, x)
      BY <1>2, <1>3, <1>5, <1>10, <1>11, <1>12, <1>13, <1>14, <1>18 DEF BoundedStep
    <2> QED
      BY <1>1, <1>18, <2>1, BoundedKept
  <1>20. Caught(e)'
    <2> SUFFICES ASSUME ~end[p].inuse, p \notin notes.failed, e \notin notes.late
                 PROVE  Brings(tcp[e], h, end[p].out_ctr)
      BY <1>1, <1>5, <1>10, <1>14 DEF Caught
    <2>1. Brings(tcp[e], k.in_ctr, end[p].out_ctr)
      BY <1>1, <1>2, Have DEF Caught
    <2> QED
      BY <1>3, <1>7, <2>1, BringsMore
  <1>21. Caught(p)'
    <2>1. CASE l.inuse = k.inuse
      <3>1. CaughtStep(p, e)
        BY <1>2, <1>5, <1>10, <1>14, <2>1 DEF CaughtStep
      <3> QED
        BY <1>1, <3>1, CaughtKept
    <2>2. CASE l.inuse
      BY <1>1, <1>14, <2>2 DEF Caught
    <2> QED
      BY <1>10, <2>1, <2>2
  <1>22. Leaves(e)'
    <2> SUFFICES ASSUME notes.stopped, notes.late = {}
                 PROVE  end[p].sock = 0 /\ Stops(tcp[e], udp'[e], h)
      BY <1>1, <1>5, <1>10, <1>14 DEF Leaves
    <2>1. end[p].sock = 0 /\ Stops(tcp[e], udp[e], k.in_ctr)
      BY <1>1, <1>2, <1>15, Have DEF Leaves
    <2>2. \A n \in Nat : k.in_ctr <= n /\ (\A c \in udp[e] : UpTo(c.m, n)) => h <= n
      BY <1>7
    <2>3. Stops(tcp[e], udp[e], h)
      BY <1>3, <1>7, <2>1, <2>2, StopsHeard
    <2> QED
      BY <1>3, <1>13, <1>18, <2>1, <2>3, StopsKept
  <1>23. Leaves(p)'
    <2>1. LeavesStep(p, e, x)
      BY <1>2, <1>5, <1>14, <1>15 DEF LeavesStep
    <2> QED
      BY <1>1, <1>18, <2>1, LeavesKept
  <1>24. Meets(e)'
    <2> SUFFICES ASSUME stops = 0, fails = 0
                 PROVE  /\ \A i \in 1 .. Len(tcp[e]) : tcp[e][i].t # "-O"
                        /\ \A c \in udp'[e] : c.from = end[p].sock
                        /\ l.inuse => l.to = [sock |-> end[p].sock, via |-> path]
                        /\ udp'[e] # {} \/ l.inuse => p \in notes.spent
                                      \/ Trying(end[p]) \/ end[p].inuse
                        /\ l.sock # 0 /\ l.u_cnt = 0 => e \in notes.spent \/ l.inuse
      BY <1>1, <1>5, <1>14 DEF Meets
    <2>1. /\ \A i \in 1 .. Len(tcp[e]) : tcp[e][i].t # "-O"
          /\ \A c \in udp[e] : c.from = end[p].sock
          /\ k.inuse => k.to = [sock |-> end[p].sock, via |-> path]
          /\ k.sock # 0 /\ k.u_cnt = 0 => e \in notes.spent \/ k.inuse
      BY <1>1, <1>2, Have DEF Meets
    <2>2. p \in notes.spent \/ Trying(end[p]) \/ end[p].inuse
      BY <1>4
    <2>3. l.inuse => l.to = [sock |-> end[p].sock, via |-> path]
      BY <1>4, <1>9, <1>10, <2>1
    <2>4. l.sock # 0 /\ l.u_cnt = 0 => e \in notes.spent \/ l.inuse
      BY <1>10, <2>1
    <2> QED
      BY <1>13, <2>1, <2>2, <2>3, <2>4
  <1>25. Meets(p)'
    <2>1. stops = 0 /\ fails = 0 => e \in notes.spent \/ l.inuse
      <3>1. stops = 0 /\ fails = 0 /\ k.sock # 0 /\ k.u_cnt = 0 => e \in notes.spent \/ k.inuse
        BY <1>2, Have DEF Meets
      <3> QED
        BY <1>10, <1>15, <3>1
    <2>2. MeetsStep(p, e, x)
      BY <1>2, <1>5, <1>10, <1>12, <1>13, <1>14, <1>18, <2>1 DEF MeetsStep
    <2> QED
      BY <1>1, <1>18, <2>2, MeetsKept
  <1> QED
    BY <1>1, <1>14, <1>16, <1>17, <1>19, <1>20, <1>21, <1>22, <1>23, <1>24, <1>25, BothEnds

\* A voice packet over UDP moves in_ctr, and back only if it is late.
LEMMA HearVoiceKeeps ==
    ASSUME SwitchInv, NEW e \in Ends, NEW d \in udp[e], HearVoice(e, d)
    PROVE  SwitchInv'
  <1>1. PICK p \in Ends : p = Peer(e) /\ p # e /\ Peer(p) = e
    BY TwoEnds
  <1>2. PICK k \in Knowledge : k = end[e]
    BY Have
  <1>3. /\ SocketRight(e) /\ SocketRight(p) /\ end[p].out_ctr \in Nat /\ k.out_ctr \in Nat
        /\ k.in_ctr \in Nat /\ tcp[e] \in Seq(Message)
    BY <1>2, Have
  <1>4. d.m \in Message /\ d.m.n \in Nat /\ d.m.t = "voice" /\ UpTo(d.m, end[p].out_ctr)
    BY <1>1, DatagramIs DEF HearVoice
  <1>5. /\ tcp \in [Ends -> Seq(Message)] /\ udp \in [Ends -> SUBSET InAir]
        /\ end \in [Ends -> Knowledge] /\ notes \in Note
    BY DEF SwitchInv, WiresOK, TypeOK
  <1>6. udp' = [udp EXCEPT ![e] = @ \ {d}] /\ UNCHANGED <<tcp, path, starts, stops, fails, talks>>
    BY DEF HearVoice
  <1>7. CASE k.to # [sock |-> d.from, via |-> d.via]
    <2>1. end' = end /\ notes' = notes
      BY <1>2, <1>7 DEF HearVoice
    <2>2. Lose(e, d)
      BY <1>6, <2>1 DEF Lose
    <2> QED
      BY <2>2, LoseKeeps
  <1>8. CASE k.to = [sock |-> d.from, via |-> d.via]
    <2>1. PICK h \in Nat : h = d.m.n + 1
      BY <1>4
    <2>2. PICK l \in Knowledge :
            /\ end' = [end EXCEPT ![e] = l]
            /\ l.in_ctr = h /\ l.out_ctr = k.out_ctr /\ l.sock = k.sock /\ l.inuse = k.inuse
            /\ l.to = k.to /\ l.u_cnt = k.u_cnt /\ l.stun = k.stun /\ l.int = k.int /\ l.ext = k.ext
      <3>1. PICK l : l = [k EXCEPT !.in_ctr = h]
        OBVIOUS
      <3>2. /\ l \in Knowledge
            /\ l.in_ctr = h /\ l.out_ctr = k.out_ctr /\ l.sock = k.sock /\ l.inuse = k.inuse
            /\ l.to = k.to /\ l.u_cnt = k.u_cnt /\ l.stun = k.stun /\ l.int = k.int /\ l.ext = k.ext
        BY <3>1 DEF Knowledge
      <3>3. end' = [end EXCEPT ![e].in_ctr = h]
        BY <1>2, <1>8, <2>1 DEF HearVoice
      <3>4. end' = [end EXCEPT ![e] = l]
        BY <1>2, <1>5, <3>1, <3>3
      <3> QED
        BY <3>2, <3>4
    <2>3. /\ notes' \in Note /\ notes'.stopped = notes.stopped /\ notes'.spent = notes.spent
          /\ notes'.failed = notes.failed /\ (p \in notes'.late <=> p \in notes.late)
          /\ notes.late \subseteq notes'.late
          /\ h < k.in_ctr => e \in notes'.late
      <3>1. notes' = [notes EXCEPT !.late = IF h < k.in_ctr THEN @ \cup {e} ELSE @]
        BY <1>2, <1>8, <2>1 DEF HearVoice
      <3> QED
        BY <1>1, <1>5, <3>1 DEF Note
    <2>4. /\ udp' \in [Ends -> SUBSET InAir] /\ udp'[e] \subseteq udp[e] /\ udp'[p] = udp[p]
      BY <1>1, <1>5, <1>6
    <2>5. TypeOK' /\ WiresOK' /\ end'[e] = l /\ end'[p] = end[p]
      <3>1. /\ tcp' \in [Ends -> Seq(Message)] /\ path' = path
            /\ starts' \in [Ends -> 0 .. MaxStart] /\ talks' \in [Ends -> 0 .. MaxTalk]
            /\ stops' \in 0 .. MaxStop /\ fails' \in 0 .. MaxFail
        BY <1>5, <1>6 DEF SwitchInv, TypeOK
      <3> QED
        BY <1>1, <2>2, <2>3, <2>4, <3>1, Typed
    <2>6. SocketRight(e)' /\ SocketRight(p)'
      BY <1>2, <1>3, <2>2, <2>5 DEF SocketRight
    <2>7. \A n \in Nat : UpTo(d.m, n) => h <= n
      BY <1>4, <2>1 DEF UpTo
    <2>8. PICK x \in Message : x.t = "syn" /\ \A o \in Nat : UpTo(x, o)
      BY NothingShown
    <2>9. Bounded(e)'
      <3>1. PICK n \in Nat : n = end[p].out_ctr
        BY <1>3
      <3>2. /\ \A i \in 1 .. Len(tcp[e]) : UpTo(tcp[e][i], n)
            /\ \A c \in udp[e] : UpTo(c.m, n)
        BY <1>1, <3>1, Have DEF Bounded
      <3>3. h <= n
        BY <1>4, <2>7, <3>1
      <3> QED
        BY <1>1, <1>6, <2>2, <2>4, <2>5, <3>1, <3>2, <3>3 DEF Bounded
    <2>10. Bounded(p)'
      <3>1. BoundedStep(p, e, x)
        BY <1>2, <1>3, <1>6, <2>2, <2>4, <2>5, <2>8 DEF BoundedStep
      <3> QED
        BY <1>1, <2>8, <3>1, BoundedKept
    <2>11. Caught(e)'
      <3> SUFFICES ASSUME ~end[p].inuse, p \notin notes.failed, e \notin notes'.late
                   PROVE  Brings(tcp[e], h, end[p].out_ctr)
        BY <1>1, <1>6, <2>2, <2>3, <2>5 DEF Caught
      <3>1. Brings(tcp[e], k.in_ctr, end[p].out_ctr)
        BY <1>1, <1>2, <2>3, Have DEF Caught
      <3>2. k.in_ctr <= h
        BY <1>3, <2>3
      <3> QED
        BY <1>3, <3>1, <3>2, BringsMore
    <2>12. Caught(p)'
      <3>1. CaughtStep(p, e)
        BY <1>2, <1>6, <2>2, <2>3, <2>5 DEF CaughtStep
      <3> QED
        BY <1>1, <3>1, CaughtKept
    <2>13. Leaves(e)'
      <3> SUFFICES ASSUME notes.stopped, notes'.late = {}, k.sock # 0
                   PROVE  end[p].sock = 0 /\ Stops(tcp[e], udp'[e], h)
        BY <1>1, <1>6, <2>2, <2>3, <2>5 DEF Leaves
      <3>1. end[p].sock = 0 /\ Stops(tcp[e], udp[e], k.in_ctr)
        BY <1>1, <1>2, <2>3, Have DEF Leaves
      <3>2. k.in_ctr <= h
        BY <1>3, <2>3
      <3>3. \A n \in Nat : k.in_ctr <= n /\ (\A c \in udp[e] : UpTo(c.m, n)) => h <= n
        BY <2>7
      <3>4. Stops(tcp[e], udp[e], h)
        BY <1>3, <3>1, <3>2, <3>3, StopsHeard
      <3> QED
        BY <1>3, <2>4, <2>8, <3>1, <3>4, StopsKept
    <2>14. Leaves(p)'
      <3>1. LeavesStep(p, e, x)
        BY <1>2, <1>6, <2>2, <2>3, <2>4, <2>5 DEF LeavesStep
      <3> QED
        BY <1>1, <2>8, <3>1, LeavesKept
    <2>15. Meets(e)' /\ Meets(p)'
      <3>1. Trying(k) <=> Trying(l)
        BY <2>2 DEF Trying
      <3>2. MeetsStep(e, p, x)
        BY <1>2, <1>6, <2>2, <2>3, <2>4, <2>5, <2>8 DEF MeetsStep
      <3>3. MeetsStep(p, e, x)
        BY <1>2, <1>6, <2>2, <2>3, <2>4, <2>5, <2>8, <3>1 DEF MeetsStep
      <3> QED
        BY <1>1, <2>8, <3>2, <3>3, MeetsKept
    <2> QED
      BY <1>1, <2>5, <2>6, <2>9, <2>10, <2>11, <2>12, <2>13, <2>14, <2>15, BothEnds
  <1> QED
    BY <1>7, <1>8

-----------------------------------------------------------------------------
(* The theorems.                                                           *)

\* A call begins on Tor, and nothing is on its way.
LEMMA Begins ==
    ASSUME Init
    PROVE  SwitchInv
  <1>1. Fresh \in Knowledge
    BY BoundsAssumption, TriesAssumption DEF Fresh, Knowledge, Sock
  <1>2. TypeOK
    BY <1>1, BoundsAssumption DEF Init, TypeOK, Note
  <1>3. WiresOK
    <2>1. <<>> \in Seq(Message) /\ {} \in SUBSET InAir
      OBVIOUS
    <2> QED
      BY <2>1 DEF Init, WiresOK
  <1>4. ASSUME NEW e \in Ends
        PROVE  SocketRight(e) /\ Bounded(e) /\ Caught(e) /\ Leaves(e) /\ Meets(e)
    <2>1. PICK p \in Ends : p = Peer(e)
      BY TwoEnds
    <2>2. /\ end[e] = Fresh /\ end[p] = Fresh /\ tcp[e] = <<>> /\ udp[e] = {}
      BY <2>1 DEF Init
    <2>3. /\ Fresh.sock = 0 /\ ~Fresh.inuse /\ ~Fresh.stun /\ Fresh.in_ctr = 0 /\ Fresh.out_ctr = 0
      BY DEF Fresh
    <2>4. Len(tcp[e]) = 0
      BY <2>2
    <2>5. SocketRight(e) /\ Leaves(e)
      BY <2>2, <2>3 DEF SocketRight, Leaves
    <2>6. Bounded(e)
      BY <2>1, <2>2, <2>3, <2>4 DEF Bounded
    <2>7. Caught(e)
      <3>1. Brings(<<>>, 0, 0)
        BY DEF Brings
      <3> QED
        BY <2>1, <2>2, <2>3, <3>1 DEF Caught
    <2>8. Meets(e)
      BY <2>1, <2>2, <2>3, <2>4 DEF Meets
    <2> QED
      BY <2>5, <2>6, <2>7, <2>8
  <1> QED
    BY <1>2, <1>3, <1>4 DEF SwitchInv

\* Every step keeps the invariant.
LEMMA Goes ==
    ASSUME SwitchInv, [Next]_vars
    PROVE  SwitchInv'
  <1>1. CASE UNCHANGED vars
    <2>1. UNCHANGED <<end, tcp, udp, path, starts, stops, fails, talks, notes>>
      BY <1>1 DEF vars
    <2>2. PICK e : e \in Ends
      BY EndsAssumption
    <2>3. end' = [end EXCEPT ![e] = end[e]]
      BY <2>1 DEF SwitchInv, TypeOK
    <2> QED
      BY <2>1, <2>2, <2>3, SmallStep
  <1>2. ASSUME NEW e \in Ends, User(e)
        PROVE  SwitchInv'
    BY <1>2, DoNatKeeps, CommandOKeeps, TalkKeeps DEF User
  <1>3. ASSUME NEW e \in Ends, Network(e)
        PROVE  SwitchInv'
    <2>1. CASE \E d \in udp[e] : HearSyn(e, d) \/ HearVoice(e, d) \/ Lose(e, d)
      BY <2>1, HearSynKeeps, HearVoiceKeeps, LoseKeeps
    <2>2. CASE StunAnswer(e) \/ StunLost(e) \/ SocketFails(e)
      BY <2>2, StunAnswerKeeps, StunLostKeeps, SocketFailsKeeps
    <2> QED
      BY <1>3, <2>1, <2>2 DEF Network
  <1> QED
    BY <1>1, <1>2, <1>3, NatSynKeeps, HearTorKeeps DEF Next

\* The inductive invariant of UdpSwitch, its types included.
THEOREM AlwaysSwitchInv == Spec => []SwitchInv
  BY Begins, Goes, PTL DEF Spec

\* What each end knows stays within its types: libdesktop/tcp.c keeps one UDP socket, one
\* address and one count of SYNs.
THEOREM SwitchTypeCorrect == Spec => []TypeOK
  <1>1. SwitchInv => TypeOK
    BY DEF SwitchInv
  <1> QED
    BY <1>1, AlwaysSwitchInv, PTL

\* When -O was the last command of anybody both ends are back on Tor once all is quiet,
\* whatever UDP has lost: the SYN that stopudp sends lets the -O be taken.
THEOREM BackTogetherHolds == Spec => []BackTogether
  <1>1. SwitchInv => BackTogether
    <2> SUFFICES ASSUME SwitchInv, Quiet, notes.stopped, notes.late = {}, NEW e \in Ends,
                        end[e].sock # 0
                 PROVE  FALSE
      BY DEF BackTogether
    <2>1. tcp[e] = <<>> /\ Stops(tcp[e], udp[e], end[e].in_ctr)
      BY Have DEF Quiet, Leaves
    <2> QED
      BY <2>1 DEF Stops
  <1> QED
    BY <1>1, AlwaysSwitchInv, PTL

\* An end whose peer is on Tor hears its next packet, whatever UDP has lost.
THEOREM HearsTorHolds == Spec => []HearsTor
  <1>1. SwitchInv => HearsTor
    <2> SUFFICES ASSUME SwitchInv, Quiet, NEW e \in Ends, ~OnUdp(Peer(e)),
                        Peer(e) \notin notes.failed, e \notin notes.late
                 PROVE  end[e].in_ctr = end[Peer(e)].out_ctr
      BY DEF HearsTor
    <2>1. PICK p \in Ends : p = Peer(e)
      BY TwoEnds
    <2>2. ~end[p].inuse
      BY <2>1, Have DEF OnUdp, SocketRight
    <2>3. tcp[e] = <<>> /\ Len(tcp[e]) = 0
      BY DEF Quiet
    <2>4. Brings(tcp[e], end[e].in_ctr, end[p].out_ctr)
      BY <2>1, <2>2, Have DEF Caught
    <2>5. end[e].in_ctr \in Nat /\ end[p].out_ctr \in Nat /\ end[e].in_ctr <= end[p].out_ctr
      BY <2>1, Have DEF Bounded
    <2>6. end[e].in_ctr >= end[p].out_ctr
      BY <2>3, <2>4, <2>5 DEF Brings
    <2> QED
      BY <2>1, <2>5, <2>6
  <1> QED
    BY <1>1, AlwaysSwitchInv, PTL

\* Until somebody stops, an end that is on UDP talks to a peer that is on UDP with it, or
\* that has sent all its SYNs in vain.
THEOREM SwitchTogetherHolds == Spec => []SwitchTogether
  <1>1. SwitchInv => SwitchTogether
    <2> SUFFICES ASSUME SwitchInv, Quiet, stops = 0, fails = 0, NEW e \in Ends, OnUdp(e),
                        Peer(e) \notin notes.spent
                 PROVE  Together(e, Peer(e))
      BY DEF SwitchTogether
    <2>1. PICK p \in Ends : p = Peer(e) /\ Peer(p) = e
      BY TwoEnds
    <2>2. end[e].inuse /\ ~Trying(end[p])
      BY <2>1 DEF OnUdp, Quiet
    <2>3. end[p].inuse /\ end[e].to = [sock |-> end[p].sock, via |-> path]
      BY <2>1, <2>2, Have DEF Meets
    <2>4. end[p].to = [sock |-> end[e].sock, via |-> path]
      BY <2>1, <2>3, Have DEF Meets
    <2>5. end[p].sock # 0
      BY <2>3, Have DEF SocketRight
    <2> QED
      BY <2>1, <2>3, <2>4, <2>5 DEF Together, Matches, OnUdp
  <1> QED
    BY <1>1, AlwaysSwitchInv, PTL
=============================================================================
