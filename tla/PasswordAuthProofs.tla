-------------------------- MODULE PasswordAuthProofs --------------------------
(***************************************************************************)
(* Proofs about PasswordAuth, for all passwords and any number of them     *)
(* typed: what an end is told is true, and both ends are told.             *)
(***************************************************************************)
EXTENDS PasswordAuth, TLAPS

\* The two ends are each other's peers.
LEMMA TwoEnds ==
    ASSUME NEW e \in Users
    PROVE  /\ Other(e) \in Users /\ Other(e) # e /\ Users = {e, Other(e)}
           /\ Other(Other(e)) = e
  <1>1. PICK a, b \in Users : a # b /\ Users = {a, b}
    BY UsersAssumption
  <1>2. \A f \in Users : \E p \in Users : p # f
    BY <1>1
  <1>3. \A f \in Users : Other(f) \in Users /\ Other(f) # f
    BY <1>2 DEF Other
  <1> QED
    BY <1>1, <1>3

\* Two ends with the same stem have passwords, and whatever holds of one end and its
\* peer is all there is to it.
LEMMA SameStemOf ==
    ASSUME AuthTypeOK, NEW e \in Users, password[e] # Short
    PROVE  SameStem <=> password[Other(e)].stem = password[e].stem
  <1>1. /\ password[e] \in Long /\ password[Other(e)] \in Password
    BY TwoEnds DEF AuthTypeOK, Password
  <1>2. password[e].stem \in Stems
    BY <1>1 DEF Long
  <1>3. Short.stem = ""
    BY DEF Short
  <1>4. password[Other(e)].stem = password[e].stem => password[Other(e)] # Short
    BY <1>2, <1>3, StemsAssumption
  <1> QED
    BY <1>4, TwoEnds DEF SameStem

\* Packets are built from long passwords.
LEMMA PacketTypes ==
    ASSUME NEW w \in Password, w # Short
    PROVE  /\ AuReq(w) \in AuPacket /\ AuReq(w).t = "req"
           /\ AuAns(w) \in AuPacket /\ AuAns(w).t = "ans"
           /\ AuAns(w).stem = w.stem /\ AuAns(w).last = w.last
           /\ AuAck(w) \in AuPacket /\ AuAck(w).t = "ack"
           /\ AuAck(w).stem = w.stem /\ AuAck(w).last = w.last
  <1>1. w \in Long
    BY DEF Password
  <1>2. w.stem \in Stems /\ w.last \in Chars
    BY <1>1 DEF Long
  <1> QED
    BY <1>2 DEF AuReq, AuAns, AuAck, AuPacket

\* A packet of the peer's present password, judged by an end that has one.
LEMMA JudgedTrue ==
    ASSUME AuthTypeOK, NEW e \in Users, NEW m \in AuPacket, password[e] # Short,
           Current(m, password[Other(e)])
    PROVE  /\ m.t = "req" /\ m.stem # password[e].stem => ~SameStem
           /\ m.t = "ans" /\ m.stem # password[e].stem => ~SameStem
           /\ m.t \in {"ans", "ack"} =>
                IF SameStem THEN Compare(password[e], m) = Truth(e)
                            ELSE Compare(password[e], m) = "UNDER PRESSING"
  <1> DEFINE w == password[Other(e)]
  <1>0. m = AuReq(w) \/ m = AuAns(w) \/ m = AuAck(w)
    BY DEF Current
  <1>1. m.stem = w.stem
    <2>1. AuReq(w).stem = w.stem /\ AuAns(w).stem = w.stem /\ AuAck(w).stem = w.stem
      BY ZenonT(20) DEF AuReq, AuAns, AuAck
    <2> QED
      BY <1>0, <2>1
  <1>2. m.t \in {"ans", "ack"} => m.last = w.last
    <2>1. AuAns(w).last = w.last /\ AuAck(w).last = w.last /\ AuReq(w).t = "req"
      BY ZenonT(20) DEF AuReq, AuAns, AuAck
    <2> QED
      BY <1>0, <2>1
  <1>3. SameStem <=> w.stem = password[e].stem
    BY SameStemOf
  <1> QED
    BY <1>1, <1>2, <1>3 DEF Compare, Truth

-----------------------------------------------------------------------------
AuthInv == AuthTypeOK /\ VerdictsTrue

LEMMA ReadTyped ==
    ASSUME AuthTypeOK, NEW e \in Users, NEW m, NEW answer \in SUBSET AuPacket,
           Read(e, m, answer)
    PROVE  air' \in [Users -> SUBSET AuPacket]
  BY DEF AuthTypeOK, Read

\* What is told adds a true verdict, or the packet was made from an older password.
LEMMA TellTrue ==
    ASSUME AuthInv, NEW e \in Users, NEW m, NEW v \in SUBSET Verdict,
           Tell(e, m, v), air' \in [Users -> SUBSET AuPacket],
           Current(m, password[Other(e)]) =>
              v \subseteq IF SameStem THEN {Truth(e)} ELSE Verdict \ {"OK"}
    PROVE  AuthInv'
  <1>1. /\ password' = password /\ lost' = lost /\ typed' = typed
        /\ verdicts' = [verdicts EXCEPT ![e] = @ \cup v]
        /\ mixed' = (mixed \/ ~Current(m, password[Other(e)]))
    BY DEF Tell
  <1>2. verdicts' \in [Users -> SUBSET Verdict] /\ mixed' \in BOOLEAN
    BY <1>1 DEF AuthInv, AuthTypeOK
  <1>3. AuthTypeOK'
    BY <1>1, <1>2 DEF AuthInv, AuthTypeOK
  <1>4. SameStem' = SameStem /\ \A p \in Users : Truth(p)' = Truth(p)
    BY <1>1 DEF SameStem, Truth
  <1>5. VerdictsTrue'
    <2> SUFFICES ASSUME ~mixed', NEW p \in Users
                 PROVE  verdicts'[p] \subseteq
                          IF SameStem THEN {Truth(p)} ELSE Verdict \ {"OK"}
      BY <1>4 DEF VerdictsTrue
    <2>1. ~mixed /\ Current(m, password[Other(e)])
      BY <1>1
    <2>2. verdicts[p] \subseteq IF SameStem THEN {Truth(p)} ELSE Verdict \ {"OK"}
      BY <2>1 DEF AuthInv, VerdictsTrue
    <2>3. verdicts'[p] = IF p = e THEN verdicts[p] \cup v ELSE verdicts[p]
      BY <1>1 DEF AuthInv, AuthTypeOK
    <2> QED
      BY <2>1, <2>2, <2>3
  <1> QED
    BY <1>3, <1>5 DEF AuthInv

LEMMA GoAureqInvariant ==
    ASSUME AuthInv, NEW e \in Users, NEW m \in AuPacket, GoAureq(e, m) PROVE AuthInv'
  <1> DEFINE w == password[e]
  <1>1. w \in Password
    BY DEF AuthInv, AuthTypeOK
  <1>2. CASE w = Short /\ Read(e, m, {}) /\ Tell(e, m, {})
    BY <1>2, ReadTyped, TellTrue DEF AuthInv
  <1>3. CASE w # Short /\ m.stem # w.stem /\ Read(e, m, {}) /\ Tell(e, m, {"failure"})
    <2>1. Current(m, password[Other(e)]) => ~SameStem
      BY <1>3, JudgedTrue DEF AuthInv, GoAureq
    <2>2. {"failure"} \in SUBSET Verdict /\ {"failure"} \subseteq Verdict \ {"OK"}
      BY DEF Verdict
    <2> QED
      BY <1>3, <2>1, <2>2, ReadTyped, TellTrue DEF AuthInv
  <1>4. CASE w # Short /\ m.stem = w.stem /\ Read(e, m, {AuAns(w)}) /\ Tell(e, m, {})
    <2>1. {AuAns(w)} \in SUBSET AuPacket
      BY <1>1, <1>4, PacketTypes
    <2> QED
      BY <1>4, <2>1, ReadTyped, TellTrue DEF AuthInv
  <1> QED
    BY <1>2, <1>3, <1>4 DEF GoAureq

LEMMA GoAuansInvariant ==
    ASSUME AuthInv, NEW e \in Users, NEW m \in AuPacket, GoAuans(e, m) PROVE AuthInv'
  <1> DEFINE w == password[e]
  <1>1. w \in Password /\ m.t = "ans"
    BY DEF AuthInv, AuthTypeOK, GoAuans
  <1>2. CASE w = Short /\ Read(e, m, {}) /\ Tell(e, m, {})
    BY <1>2, ReadTyped, TellTrue DEF AuthInv
  <1>3. CASE w # Short /\ m.stem # w.stem /\ Read(e, m, {}) /\ Tell(e, m, {"failure"})
    <2>1. Current(m, password[Other(e)]) => ~SameStem
      BY <1>1, <1>3, JudgedTrue DEF AuthInv
    <2>2. {"failure"} \in SUBSET Verdict /\ {"failure"} \subseteq Verdict \ {"OK"}
      BY DEF Verdict
    <2> QED
      BY <1>3, <2>1, <2>2, ReadTyped, TellTrue DEF AuthInv
  <1>4. CASE w # Short /\ m.stem = w.stem /\ Read(e, m, {AuAck(w)}) /\ Tell(e, m, {Compare(w, m)})
    <2>1. {AuAck(w)} \in SUBSET AuPacket
      BY <1>1, <1>4, PacketTypes
    <2>2. {Compare(w, m)} \in SUBSET Verdict
      BY DEF Compare, Verdict
    <2>3. Current(m, password[Other(e)]) =>
            {Compare(w, m)} \subseteq IF SameStem THEN {Truth(e)} ELSE Verdict \ {"OK"}
      BY <1>1, <1>4, JudgedTrue DEF AuthInv, Verdict
    <2> QED
      BY <1>4, <2>1, <2>2, <2>3, ReadTyped, TellTrue DEF AuthInv
  <1> QED
    BY <1>2, <1>3, <1>4 DEF GoAuans

LEMMA GoAuackInvariant ==
    ASSUME AuthInv, NEW e \in Users, NEW m \in AuPacket, GoAuack(e, m) PROVE AuthInv'
  <1> DEFINE w == password[e]
             v == IF w = Short THEN {} ELSE {Compare(w, m)}
  <1>1. m.t = "ack" /\ Read(e, m, {}) /\ Tell(e, m, v)
    BY DEF GoAuack
  <1>2. v \in SUBSET Verdict
    BY DEF Compare, Verdict
  <1>3. Current(m, password[Other(e)]) =>
          v \subseteq IF SameStem THEN {Truth(e)} ELSE Verdict \ {"OK"}
    BY <1>1, JudgedTrue DEF AuthInv, Verdict
  <1> HIDE DEF v
  <1> QED
    BY <1>1, <1>2, <1>3, ReadTyped, TellTrue DEF AuthInv

LEMMA SentTyped ==
    ASSUME AuthTypeOK, NEW e \in Users, NEW w \in Password, Sent(e, w)
    PROVE  air' \in [Users -> SUBSET AuPacket]
  BY PacketTypes DEF AuthTypeOK, Sent

\* Requests, passwords and losses tell nothing.
LEMMA OtherAuthInvariant ==
    ASSUME AuthInv, NEW e \in Users,
           \/ CallBegins(e) \/ (\E w \in Password : TypePassword(e, w))
           \/ \E m \in air[e] : LoseAuth(e, m)
    PROVE  AuthInv'
  <1>1. CASE CallBegins(e)
    <2>1. air' \in [Users -> SUBSET AuPacket]
      BY <1>1, SentTyped DEF CallBegins, AuthInv, AuthTypeOK
    <2> QED
      BY <1>1, <2>1 DEF CallBegins, AuthInv, AuthTypeOK, VerdictsTrue, SameStem, Truth
  <1>2. CASE \E w \in Password : TypePassword(e, w)
    <2>1. PICK w \in Password : TypePassword(e, w)
      BY <1>2
    <2>2. air' \in [Users -> SUBSET AuPacket]
      BY <2>1, SentTyped DEF TypePassword, AuthInv
    <2>3. /\ password' = [password EXCEPT ![e] = w] /\ typed < MaxTyped /\ typed' = typed + 1
          /\ verdicts' = [p \in Users |-> {}] /\ mixed' = FALSE /\ lost' = FALSE
      BY <2>1 DEF TypePassword
    <2>4. typed' \in 0 .. MaxTyped
      BY <2>3, TypedAssumption DEF AuthInv, AuthTypeOK
    <2>5. password' \in [Users -> Password]
      BY <2>3 DEF AuthInv, AuthTypeOK
    <2>6. verdicts' \in [Users -> SUBSET Verdict] /\ \A p \in Users : verdicts'[p] = {}
      BY <2>3
    <2> QED
      BY <2>2, <2>3, <2>4, <2>5, <2>6 DEF AuthInv, AuthTypeOK, VerdictsTrue
  <1>3. CASE \E m \in air[e] : LoseAuth(e, m)
    <2>1. PICK m \in air[e] : LoseAuth(e, m)
      BY <1>3
    <2>2. air' \in [Users -> SUBSET AuPacket]
      BY <2>1 DEF LoseAuth, AuthInv, AuthTypeOK
    <2> QED
      BY <2>1, <2>2 DEF LoseAuth, AuthInv, AuthTypeOK, VerdictsTrue, SameStem, Truth
  <1> QED
    BY <1>1, <1>2, <1>3

LEMMA AuthStep == AuthInv /\ [AuthNext]_authVars => AuthInv'
  <1> SUFFICES ASSUME AuthInv, [AuthNext]_authVars PROVE AuthInv'
    OBVIOUS
  <1>1. CASE UNCHANGED authVars
    BY <1>1 DEF authVars, AuthInv, AuthTypeOK, VerdictsTrue, SameStem, Truth
  <1>2. CASE AuthNext
    <2>1. \A e \in Users : air[e] \subseteq AuPacket
      BY DEF AuthInv, AuthTypeOK
    <2> QED
      BY <1>2, <2>1, GoAureqInvariant, GoAuansInvariant, GoAuackInvariant, OtherAuthInvariant
         DEF AuthNext
  <1> QED
    BY <1>1, <1>2

LEMMA AlwaysAuthInv == AuthSpec => []AuthInv
  <1>1. AuthInit => AuthInv
    <2> SUFFICES ASSUME AuthInit PROVE AuthInv
      OBVIOUS
    <2>1. typed \in 0 .. MaxTyped
      BY TypedAssumption DEF AuthInit
    <2>2. AuthTypeOK
      BY <2>1 DEF AuthInit, AuthTypeOK
    <2>3. \A e \in Users : verdicts[e] = {}
      BY DEF AuthInit
    <2> QED
      BY <2>2, <2>3 DEF AuthInv, VerdictsTrue
  <1> QED
    BY <1>1, AuthStep, PTL DEF AuthSpec

-----------------------------------------------------------------------------
\* do_au() and the three handlers only ever send what they made from a password that
\* is long enough, also after the user has cleared it.
THEOREM AuthTypeCorrect == AuthSpec => []AuthTypeOK
  <1>1. AuthInv => AuthTypeOK
    BY DEF AuthInv
  <1> QED
    BY <1>1, AlwaysAuthInv, PTL

\* go_auans() and go_auack() print "OK" only to ends whose passwords match: whoever
\* starts, whatever crosses, comes late, comes twice or is lost.
THEOREM VerdictsTrueHolds == AuthSpec => []VerdictsTrue
  <1>1. AuthInv => VerdictsTrue
    BY DEF AuthInv
  <1> QED
    BY <1>1, AlwaysAuthInv, PTL

-----------------------------------------------------------------------------
(* Both ends are told.                                                     *)

\* An exchange that goes on needs no other packets than its own, and what has been said
\* stays said.
LEMMA GoesOnKept ==
    ASSUME AuthTypeOK, NEW e \in Users, NEW m, NEW f \in Users, GoesOn(f), password' = password,
           \A p \in Users : air[p] \ (IF p = e THEN {m} ELSE {}) \subseteq air'[p],
           \A p \in Users : verdicts[p] \subseteq verdicts'[p],
           m = AuReq(password[f]) => e # Other(f),
           m = AuAns(password[Other(f)]) => e # f,
           m = AuAck(password[f]) => e # Other(f)
    PROVE  GoesOn(f)'
  <1>1. Other(f) \in Users
    BY TwoEnds
  <1>2. Truth(f)' = Truth(f) /\ Truth(Other(f))' = Truth(Other(f))
    BY DEF Truth
  <1> QED
    BY <1>1, <1>2 DEF GoesOn

\* What reading a packet of an exchange and answering it does to the exchange.
LEMMA ReadGoesOn ==
    ASSUME AuthTypeOK, SameStem, NEW e \in Users, NEW m \in AuPacket,
           GoAureq(e, m) \/ GoAuans(e, m) \/ GoAuack(e, m), NEW f \in Users, GoesOn(f)
    PROVE  GoesOn(f)'
  <1> DEFINE o == Other(f)
             v == password[e]
  <1>1. /\ o \in Users /\ o # f /\ Other(o) = f /\ (e = f \/ e = o)
        /\ Other(e) \in Users /\ Other(e) # e /\ (e = f => Other(e) = o) /\ (e = o => Other(e) = f)
    BY TwoEnds
  <1>2. /\ password[f] # Short /\ password[o] # Short /\ password[f].stem = password[o].stem
        /\ password[f] \in Password /\ password[o] \in Password /\ v \in Password /\ v # Short
    BY <1>1 DEF SameStem, AuthTypeOK
  <1>3. /\ AuReq(password[f]).t = "req" /\ AuReq(password[f]).stem = password[f].stem
        /\ AuAns(password[o]).t = "ans" /\ AuAns(password[o]).stem = password[o].stem
        /\ AuAns(password[o]).last = password[o].last
        /\ AuAck(password[f]).t = "ack" /\ AuAck(password[f]).stem = password[f].stem
        /\ AuAck(password[f]).last = password[f].last
    BY <1>2, PacketTypes, Zenon DEF AuReq
  <1>4. PICK answer \in SUBSET AuPacket, told \in SUBSET Verdict :
            /\ Read(e, m, answer) /\ Tell(e, m, told)
            /\ m.t = "req" /\ m.stem = v.stem => AuAns(v) \in answer
            /\ m.t = "ans" /\ m.stem = v.stem => AuAck(v) \in answer /\ Compare(v, m) \in told
            /\ m.t = "ack" => Compare(v, m) \in told
    <2>1. {} \in SUBSET AuPacket /\ {AuAns(v)} \in SUBSET AuPacket /\ {AuAck(v)} \in SUBSET AuPacket
      BY <1>2, PacketTypes
    <2>2. {} \in SUBSET Verdict /\ {"failure"} \in SUBSET Verdict /\ {Compare(v, m)} \in SUBSET Verdict
      BY DEF Verdict, Compare
    <2>3. CASE GoAureq(e, m)
      BY <1>2, <2>1, <2>2, <2>3 DEF GoAureq
    <2>4. CASE GoAuans(e, m)
      BY <1>2, <2>1, <2>2, <2>4 DEF GoAuans
    <2>5. CASE GoAuack(e, m)
      BY <1>2, <2>1, <2>2, <2>5 DEF GoAuack
    <2> QED
      BY <2>3, <2>4, <2>5
  <1>5. /\ password' = password
        /\ \A p \in Users : air[p] \ (IF p = e THEN {m} ELSE {}) \subseteq air'[p]
        /\ \A p \in Users : verdicts[p] \subseteq verdicts'[p]
        /\ told \subseteq verdicts'[e] /\ answer \subseteq air'[Other(e)]
    BY <1>1, <1>4 DEF AuthTypeOK, Read, Tell
  <1>6. Truth(f)' = Truth(f) /\ Truth(o)' = Truth(o)
    BY <1>5 DEF Truth
  <1>7. CASE m = AuReq(password[f]) /\ e = o
    <2>1. AuAns(password[o]) \in air'[f]
      BY <1>1, <1>2, <1>3, <1>4, <1>5, <1>7
    <2> QED
      BY <1>5, <2>1 DEF GoesOn
  <1>8. CASE m = AuAns(password[o]) /\ e = f
    <2>1. AuAck(password[f]) \in air'[o] /\ Compare(password[f], m) \in verdicts'[f]
      BY <1>1, <1>2, <1>3, <1>4, <1>5, <1>8
    <2>2. Compare(password[f], m) = Truth(f)
      BY <1>2, <1>3, <1>8 DEF Compare, Truth
    <2> QED
      BY <1>5, <1>6, <2>1, <2>2 DEF GoesOn
  <1>9. CASE m = AuAck(password[f]) /\ e = o
    <2>1. Compare(password[o], m) \in verdicts'[o]
      BY <1>1, <1>3, <1>4, <1>5, <1>9
    <2>2. Compare(password[o], m) = Truth(o)
      BY <1>1, <1>2, <1>3, <1>9 DEF Compare, Truth
    <2>3. AuReq(password[f]) # m /\ AuAns(password[o]) # m
      BY <1>3, <1>9
    <2> QED
      BY <1>1, <1>5, <1>6, <2>1, <2>2, <2>3 DEF GoesOn
  <1>10. CASE /\ m = AuReq(password[f]) => e # o
              /\ m = AuAns(password[o]) => e # f
              /\ m = AuAck(password[f]) => e # o
    BY <1>5, <1>10, GoesOnKept
  <1> QED
    BY <1>7, <1>8, <1>9, <1>10

LEMMA PendingStep == AuthTypeOK /\ Pending /\ [AuthNext]_authVars => Pending'
  <1> SUFFICES ASSUME AuthTypeOK, Pending, [AuthNext]_authVars, SameStem', typed' > 0, ~lost'
               PROVE  \E f \in Users : GoesOn(f)'
    BY DEF Pending
  <1>1. CASE UNCHANGED authVars
    <2>1. SameStem /\ typed > 0 /\ ~lost
      BY <1>1 DEF authVars, SameStem
    <2>2. PICK f \in Users : GoesOn(f)
      BY <2>1 DEF Pending
    <2> QED
      BY <1>1, <2>2 DEF authVars, GoesOn, Truth
  <1>2. ASSUME NEW e \in Users, CallBegins(e)
        PROVE  FALSE
    BY <1>2, TypedAssumption DEF CallBegins, AuthTypeOK
  <1>3. ASSUME NEW e \in Users, NEW w \in Password, TypePassword(e, w)
        PROVE  GoesOn(e)'
    <2>1. password' = [password EXCEPT ![e] = w] /\ Sent(e, w)
      BY <1>3 DEF TypePassword
    <2>2. password'[e] = w /\ w # Short
      BY <2>1 DEF AuthTypeOK, SameStem
    <2>3. AuReq(w) \in air'[Other(e)]
      BY <2>1, <2>2, TwoEnds DEF Sent, AuthTypeOK
    <2> QED
      BY <2>2, <2>3 DEF GoesOn
  <1>4. ASSUME NEW e \in Users, NEW m \in air[e], GoAureq(e, m) \/ GoAuans(e, m) \/ GoAuack(e, m)
        PROVE  \E f \in Users : GoesOn(f)'
    <2>1. password' = password /\ typed' = typed /\ lost' = lost
      BY <1>4 DEF GoAureq, GoAuans, GoAuack, Tell
    <2>2. SameStem /\ typed > 0 /\ ~lost
      BY <2>1 DEF SameStem
    <2>3. PICK f \in Users : GoesOn(f)
      BY <2>2 DEF Pending
    <2>4. m \in AuPacket
      BY DEF AuthTypeOK
    <2> QED
      BY <1>4, <2>2, <2>3, <2>4, ReadGoesOn
  <1>5. ASSUME NEW e \in Users, NEW m \in air[e], LoseAuth(e, m)
        PROVE  FALSE
    BY <1>5 DEF LoseAuth
  <1> QED
    BY <1>1, <1>2, <1>3, <1>4, <1>5 DEF AuthNext

\* When everything that do_au() and the handlers sent was read, both ends have been told,
\* however many exchanges crossed: go_auans() of an end that warns goes on, too.
THEOREM BothToldHolds == AuthSpec => []BothTold
  <1>1. AuthInit => Pending
    BY DEF AuthInit, Pending
  <1>2. AuthTypeOK /\ Pending => BothTold
    <2> SUFFICES ASSUME AuthTypeOK, Pending, SameStem, typed > 0, ~lost, air = [e \in Users |-> {}],
                        NEW e \in Users
                 PROVE  Truth(e) \in verdicts[e]
      BY DEF BothTold
    <2>1. PICK f \in Users : GoesOn(f)
      BY DEF Pending
    <2>2. Other(f) \in Users /\ e \in {f, Other(f)}
      BY TwoEnds
    <2> QED
      BY <2>1, <2>2 DEF GoesOn
  <1> QED
    BY <1>1, <1>2, PendingStep, AuthTypeCorrect, PTL DEF AuthSpec
=============================================================================
