---------------------------- MODULE PasswordAuth ----------------------------
(***************************************************************************)
(* Authentication of an established call with a common password            *)
(* (libdesktop/crypto.c: do_au, go_aureq, go_auans, go_auack).             *)
(*                                                                         *)
(* A password is a stem and two last characters; the two users have the    *)
(* same stem and the characters swapped.  Who is forced to tell a password *)
(* changes its last character: all looks well there, and the other end is  *)
(* warned.  Both ends may start, at any time and with new passwords, and   *)
(* datagrams are lost, delayed and repeated.                               *)
(***************************************************************************)
EXTENDS Naturals, FiniteSets

CONSTANTS
    Users,    \* the two ends
    Stems,    \* passwords without their last two characters
    Chars,    \* characters that passwords end with
    MaxTyped  \* bound: passwords typed in the call

ASSUME UsersAssumption == \E a, b \in Users : a # b /\ Users = {a, b}
ASSUME StemsAssumption == "" \notin Stems
ASSUME TypedAssumption == MaxTyped \in Nat

VARIABLES
    password,  \* the password of each end, Short when it has less than 3 characters
    air,       \* the packets on their way to each end
    verdicts,  \* history: what each end has printed since a password was typed
    mixed,     \* history: since then a packet made from an older password was read
    lost,      \* history: since then a packet was lost
    typed      \* history: passwords typed

authVars == <<password, air, verdicts, mixed, lost, typed>>

-----------------------------------------------------------------------------
Other(e) == CHOOSE p \in Users : p # e

Short == [stem |-> "", pen |-> "", last |-> ""]
Long == [stem : Stems, pen : Chars, last : Chars]
Password == Long \cup {Short}

\* The hashes show a stem, or a stem and the sender's last character.  Each also has
\* the session key and who called whom, alike at both ends.
AuReq(w) == [t |-> "req", stem |-> w.stem, last |-> ""]
AuAns(w) == [t |-> "ans", stem |-> w.stem, last |-> w.last]
AuAck(w) == [t |-> "ack", stem |-> w.stem, last |-> w.last]
AuPacket == [t : {"req", "ans", "ack"}, stem : Stems, last : Chars \cup {""}]
Verdict == {"OK", "UNDER PRESSING", "failure"}

\* A packet made from the password its sender has now.
Current(m, w) == m \in {AuReq(w), AuAns(w), AuAck(w)}

\* Mutant: the last character is compared, not the one before it.
CompareLast(w, m) ==
    IF m.stem = w.stem /\ m.last = w.last THEN "OK" ELSE "UNDER PRESSING"

\* The peer's last character is one's last but one.
Compare(w, m) ==
    IF m.stem = w.stem /\ m.last = w.pen THEN "OK" ELSE "UNDER PRESSING"

-----------------------------------------------------------------------------
\* do_au, when the call begins (the caller's) and for -P: only a long password is sent.
Sent(e, w) ==
    IF w = Short THEN UNCHANGED air
    ELSE air' = [air EXCEPT ![Other(e)] = @ \cup {AuReq(w)}]

CallBegins(e) ==
    /\ typed = 0 /\ air = [p \in Users |-> {}] /\ verdicts = [p \in Users |-> {}]
    /\ password[e] # Short
    /\ Sent(e, password[e])
    /\ UNCHANGED <<password, verdicts, mixed, lost, typed>>

\* The command -P.
TypePassword(e, w) ==
    /\ typed < MaxTyped
    /\ typed' = typed + 1
    /\ password' = [password EXCEPT ![e] = w]
    /\ Sent(e, w)
    /\ verdicts' = [p \in Users |-> {}]
    /\ mixed' = FALSE /\ lost' = FALSE

-----------------------------------------------------------------------------
\* A datagram that is read may come again.
Read(e, m, answer) ==
    \E again \in BOOLEAN :
        air' = [air EXCEPT ![e] = IF again THEN @ ELSE @ \ {m},
                           ![Other(e)] = @ \cup answer]

Tell(e, m, v) ==
    /\ verdicts' = [verdicts EXCEPT ![e] = @ \cup v]
    /\ mixed' = (mixed \/ ~Current(m, password[Other(e)]))
    /\ UNCHANGED <<password, lost, typed>>

\* go_aureq: without a password of its own an end only shows a suggestion.
GoAureq(e, m) ==
    LET w == password[e]
    IN  /\ m.t = "req"
        /\ \/ w = Short /\ Read(e, m, {}) /\ Tell(e, m, {})
           \/ w # Short /\ m.stem # w.stem /\ Read(e, m, {}) /\ Tell(e, m, {"failure"})
           \/ w # Short /\ m.stem = w.stem /\ Read(e, m, {AuAns(w)}) /\ Tell(e, m, {})

\* Mutant: an end that is warned does not go on.
GoAuansWarned(e, m) ==
    LET w == password[e]
    IN  /\ m.t = "ans"
        /\ \/ w = Short /\ Read(e, m, {}) /\ Tell(e, m, {})
           \/ w # Short /\ m.stem # w.stem /\ Read(e, m, {}) /\ Tell(e, m, {"failure"})
           \/ /\ w # Short /\ m.stem = w.stem
              /\ Read(e, m, IF Compare(w, m) = "OK" THEN {AuAck(w)} ELSE {})
              /\ Tell(e, m, {Compare(w, m)})

\* go_auans: whoever is warned goes on as if nothing had happened.
GoAuans(e, m) ==
    LET w == password[e]
    IN  /\ m.t = "ans"
        /\ \/ w = Short /\ Read(e, m, {}) /\ Tell(e, m, {})
           \/ w # Short /\ m.stem # w.stem /\ Read(e, m, {}) /\ Tell(e, m, {"failure"})
           \/ w # Short /\ m.stem = w.stem /\ Read(e, m, {AuAck(w)}) /\ Tell(e, m, {Compare(w, m)})

\* go_auack: one hash for stem and character, so another stem looks like pressing.
GoAuack(e, m) ==
    LET w == password[e]
    IN  /\ m.t = "ack"
        /\ Read(e, m, {})
        /\ Tell(e, m, IF w = Short THEN {} ELSE {Compare(w, m)})

LoseAuth(e, m) ==
    /\ air' = [air EXCEPT ![e] = @ \ {m}]
    /\ lost' = TRUE
    /\ UNCHANGED <<password, verdicts, mixed, typed>>

-----------------------------------------------------------------------------
AuthInit ==
    /\ password \in [Users -> Password]
    /\ air = [e \in Users |-> {}]
    /\ verdicts = [e \in Users |-> {}]
    /\ mixed = FALSE /\ lost = FALSE /\ typed = 0

AuthNext == \E e \in Users :
    \/ CallBegins(e)
    \/ \E w \in Password : TypePassword(e, w)
    \/ \E m \in air[e] : GoAureq(e, m) \/ GoAuans(e, m) \/ GoAuack(e, m) \/ LoseAuth(e, m)

AuthSpec == AuthInit /\ [][AuthNext]_authVars

-----------------------------------------------------------------------------
(* Properties.                                                             *)

AuthTypeOK ==
    /\ password \in [Users -> Password]
    /\ air \in [Users -> SUBSET AuPacket]
    /\ verdicts \in [Users -> SUBSET Verdict]
    /\ mixed \in BOOLEAN /\ lost \in BOOLEAN /\ typed \in 0 .. MaxTyped

SameStem == \A e \in Users : password[e] # Short /\ password[e].stem = password[Other(e)].stem

\* What an end with the same stem should be told.
Truth(e) == IF password[Other(e)].last = password[e].pen THEN "OK" ELSE "UNDER PRESSING"

\* Whoever started, and however many packets cross, come late or come twice: what an
\* end is told is true of the passwords, unless a packet was made from an older one.
\* A false OK would hide that the peer is forced, or that somebody is in between.
VerdictsTrue ==
    ~mixed => \A e \in Users :
        verdicts[e] \subseteq IF SameStem THEN {Truth(e)} ELSE Verdict \ {"OK"}

\* When everything sent was read, both ends have been told, also the end whose own
\* check was a warning, and it makes no difference who started.
BothTold ==
    /\ SameStem /\ typed > 0 /\ ~lost /\ air = [e \in Users |-> {}]
    => \A e \in Users : Truth(e) \in verdicts[e]

-----------------------------------------------------------------------------
(* The inductive invariant.                                                *)

\* What e started goes on: its request, the answer, or its own acknowledgement is on
\* its way, or both ends have been told.
GoesOn(e) ==
    \/ AuReq(password[e]) \in air[Other(e)]
    \/ AuAns(password[Other(e)]) \in air[e]
    \/ /\ Truth(e) \in verdicts[e]
       /\ AuAck(password[e]) \in air[Other(e)] \/ Truth(Other(e)) \in verdicts[Other(e)]

\* Whoever typed a password last has started an exchange that goes on.
Pending == SameStem /\ typed > 0 /\ ~lost => \E e \in Users : GoesOn(e)
=============================================================================
