---------------------------- MODULE KeyTransfer ----------------------------
(***************************************************************************)
(* Sending a public key over an established call: sendkey of               *)
(* libdesktop/cntrls.c, do_key and go_key of libdesktop/crypto.c.          *)
(*                                                                         *)
(* A key file goes out at once, in packets without numbers of their own;   *)
(* the last one carries a hash of all.  The receiver collects them in a    *)
(* temporary file, adds the key to its address book and renames the file   *)
(* to the nick of the key's owner.  Over UDP packets are lost, reordered   *)
(* and repeated.                                                           *)
(***************************************************************************)
EXTENDS Naturals, Sequences, FiniteSetsExt, Folds

CONSTANTS
    Keys,      \* key files that may be sent
    Nicks,     \* owners of keys
    None,      \* no key
    Parts,     \* packets that each key file needs
    Rest,      \* bytes in the last of them
    NickOf,    \* the owner of each key, given in its file
    Begins,    \* the nicks that begin with each nick, itself among them
    Full,      \* bytes in the other packets
    MinLen,    \* go_key: a key is not shorter,
    MaxLen,    \* and not longer
    MaxSent,   \* bound: keys sent
    MaxAgain   \* bound: packets that come again, and calls that end

VARIABLES
    cable,  \* the packets on their way, with the number of their transfer
    sent,   \* history: keys sent
    again,  \* history: packets repeated and calls ended
    f1,     \* F1: "none", "open", or "closed": closed, and F1 still points to it
    temp,   \* the packets whose bytes are in the temporary file
    book,   \* the address book: received keys, the oldest first
    file,   \* the key in the file of each nick
    since   \* history: the packets read since the last KEYLAST, and the next KEYLAST

keyVars == <<cable, sent, again, f1, temp, book, file, since>>

-----------------------------------------------------------------------------
Part == [key : Keys, part : Nat]
Whole(k) == [i \in 1 .. Parts[k] |-> [key |-> k, part |-> i]]
KeyLast(p) == p.part = Parts[p.key]
Bytes(p) == IF KeyLast(p) THEN Rest[p.key] ELSE Full
Length(parts) == FoldFunction(LAMBDA p, n : Bytes(p) + n, 0, parts)

\* A key file is not empty, names its owner, and passes the check of its length.
ASSUME KeysAssumption ==
    /\ Parts \in [Keys -> Nat \ {0}]
    /\ NickOf \in [Keys -> Nicks]
    /\ None \notin Keys
    /\ \A n \in Nicks : n \in Begins[n]
    /\ MaxSent \in Nat /\ MaxAgain \in Nat
ASSUME LengthAssumption ==
    /\ MinLen \in Nat /\ MaxLen \in Nat
    /\ \A k \in Keys : Length(Whole(k)) \in MinLen .. MaxLen

\* sendkey: the whole file in one turn.
SendKey(k) ==
    /\ sent < MaxSent
    /\ sent' = sent + 1
    /\ cable' = cable \cup {[id |-> sent', p |-> p] : p \in Range(Whole(k))}
    /\ UNCHANGED <<again, f1, temp, book, file, since>>

\* Mutant: get_bookstr stops at the first line.
FirstLine(nick) ==
    LET lines == {i \in 1 .. Len(book) : NickOf[book[i]] \in Begins[nick]}
    IN  IF lines = {} THEN None ELSE book[Min(lines)]

\* get_bookstr: the last line that begins with the nick.
LastLine(nick) ==
    LET lines == {i \in 1 .. Len(book) : NickOf[book[i]] \in Begins[nick]}
    IN  IF lines = {} THEN None ELSE book[Max(lines)]

\* Mutant: rename refuses to replace a file, and go_key removes the temporary one.
RenameNew(k) ==
    IF file[NickOf[k]] = None THEN [file EXCEPT ![NickOf[k]] = k] ELSE file

\* rename replaces the file of the nick.
Rename(k) == [file EXCEPT ![NickOf[k]] = k]

-----------------------------------------------------------------------------
\* go_key has all of a key: it is known, or is added to the book.
AddKey(k) ==
    IF LastLine(NickOf[k]) = k THEN UNCHANGED <<book, file>>
    ELSE book' = Append(book, k) /\ file' = Rename(k)

\* Mutant: the temporary file stays open after a bad checksum.
BadChecksumOpen(content) == f1' = "open" /\ temp' = content /\ UNCHANGED <<book, file>>

\* The file is closed, and the next packet starts a new one.
BadChecksum(content) == f1' = "none" /\ temp' = <<>> /\ UNCHANGED <<book, file>>

\* KEYLAST: the length and the hash of what was collected.
Collected(content, k) ==
    \/ /\ Length(content) < MinLen \/ Length(content) > MaxLen
       /\ f1' = "closed" /\ temp' = <<>>
       /\ UNCHANGED <<book, file>>
    \/ /\ Length(content) >= MinLen /\ Length(content) <= MaxLen
       /\ \/ content # Whole(k) /\ BadChecksum(content)
          \/ content = Whole(k) /\ f1' = "none" /\ temp' = <<>> /\ AddKey(k)

\* go_key writes to a closed file, reads its position, or closes it again: nothing
\* comes of it, or the program stops.
GoKey(p) ==
    IF f1 = "closed" THEN UNCHANGED <<f1, temp, book, file>>
    ELSE LET content == Append(temp, p)
         IN  IF KeyLast(p) THEN Collected(content, p.key)
             ELSE f1' = "open" /\ temp' = content /\ UNCHANGED <<book, file>>

ReadKey(m) ==
    /\ \/ cable' = cable \ {m} /\ UNCHANGED again
       \/ again < MaxAgain /\ again' = again + 1 /\ UNCHANGED cable
    /\ GoKey(m.p)
    /\ since' = IF since # <<>> /\ KeyLast(since[Len(since)])
                THEN <<m.p>> ELSE Append(since, m.p)
    /\ UNCHANGED sent

LoseKey(m) ==
    /\ cable' = cable \ {m}
    /\ UNCHANGED <<sent, again, f1, temp, book, file, since>>

\* reset_crp: the end of the call closes the file (a closed one again) and forgets it.
ResetKey ==
    /\ again < MaxAgain /\ again' = again + 1
    /\ cable' = {} /\ f1' = "none" /\ temp' = <<>> /\ since' = <<>>
    /\ UNCHANGED <<sent, book, file>>

-----------------------------------------------------------------------------
KeyInit ==
    /\ cable = {} /\ sent = 0 /\ again = 0
    /\ f1 = "none" /\ temp = <<>> /\ since = <<>>
    /\ book = <<>> /\ file = [n \in Nicks |-> None]

KeyNext ==
    \/ \E k \in Keys : SendKey(k)
    \/ \E m \in cable : ReadKey(m) \/ LoseKey(m)
    \/ ResetKey

KeySpec == KeyInit /\ [][KeyNext]_keyVars

-----------------------------------------------------------------------------
(* Properties.                                                             *)

KeyTypeOK ==
    /\ cable \subseteq [id : 1 .. MaxSent, p : Part]
    /\ sent \in 0 .. MaxSent /\ again \in 0 .. MaxAgain
    /\ f1 \in {"none", "open", "closed"}
    /\ temp \in Seq(Part) /\ (f1 # "open" => temp = <<>>)
    /\ book \in Seq(Keys) /\ file \in [Nicks -> Keys \cup {None}]

\* A transfer that was spoiled spoils nothing after its last packet: a key that comes
\* whole and in order from there on becomes the last of its owner in the book.  Not so
\* when the length was wrong, for then F1 points to a closed file until the call ends.
NextKeyArrives ==
    f1 # "closed" => \A k \in Keys : since = Whole(k) => LastLine(NickOf[k]) = k

\* The book and the files, written one after the other, agree: the last entry of a nick
\* is the key in its file, from which the next call takes it (get_key).
Entries(nick) == {i \in 1 .. Len(book) : NickOf[book[i]] = nick}
BookNamesFile == \A n \in Nicks :
    file[n] = IF Entries(n) = {} THEN None ELSE book[Max(Entries(n))]

\* "already exists": the key that is the last one of its owner is not added again, however
\* often it comes, so that no two successive entries of a nick are the same key; except for
\* a nick that begins another one, where get_bookstr may find the other's line.  (go_key
\* looks at the last line only: an older key that comes after another one of its owner is
\* added again.)
NotAddedTwice == \A n \in Nicks : Begins[n] = {n} =>
    \A i, j \in Entries(n) :
        i < j /\ ~(\E l \in Entries(n) : i < l /\ l < j) => book[i] # book[j]

\* The last entry of a nick is the key in its file, when there is one.
LastInv == \A n \in Nicks :
    \/ Entries(n) = {} /\ file[n] = None
    \/ \E i \in Entries(n) : book[i] = file[n] /\ \A j \in Entries(n) : j <= i

\* Unless F1 points to a closed file, the temporary file has what was read since the
\* last KEYLAST.
TempInv ==
    f1 # "closed" =>
        temp = IF since # <<>> /\ KeyLast(since[Len(since)]) THEN <<>> ELSE since

\* With these the three properties hold after every step.
KeyInv ==
    /\ KeyTypeOK
    /\ since \in Seq(Part)
    /\ LastInv
    /\ TempInv
    /\ NextKeyArrives
    /\ NotAddedTwice
=============================================================================
