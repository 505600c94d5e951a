------------------------- MODULE KeyTransferProofs -------------------------
(***************************************************************************)
(* Theorems about KeyTransfer, for every set of keys and of nicks, every   *)
(* length of their files and every number of transfers.                    *)
(***************************************************************************)
EXTENDS KeyTransfer, SequenceTheorems, TLAPS

-----------------------------------------------------------------------------
(* Sequences and key files.                                                *)

\* The greatest element of a set, when it has one.
LEMMA MaxIs ==
    ASSUME NEW S \in SUBSET Nat, NEW x \in S, \A y \in S : y <= x
    PROVE  Max(S) = x
  <1>1. \A y \in S : x >= y
    OBVIOUS
  <1>2. \A z \in S : (\A y \in S : z >= y) => z = x
    OBVIOUS
  <1> QED
    BY <1>1, <1>2 DEF Max

\* What Append does to a sequence.
LEMMA Appended ==
    ASSUME NEW S, NEW s \in Seq(S), NEW e \in S
    PROVE  /\ Append(s, e) \in Seq(S)
           /\ Len(Append(s, e)) = Len(s) + 1 /\ Len(s) \in Nat
           /\ \A i \in 1 .. Len(s) : Append(s, e)[i] = s[i]
           /\ Append(s, e)[Len(s) + 1] = e
           /\ Append(s, e) # <<>>
  OBVIOUS

\* A sequence of one element.
LEMMA Single ==
    ASSUME NEW S, NEW e \in S
    PROVE  /\ <<e>> \in Seq(S) /\ Len(<<e>>) = 1 /\ <<e>>[1] = e
           /\ <<e>> # <<>> /\ Append(<<>>, e) = <<e>>
  OBVIOUS

\* A key file is a sequence of packets that ends with KEYLAST.
LEMMA WholeFile ==
    ASSUME NEW k \in Keys
    PROVE  /\ Whole(k) \in Seq(Part)
           /\ Range(Whole(k)) \subseteq Part
           /\ Len(Whole(k)) \in Nat \ {0}
           /\ Whole(k)[Len(Whole(k))] = [key |-> k, part |-> Parts[k]]
           /\ KeyLast(Whole(k)[Len(Whole(k))])
  <1>1. Parts[k] \in Nat \ {0}
    BY KeysAssumption
  <1>2. \A i \in 1 .. Parts[k] : [key |-> k, part |-> i] \in Part
    BY DEF Part
  <1>3. Whole(k) \in Seq(Part) /\ Len(Whole(k)) = Parts[k]
    BY <1>1, <1>2 DEF Whole
  <1>4. Range(Whole(k)) \subseteq Part
    BY <1>1, <1>2 DEF Whole, Range
  <1>5. Whole(k)[Parts[k]] = [key |-> k, part |-> Parts[k]]
    BY <1>1 DEF Whole
  <1> QED
    BY <1>1, <1>3, <1>4, <1>5 DEF KeyLast

-----------------------------------------------------------------------------
(* The address book.                                                       *)

\* get_bookstr returns the last of the lines it could return.
LEMMA LastLineIs ==
    ASSUME book \in Seq(Keys), NEW n, NEW i \in 1 .. Len(book),
           NickOf[book[i]] \in Begins[n],
           \A j \in 1 .. Len(book) : NickOf[book[j]] \in Begins[n] => j <= i
    PROVE  LastLine(n) = book[i]
  <1> DEFINE lines == {j \in 1 .. Len(book) : NickOf[book[j]] \in Begins[n]}
  <1>1. lines \in SUBSET Nat /\ i \in lines /\ \A j \in lines : j <= i
    OBVIOUS
  <1>2. Max(lines) = i /\ lines # {}
    BY <1>1, MaxIs
  <1> QED
    BY <1>2 DEF LastLine

\* The entries after a key was added.
LEMMA EntriesGrow ==
    ASSUME book \in Seq(Keys), NEW k \in Keys, book' = Append(book, k), NEW n \in Nicks
    PROVE  /\ Entries(n)' = IF NickOf[k] = n THEN Entries(n) \cup {Len(book) + 1} ELSE Entries(n)
           /\ Entries(n) \subseteq 1 .. Len(book)
           /\ \A j \in Entries(n) : book'[j] = book[j]
           /\ book'[Len(book) + 1] = k
  <1>1. /\ Len(book') = Len(book) + 1 /\ Len(book) \in Nat
        /\ \A j \in 1 .. Len(book) : book'[j] = book[j]
        /\ book'[Len(book) + 1] = k
    BY Appended
  <1>2. 1 .. Len(book') = (1 .. Len(book)) \cup {Len(book) + 1}
    BY <1>1
  <1>3. Entries(n)' = {j \in 1 .. Len(book') : NickOf[book'[j]] = n}
    BY DEF Entries
  <1>4. Entries(n) \subseteq 1 .. Len(book)
    BY DEF Entries
  <1>5. \A j : j \in Entries(n)' <=> j \in Entries(n) \/ (j = Len(book) + 1 /\ NickOf[k] = n)
    BY <1>1, <1>2, <1>3 DEF Entries
  <1> QED
    BY <1>1, <1>4, <1>5

\* go_key adds a key, or finds that the last line it looks at has it: either way the
\* key is the one get_bookstr returns, the book and the files agree, and the entry
\* before it of the same nick is another key.
LEMMA AddKeyKeeps ==
    ASSUME KeyInv, NEW k \in Keys, AddKey(k)
    PROVE  /\ book' \in Seq(Keys) /\ file' \in [Nicks -> Keys \cup {None}]
           /\ LastInv' /\ NotAddedTwice'
           /\ LastLine(NickOf[k])' = k
  <1>1. book \in Seq(Keys) /\ file \in [Nicks -> Keys \cup {None}] /\ NickOf[k] \in Nicks
    BY KeysAssumption DEF KeyInv, KeyTypeOK
  <1>2. CASE UNCHANGED <<book, file>> /\ LastLine(NickOf[k]) = k
    BY <1>1, <1>2 DEF KeyInv, LastInv, NotAddedTwice, Entries, LastLine
  <1>3. CASE LastLine(NickOf[k]) # k /\ book' = Append(book, k) /\ file' = Rename(k)
    <2> DEFINE z == Len(book) + 1
    <2>1. /\ book' \in Seq(Keys) /\ Len(book') = z /\ z \in Nat /\ Len(book) \in Nat
          /\ book'[z] = k
      BY <1>1, <1>3, Appended
    <2>2. /\ file' \in [Nicks -> Keys \cup {None}]
          /\ file'[NickOf[k]] = k
          /\ \A n \in Nicks \ {NickOf[k]} : file'[n] = file[n]
      BY <1>1, <1>3 DEF Rename
    <2>3. ASSUME NEW n \in Nicks
          PROVE  /\ Entries(n)' = IF NickOf[k] = n THEN Entries(n) \cup {z} ELSE Entries(n)
                 /\ Entries(n) \subseteq 1 .. Len(book)
                 /\ \A j \in Entries(n) : book'[j] = book[j]
      BY <1>1, <1>3, EntriesGrow
    <2> HIDE DEF z
    <2>4. LastInv'
      <3> SUFFICES ASSUME NEW n \in Nicks
                   PROVE  \/ Entries(n)' = {} /\ file'[n] = None
                          \/ \E i \in Entries(n)' :
                                book'[i] = file'[n] /\ \A j \in Entries(n)' : j <= i
        BY DEF LastInv
      <3>1. CASE n = NickOf[k]
        <4>1. z \in Entries(n)' /\ \A j \in Entries(n)' : j <= z
          BY <2>1, <2>3, <3>1 DEF z
        <4> QED
          BY <2>1, <2>2, <3>1, <4>1
      <3>2. CASE n # NickOf[k]
        <4>1. Entries(n)' = Entries(n) /\ file'[n] = file[n]
          BY <2>2, <2>3, <3>2
        <4> QED
          BY <2>3, <4>1 DEF KeyInv, LastInv
      <3> QED
        BY <3>1, <3>2
    <2>5. NotAddedTwice'
      <3> SUFFICES ASSUME NEW n \in Nicks, Begins[n] = {n},
                          NEW i \in Entries(n)', NEW j \in Entries(n)', i < j,
                          ~(\E l \in Entries(n)' : i < l /\ l < j)
                   PROVE  book'[i] # book'[j]
        BY DEF NotAddedTwice
      <3>1. CASE j \in Entries(n)
        <4>1. i \in Entries(n)
          BY <2>1, <2>3, <3>1 DEF z
        <4>2. Entries(n) \subseteq Entries(n)'
          BY <2>3
        <4>3. book[i] # book[j]
          BY <3>1, <4>1, <4>2 DEF KeyInv, NotAddedTwice
        <4> QED
          BY <2>3, <3>1, <4>1, <4>3
      <3>2. CASE j \notin Entries(n)
        <4>1. n = NickOf[k] /\ j = z
          BY <2>3, <3>2
        <4>2. i \in Entries(n) /\ i \in 1 .. Len(book)
          BY <2>1, <2>3, <4>1 DEF z
        <4>3. \A l \in Entries(n) : l <= i
          BY <2>1, <2>3, <4>1, <4>2 DEF z
        <4>4. LastLine(n) = book[i]
          <5>1. \A l \in 1 .. Len(book) : NickOf[book[l]] \in Begins[n] => l <= i
            BY <4>3 DEF Entries
          <5>2. NickOf[book[i]] \in Begins[n]
            BY <4>2 DEF Entries
          <5> QED
            BY <1>1, <4>2, <5>1, <5>2, LastLineIs
        <4> QED
          BY <1>3, <2>1, <2>3, <4>1, <4>2, <4>4
      <3> QED
        BY <3>1, <3>2
    <2>6. LastLine(NickOf[k])' = k
      <3> DEFINE lines == {j \in 1 .. Len(book') : NickOf[book'[j]] \in Begins[NickOf[k]]}
      <3>1. NickOf[k] \in Begins[NickOf[k]]
        BY <1>1, KeysAssumption
      <3>2. z \in lines /\ lines \in SUBSET Nat /\ \A j \in lines : j <= z
        BY <2>1, <3>1 DEF z
      <3>3. Max(lines) = z /\ lines # {}
        BY <2>1, <3>2, MaxIs
      <3>4. LastLine(NickOf[k])' = IF lines = {} THEN None ELSE book'[Max(lines)]
        BY DEF LastLine
      <3> QED
        BY <2>1, <3>3, <3>4
    <2> QED
      BY <2>1, <2>2, <2>4, <2>5, <2>6
  <1> QED
    BY <1>2, <1>3 DEF AddKey

-----------------------------------------------------------------------------
(* The steps.                                                              *)

\* A step that leaves the book and the files alone.
LEMMA BookStays ==
    ASSUME UNCHANGED <<book, file>>
    PROVE  /\ LastInv => LastInv'
           /\ NotAddedTwice => NotAddedTwice'
           /\ \A n : LastLine(n)' = LastLine(n)
  BY DEF LastInv, NotAddedTwice, Entries, LastLine

\* Nothing has been sent, collected or written.
LEMMA KeyInitInv == KeyInit => KeyInv
  <1> SUFFICES ASSUME KeyInit PROVE KeyInv
    OBVIOUS
  <1>1. KeyTypeOK
    BY KeysAssumption DEF KeyInit, KeyTypeOK
  <1>2. \A n \in Nicks : Entries(n) = {} /\ file[n] = None
    BY DEF KeyInit, Entries
  <1>3. since = <<>> /\ temp = <<>> /\ since \in Seq(Part)
    BY DEF KeyInit
  <1>4. \A k \in Keys : since # Whole(k)
    BY <1>3, WholeFile
  <1> QED
    BY <1>1, <1>2, <1>3, <1>4 DEF KeyInv, LastInv, TempInv, NextKeyArrives, NotAddedTwice

\* The packets of a key that is sent are packets.
LEMMA SendKeyKeeps ==
    ASSUME KeyInv, NEW k \in Keys, SendKey(k)
    PROVE  KeyInv'
  <1>1. /\ sent' = sent + 1 /\ sent' \in 1 .. MaxSent
        /\ cable' = cable \cup {[id |-> sent', p |-> p] : p \in Range(Whole(k))}
        /\ UNCHANGED <<again, f1, temp, book, file, since>>
    BY KeysAssumption DEF SendKey, KeyInv, KeyTypeOK
  <1>2. {[id |-> sent', p |-> p] : p \in Range(Whole(k))} \subseteq [id : 1 .. MaxSent, p : Part]
    <2>1. \A q \in Part : [id |-> sent', p |-> q] \in [id : 1 .. MaxSent, p : Part]
      BY <1>1
    <2> QED
      BY <2>1, WholeFile
  <1>3. KeyTypeOK'
    BY <1>1, <1>2 DEF KeyInv, KeyTypeOK
  <1> QED
    BY <1>1, <1>3 DEF KeyInv, LastInv, TempInv, NextKeyArrives, NotAddedTwice, Entries, LastLine

\* A packet is lost.
LEMMA LoseKeyKeeps ==
    ASSUME KeyInv, NEW m \in cable, LoseKey(m)
    PROVE  KeyInv'
  <1>1. cable' \subseteq cable /\ UNCHANGED <<sent, again, f1, temp, book, file, since>>
    BY DEF LoseKey
  <1>2. KeyTypeOK'
    BY <1>1 DEF KeyInv, KeyTypeOK
  <1> QED
    BY <1>1, <1>2 DEF KeyInv, LastInv, TempInv, NextKeyArrives, NotAddedTwice, Entries, LastLine

\* The call ends.
LEMMA ResetKeyKeeps ==
    ASSUME KeyInv, ResetKey
    PROVE  KeyInv'
  <1>1. /\ cable' = {} /\ f1' = "none" /\ temp' = <<>> /\ since' = <<>>
        /\ again' = again + 1 /\ again' \in 0 .. MaxAgain
        /\ UNCHANGED <<sent, book, file>>
    BY KeysAssumption DEF ResetKey, KeyInv, KeyTypeOK
  <1>2. KeyTypeOK' /\ since' \in Seq(Part)
    BY <1>1 DEF KeyInv, KeyTypeOK
  <1>3. \A k \in Keys : since' # Whole(k)
    BY <1>1, WholeFile
  <1> QED
    BY <1>1, <1>2, <1>3 DEF KeyInv, LastInv, TempInv, NextKeyArrives, NotAddedTwice, Entries

\* go_key collects a packet that is not the last one of a key.
LEMMA CollectKeeps ==
    ASSUME KeyInv, NEW p \in Part, ~KeyLast(p), GoKey(p), f1 # "closed"
    PROVE  /\ f1' = "open" /\ temp' = Append(temp, p)
           /\ UNCHANGED <<book, file>>
  BY DEF GoKey

\* go_key has a KEYLAST: the file is closed, and a key that came whole is in the book.
LEMMA KeyLastKeeps ==
    ASSUME KeyInv, NEW p \in Part, KeyLast(p), GoKey(p), f1 # "closed"
    PROVE  /\ f1' \in {"none", "closed"} /\ temp' = <<>>
           /\ book' \in Seq(Keys) /\ file' \in [Nicks -> Keys \cup {None}]
           /\ LastInv' /\ NotAddedTwice'
           /\ Append(temp, p) = Whole(p.key) => LastLine(NickOf[p.key])' = p.key
  <1> DEFINE content == Append(temp, p)
  <1>1. p.key \in Keys
    BY DEF Part
  <1>2. Collected(content, p.key)
    BY DEF GoKey
  <1> HIDE DEF content
  <1>3. content = Whole(p.key) =>
            ~(Length(content) < MinLen \/ Length(content) > MaxLen)
    BY <1>1, LengthAssumption
  <1>4. CASE content = Whole(p.key) /\ f1' = "none" /\ temp' = <<>> /\ AddKey(p.key)
    BY <1>1, <1>4, AddKeyKeeps DEF content
  <1>5. CASE /\ content # Whole(p.key)
             /\ f1' \in {"none", "closed"} /\ temp' = <<>> /\ UNCHANGED <<book, file>>
    <2>1. book' \in Seq(Keys) /\ file' \in [Nicks -> Keys \cup {None}]
      BY <1>5 DEF KeyInv, KeyTypeOK
    <2>2. LastInv' /\ NotAddedTwice'
      BY <1>5 DEF KeyInv, LastInv, NotAddedTwice, Entries
    <2> QED
      BY <1>5, <2>1, <2>2 DEF content
  <1> QED
    BY <1>2, <1>3, <1>4, <1>5 DEF Collected, BadChecksum

\* A packet is read.
LEMMA ReadKeyKeeps ==
    ASSUME KeyInv, NEW m \in cable, ReadKey(m)
    PROVE  KeyInv'
  <1> DEFINE p == m.p
             ended == since # <<>> /\ KeyLast(since[Len(since)])
  <1>1. p \in Part
    BY DEF KeyInv, KeyTypeOK
  <1>2. /\ cable' \subseteq cable /\ again' \in 0 .. MaxAgain /\ sent' = sent
        /\ GoKey(p)
        /\ since' = IF ended THEN <<p>> ELSE Append(since, p)
    BY KeysAssumption DEF ReadKey, KeyInv, KeyTypeOK
  <1>3. /\ temp \in Seq(Part) /\ since \in Seq(Part)
        /\ f1 # "closed" => temp = IF ended THEN <<>> ELSE since
    BY DEF KeyInv, KeyTypeOK, TempInv
  <1> HIDE DEF ended
  <1>4. /\ since' \in Seq(Part) /\ since' # <<>> /\ since'[Len(since')] = p
        /\ Append(temp, p) \in Seq(Part)
        /\ f1 # "closed" => Append(temp, p) = since'
    <2>1. CASE ended
      <3>1. since' = <<p>> /\ (f1 # "closed" => temp = <<>>)
        BY <1>2, <1>3, <2>1
      <3> HIDE DEF p
      <3> QED
        BY <1>1, <1>3, <3>1, Single, Appended
    <2>2. CASE ~ended
      BY <1>1, <1>2, <1>3, <2>2, Appended
    <2> QED
      BY <2>1, <2>2
  <1> HIDE DEF p
  <1>5. ASSUME NEW k \in Keys, since' = Whole(k)
        PROVE  KeyLast(p) /\ p.key = k
    <2>1. p = [key |-> k, part |-> Parts[k]] /\ KeyLast(p)
      BY <1>4, <1>5, WholeFile
    <2> QED
      BY <2>1
  <1>6. CASE f1 = "closed"
    <2>1. UNCHANGED <<f1, temp, book, file>>
      BY <1>2, <1>6 DEF GoKey
    <2>2. KeyTypeOK'
      BY <1>2, <2>1 DEF KeyInv, KeyTypeOK
    <2>3. TempInv' /\ NextKeyArrives'
      BY <1>6, <2>1 DEF TempInv, NextKeyArrives
    <2> QED
      BY <1>4, <2>1, <2>2, <2>3, BookStays DEF KeyInv
  <1>7. CASE f1 # "closed" /\ ~KeyLast(p)
    <2>1. f1' = "open" /\ temp' = since' /\ UNCHANGED <<book, file>>
      BY <1>1, <1>2, <1>4, <1>7, CollectKeeps
    <2>2. KeyTypeOK'
      BY <1>2, <1>4, <2>1 DEF KeyInv, KeyTypeOK
    <2>3. TempInv' /\ NextKeyArrives'
      BY <1>4, <1>5, <1>7, <2>1 DEF TempInv, NextKeyArrives, KeyLast
    <2> QED
      BY <1>4, <2>1, <2>2, <2>3, BookStays DEF KeyInv
  <1>8. CASE f1 # "closed" /\ KeyLast(p)
    <2>1. /\ f1' \in {"none", "closed"} /\ temp' = <<>>
          /\ book' \in Seq(Keys) /\ file' \in [Nicks -> Keys \cup {None}]
          /\ LastInv' /\ NotAddedTwice'
          /\ since' = Whole(p.key) => LastLine(NickOf[p.key])' = p.key
      BY <1>1, <1>2, <1>4, <1>8, KeyLastKeeps
    <2>2. KeyTypeOK'
      BY <1>2, <2>1 DEF KeyInv, KeyTypeOK
    <2>3. TempInv'
      BY <1>4, <1>8, <2>1 DEF TempInv, KeyLast
    <2>4. NextKeyArrives'
      BY <1>5, <2>1 DEF NextKeyArrives
    <2> QED
      BY <1>4, <2>1, <2>2, <2>3, <2>4 DEF KeyInv
  <1> QED
    BY <1>6, <1>7, <1>8

\* Every step keeps the invariant.
LEMMA KeyNextInv == KeyInv /\ [KeyNext]_keyVars => KeyInv'
  <1> SUFFICES ASSUME KeyInv, [KeyNext]_keyVars PROVE KeyInv'
    OBVIOUS
  <1>1. CASE KeyNext
    BY <1>1, SendKeyKeeps, ReadKeyKeeps, LoseKeyKeeps, ResetKeyKeeps DEF KeyNext
  <1>2. CASE UNCHANGED keyVars
    <2>1. UNCHANGED <<cable, sent, again, f1, temp, book, file, since>>
      BY <1>2 DEF keyVars
    <2>2. KeyTypeOK'
      BY <2>1 DEF KeyInv, KeyTypeOK
    <2> QED
      BY <2>1, <2>2 DEF KeyInv, LastInv, TempInv, NextKeyArrives, NotAddedTwice, Entries, LastLine
  <1> QED
    BY <1>1, <1>2

-----------------------------------------------------------------------------
(* The theorems.                                                           *)

\* The invariant holds in every state of every behaviour.
THEOREM AlwaysKeyInv == KeySpec => []KeyInv
  BY KeyInitInv, KeyNextInv, PTL DEF KeySpec

\* However packets of keys are lost, repeated and mixed, and whenever calls end, the
\* variables have their types, and nothing is kept of a transfer that was closed.
THEOREM KeyTypeCorrect == KeySpec => []KeyTypeOK
  <1>1. KeyInv => KeyTypeOK
    BY DEF KeyInv
  <1> QED
    BY <1>1, AlwaysKeyInv, PTL

\* A key that comes whole after a KEYLAST is the one get_bookstr finds for its owner,
\* whatever was spoiled before that KEYLAST.
THEOREM NextKeyArrivesHolds == KeySpec => []NextKeyArrives
  <1>1. KeyInv => NextKeyArrives
    BY DEF KeyInv
  <1> QED
    BY <1>1, AlwaysKeyInv, PTL

\* The last entry of every nick in the address book is the key in the nick's file.
THEOREM BookNamesFileHolds == KeySpec => []BookNamesFile
  <1>1. KeyInv => BookNamesFile
    <2> SUFFICES ASSUME KeyInv, NEW n \in Nicks
                 PROVE  file[n] = IF Entries(n) = {} THEN None ELSE book[Max(Entries(n))]
      BY DEF BookNamesFile
    <2>1. CASE Entries(n) = {} /\ file[n] = None
      BY <2>1
    <2>2. ASSUME NEW i \in Entries(n), book[i] = file[n], \A j \in Entries(n) : j <= i
          PROVE  file[n] = IF Entries(n) = {} THEN None ELSE book[Max(Entries(n))]
      <3>1. Entries(n) \in SUBSET Nat
        BY DEF Entries
      <3> QED
        BY <2>2, <3>1, MaxIs
    <2> QED
      BY <2>1, <2>2 DEF KeyInv, LastInv
  <1> QED
    BY <1>1, AlwaysKeyInv, PTL

\* The key that is the last one of its owner is never added again, for a nick that begins
\* no other one: of its successive entries no two are the same key.
THEOREM NotAddedTwiceHolds == KeySpec => []NotAddedTwice
  <1>1. KeyInv => NotAddedTwice
    BY DEF KeyInv
  <1> QED
    BY <1>1, AlwaysKeyInv, PTL
=============================================================================
