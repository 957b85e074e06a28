---------------------------- MODULE JcatBt_proofs ----------------------------
(***************************************************************************)
(* Proofs about binary transparency: for any number of logs and            *)
(* checkpoints, any sizes, and every copy of a text that may arrive.       *)
(***************************************************************************)
EXTENDS JcatBt, WellFoundedInduction, FiniteSetTheorems, TLAPS

-----------------------------------------------------------------------------
(* Numbers. *)

\* Induction on the natural numbers, as a fact about a set.
LEMMA Induction ==
  ASSUME NEW S, 0 \in S, \A n \in Nat : n \in S => n + 1 \in S
  PROVE  Nat \subseteq S
  <1> DEFINE T == {n \in Nat : n \notin S}
  <1>1. SUFFICES ASSUME T # {} PROVE FALSE
    OBVIOUS
  <1>2. T \subseteq Nat
    OBVIOUS
  <1>3. PICK n \in T : \A m \in T : ~(<<m, n>> \in OpToRel(<, Nat))
    <2> HIDE DEF T
    <2> QED  BY <1>1, <1>2, NatLessThanWellFounded, WFMin
  <1>4. \A m \in T : ~(m < n)
    BY <1>2, <1>3 DEF OpToRel
  <1>5. n - 1 \in Nat /\ n - 1 < n /\ (n - 1) + 1 = n
    <2>1. n \in Nat /\ n # 0
      BY <1>3
    <2> QED  BY <2>1
  <1>6. n - 1 \in S
    BY <1>4, <1>5
  <1> QED  BY <1>3, <1>5, <1>6

LEMMA Least ==
  ASSUME NEW S \in SUBSET Nat, S # {}
  PROVE  Min(S) \in S /\ \A n \in S : Min(S) <= n
  <1>1. PICK n \in S : \A m \in S : ~(<<m, n>> \in OpToRel(<, Nat))
    BY NatLessThanWellFounded, WFMin
  <1>2. \A m \in S : n <= m
    <2>1. \A m \in S : ~(m < n)
      BY <1>1 DEF OpToRel
    <2> QED  BY <2>1
  <1> QED  BY <1>2 DEF Min

-----------------------------------------------------------------------------
(* Types.  What has to be known of a text is where its bytes come from: the  *)
(* only signatures in it are those of checkpoints that were published.       *)

Note == [log : Logs, size : 0..MaxSize]

Byte(notes) ==
  [key : Logs \X (1..KeySize)] \cup [hash : Logs \X (1..HashSize)]
    \cup [root : notes \X (1..KeySize)] \cup {Algorithm}
    \cup {[sig |-> <<note.log, Head3(note), i>>] : note \in notes, i \in 1..SignatureSize}

Word(notes) ==
  [name : Logs \cup {"dash"}] \cup [number : 0..MaxSize] \cup [base64 : Seq(Byte(notes))]

Line(notes) == Seq(Word(notes))

\* What decoding gives, text that is not base64 included.
Decoded(notes) == Byte(notes) \cup [misread : Word(notes)]

LEMMA Sequences ==
  ASSUME NEW S, NEW T, S \subseteq T
  PROVE  Seq(S) \subseteq Seq(T)
  <1> SUFFICES ASSUME NEW s \in Seq(S) PROVE s \in Seq(T)
    OBVIOUS
  <1>1. \A i \in 1..Len(s) : s[i] \in T
    OBVIOUS
  <1> QED  BY <1>1

LEMMA Element ==
  ASSUME NEW S, NEW s \in Seq(S), NEW i \in 1..Len(s)
  PROVE  s[i] \in S
  OBVIOUS

LEMMA Concat ==
  ASSUME NEW S, NEW s \in Seq(S), NEW t \in Seq(S)
  PROVE  /\ s \o t \in Seq(S) /\ Len(s \o t) = Len(s) + Len(t)
         /\ Len(s) \in Nat /\ Len(t) \in Nat
  OBVIOUS

LEMMA Published ==
  ASSUME NEW notes, NEW more
  PROVE  /\ Byte(notes) \subseteq Byte(notes \cup more)
         /\ Word(notes) \subseteq Word(notes \cup more)
         /\ Seq(Line(notes)) \subseteq Seq(Line(notes \cup more))
  <1>1. Byte(notes) \subseteq Byte(notes \cup more)
    BY DEF Byte
  <1>2. Seq(Byte(notes)) \subseteq Seq(Byte(notes \cup more))
    BY <1>1, Sequences
  <1>3. Word(notes) \subseteq Word(notes \cup more)
    BY <1>2 DEF Word
  <1>4. Line(notes) \subseteq Line(notes \cup more)
    BY <1>3, Sequences DEF Line
  <1>5. Seq(Line(notes)) \subseteq Seq(Line(notes \cup more))
    BY <1>4, Sequences
  <1> QED  BY <1>1, <1>3, <1>5

LEMMA Sizes == HashSize \in Nat \ {0} /\ KeySize \in Nat \ {0} /\ SignatureSize \in Nat \ {0}
  BY BtAssumption

LEMMA LogBytes ==
  ASSUME NEW notes, NEW log \in Logs
  PROVE  /\ KeyOf(log) \in Seq(Byte(notes)) /\ Len(KeyOf(log)) = KeySize
         /\ HashOf(log) \in Seq(Byte(notes)) /\ Len(HashOf(log)) = HashSize
         /\ <<Algorithm>> \in Seq(Byte(notes))
  <1>1. \A i \in 1..KeySize : [key |-> <<log, i>>] \in Byte(notes)
    BY DEF Byte
  <1>2. \A i \in 1..HashSize : [hash |-> <<log, i>>] \in Byte(notes)
    BY DEF Byte
  <1>3. Algorithm \in Byte(notes)
    BY DEF Byte
  <1> QED  BY <1>1, <1>2, <1>3, Sizes DEF KeyOf, HashOf

LEMMA PublishedBytes ==
  ASSUME NEW notes, NEW note \in notes, note.log \in Logs
  PROVE  /\ HashOf(note.log) \in Seq(Byte(notes)) /\ Len(HashOf(note.log)) = HashSize
         /\ RootOf(note) \in Seq(Byte(notes)) /\ Len(RootOf(note)) = KeySize
         /\ SignatureOf(note.log, Head3(note)) \in Seq(Byte(notes))
         /\ Len(SignatureOf(note.log, Head3(note))) = SignatureSize
  <1>1. RootOf(note) \in Seq(Byte(notes)) /\ Len(RootOf(note)) = KeySize
    <2>1. \A i \in 1..KeySize : [root |-> <<note, i>>] \in Byte(notes)
      BY DEF Byte
    <2> QED  BY <2>1, Sizes DEF RootOf
  <1>2. /\ SignatureOf(note.log, Head3(note)) \in Seq(Byte(notes))
        /\ Len(SignatureOf(note.log, Head3(note))) = SignatureSize
    <2> DEFINE payload == Head3(note)
    <2>1. \A i \in 1..SignatureSize : [sig |-> <<note.log, payload, i>>] \in Byte(notes)
      BY DEF Byte
    <2> HIDE DEF payload
    <2>2. /\ SignatureOf(note.log, payload) \in Seq(Byte(notes))
          /\ Len(SignatureOf(note.log, payload)) = SignatureSize
      BY <2>1, Sizes DEF SignatureOf
    <2> QED  BY <2>2 DEF payload
  <1> QED  BY <1>1, <1>2, LogBytes

-----------------------------------------------------------------------------
(* Texts and their copies. *)

LEMMA NoteTextType ==
  ASSUME NEW notes \in SUBSET Note, NEW note \in notes
  PROVE  NoteText(note) \in Seq(Line(notes))
  <1>1. note.log \in Logs /\ note.size \in 0..MaxSize
    BY DEF Note
  <1>2. /\ RootOf(note) \in Seq(Byte(notes)) /\ HashOf(note.log) \in Seq(Byte(notes))
        /\ SignatureOf(note.log, Head3(note)) \in Seq(Byte(notes))
    BY <1>1, PublishedBytes
  <1>3. [name |-> note.log] \in Word(notes) /\ Dash \in Word(notes)
        /\ [number |-> note.size] \in Word(notes)
    BY <1>1 DEF Word, Dash
  <1>4. [base64 |-> RootOf(note)] \in Word(notes)
    BY <1>2 DEF Word
  <1> DEFINE raw == HashOf(note.log) \o SignatureOf(note.log, Head3(note))
  <1>5. raw \in Seq(Byte(notes))
    BY <1>2
  <1>6. [base64 |-> raw] \in Word(notes)
    BY <1>5 DEF Word
  <1> HIDE DEF raw
  <1>7. <<[name |-> note.log]>> \in Line(notes) /\ <<[number |-> note.size]>> \in Line(notes)
        /\ <<[base64 |-> RootOf(note)]>> \in Line(notes)
    BY <1>3, <1>4 DEF Line
  <1>8. SignatureLine(note) \in Line(notes)
    <2>1. <<Dash, [name |-> note.log], [base64 |-> raw]>> \in Line(notes)
      BY <1>3, <1>6 DEF Line
    <2> QED  BY <2>1 DEF SignatureLine, raw
  <1>9. Head3(note) \in Seq(Line(notes))
    BY <1>7 DEF Head3
  <1>10. << <<>>, SignatureLine(note), <<>> >> \in Seq(Line(notes))
    <2>1. <<>> \in Line(notes)
      BY DEF Line
    <2> QED  BY <1>8, <2>1
  <1> QED  BY <1>9, <1>10 DEF NoteText

LEMMA CutsAreLines ==
  ASSUME NEW notes, NEW words \in Line(notes), NEW cut \in Cuts(words)
  PROVE  cut \in Line(notes)
  <1>1. PICK k \in 0..Len(words), n \in 0..HashSize + SignatureSize :
          cut = CutWords(words, k, n)
    BY DEF Cuts
  <1>2. words \in Seq(Word(notes))
    BY DEF Line
  <1>3. ASSUME NEW i \in 1..k
        PROVE  (IF i = k /\ "base64" \in DOMAIN words[i] /\ n < Len(words[i].base64)
                THEN [base64 |-> SubSeq(words[i].base64, 1, n)] ELSE words[i]) \in Word(notes)
    <2>1. words[i] \in Word(notes)
      BY <1>2
    <2>2. ASSUME "base64" \in DOMAIN words[i]
          PROVE  words[i].base64 \in Seq(Byte(notes))
      BY <2>1, <2>2 DEF Word
    <2>3. ASSUME "base64" \in DOMAIN words[i], n < Len(words[i].base64)
          PROVE  [base64 |-> SubSeq(words[i].base64, 1, n)] \in Word(notes)
      <3>1. SubSeq(words[i].base64, 1, n) \in Seq(Byte(notes))
        BY <2>2, <2>3, Sizes
      <3> QED  BY <3>1 DEF Word
    <2> QED  BY <2>1, <2>3
  <1>4. cut \in Seq(Word(notes))
    <2>1. k \in Nat
      BY <1>2
    <2> QED  BY <1>1, <1>3, <2>1 DEF CutWords
  <1> QED  BY <1>4 DEF Line

LEMMA CopiesAreTexts ==
  ASSUME NEW notes, NEW texts \in SUBSET Seq(Line(notes)), NEW copy \in Copies(texts),
         \A t, u \in texts : Len(t) = Len(u)
  PROVE  copy \in Seq(Line(notes))
  <1>1. PICK t \in texts :
          copy \in CutTexts(t) \cup {RemoveAt(t, k) : k \in DOMAIN t}
                     \cup {InsertAt(t, k, t[k]) : k \in DOMAIN t}
                     \cup {[t EXCEPT ![k] = u[k]] : k \in DOMAIN t, u \in texts}
    BY DEF Copies
  <1>2. t \in Seq(Line(notes))
    OBVIOUS
  <1>3. CASE copy \in CutTexts(t)
    <2>1. PICK k \in DOMAIN t : copy \in {Append(SubSeq(t, 1, k - 1), cut) : cut \in Cuts(t[k])}
      BY <1>3 DEF CutTexts
    <2>2. PICK cut \in Cuts(t[k]) : copy = Append(SubSeq(t, 1, k - 1), cut)
      BY <2>1
    <2>3. cut \in Line(notes)
      <3>1. t[k] \in Line(notes)
        BY <1>2
      <3> QED  BY <3>1, CutsAreLines
    <2>4. SubSeq(t, 1, k - 1) \in Seq(Line(notes))
      BY <1>2
    <2> QED  BY <2>2, <2>3, <2>4
  <1>4. CASE \E k \in DOMAIN t : copy = RemoveAt(t, k)
    BY <1>2, <1>4 DEF RemoveAt
  <1>5. CASE \E k \in DOMAIN t : copy = InsertAt(t, k, t[k])
    BY <1>2, <1>5 DEF InsertAt
  <1>6. CASE \E k \in DOMAIN t, u \in texts : copy = [t EXCEPT ![k] = u[k]]
    <2>1. PICK k \in DOMAIN t, u \in texts : copy = [t EXCEPT ![k] = u[k]]
      BY <1>6
    <2>2. u \in Seq(Line(notes)) /\ Len(u) = Len(t)
      OBVIOUS
    <2>3. u[k] \in Line(notes)
      BY <1>2, <2>2
    <2> QED  BY <1>2, <2>1, <2>3
  <1> QED  BY <1>1, <1>3, <1>4, <1>5, <1>6

-----------------------------------------------------------------------------
(* Base64. *)

InTurn(k, bytes, words) ==
  bytes = [n \in 0..k |-> IF n = 0 THEN <<>> ELSE bytes[n - 1] \o DecodeWord(words[n])]

LEMMA InTurnExists == \A words : \A k \in Nat : \E bytes : InTurn(k, bytes, words)
  <1> SUFFICES ASSUME NEW words PROVE \A k \in Nat : \E bytes : InTurn(k, bytes, words)
    OBVIOUS
  <1> DEFINE S == {k \in Nat : \E bytes : InTurn(k, bytes, words)}
  <1>1. 0 \in S
    <2> DEFINE a == [n \in 0..0 |-> <<>>]
    <2>1. InTurn(0, a, words)
      BY DEF InTurn
    <2> QED  BY <2>1
  <1>2. ASSUME NEW k \in Nat, k \in S PROVE k + 1 \in S
    <2>1. PICK a : InTurn(k, a, words)
      BY <1>2
    <2> DEFINE b == [n \in 0..k + 1 |-> IF n <= k THEN a[n] ELSE a[k] \o DecodeWord(words[k + 1])]
    <2>2. \A n \in 0..k : b[n] = a[n]
      OBVIOUS
    <2>3. b[k + 1] = a[k] \o DecodeWord(words[k + 1])
      <3>1. k + 1 \in 0..k + 1 /\ ~(k + 1 <= k)
        OBVIOUS
      <3> QED  BY <3>1, Zenon
    <2>4. \A n \in 0..k : a[n] = IF n = 0 THEN <<>> ELSE a[n - 1] \o DecodeWord(words[n])
      BY <2>1 DEF InTurn
    <2>5. b = [n \in 0..k + 1 |-> b[n]]
      OBVIOUS
    <2> HIDE DEF b
    <2>6. \A n \in 0..k + 1 : b[n] = IF n = 0 THEN <<>> ELSE b[n - 1] \o DecodeWord(words[n])
      <3> SUFFICES ASSUME NEW n \in 0..k + 1
                   PROVE  b[n] = IF n = 0 THEN <<>> ELSE b[n - 1] \o DecodeWord(words[n])
        OBVIOUS
      <3>1. CASE n = 0
        BY <2>2, <2>4, <3>1
      <3>2. CASE n \in 1..k
        <4>1. n - 1 \in 0..k /\ n \in 0..k /\ n # 0
          BY <3>2
        <4> QED  BY <2>2, <2>4, <4>1
      <3>3. CASE n = k + 1
        <4>1. k \in 0..k /\ n - 1 = k /\ n # 0
          BY <3>3
        <4> QED  BY <2>2, <2>3, <3>3, <4>1
      <3> QED  BY <3>1, <3>2, <3>3
    <2>7. InTurn(k + 1, b, words)
      BY <2>5, <2>6 DEF InTurn
    <2>8. k + 1 \in Nat
      OBVIOUS
    <2> QED  BY <2>7, <2>8
  <1>3. Nat \subseteq S
    <2> HIDE DEF S
    <2> QED  BY <1>1, <1>2, Induction
  <1> QED  BY <1>3

Decodes(bytes, words) ==
  /\ Decode(words) = bytes[Len(words)]
  /\ bytes[0] = <<>>
  /\ \A n \in 1..Len(words) : bytes[n] = bytes[n - 1] \o DecodeWord(words[n])

LEMMA DecodesInTurn ==
  ASSUME NEW words, Len(words) \in Nat
  PROVE  \E bytes : Decodes(bytes, words)
  <1> DEFINE bytes == CHOOSE a : InTurn(Len(words), a, words)
  <1>1. Decode(words) = bytes[Len(words)]
    BY DEF Decode, InTurn
  <1>2. InTurn(Len(words), bytes, words)
    BY InTurnExists
  <1> HIDE DEF bytes
  <1>3. \A n \in 0..Len(words) :
          bytes[n] = IF n = 0 THEN <<>> ELSE bytes[n - 1] \o DecodeWord(words[n])
    BY <1>2 DEF InTurn
  <1>4. bytes[0] = <<>>
    BY <1>3
  <1>5. \A n \in 1..Len(words) : bytes[n] = bytes[n - 1] \o DecodeWord(words[n])
    <2>1. \A n \in 1..Len(words) : n \in 0..Len(words) /\ n # 0
      OBVIOUS
    <2> QED  BY <1>3, <2>1, Zenon
  <1> QED  BY <1>1, <1>4, <1>5 DEF Decodes

LEMMA DecodeWordType ==
  ASSUME NEW notes, NEW word \in Word(notes)
  PROVE  DecodeWord(word) \in Seq(Decoded(notes))
  <1>1. CASE "base64" \in DOMAIN word
    <2>1. word.base64 \in Seq(Byte(notes))
      BY <1>1 DEF Word
    <2>2. Seq(Byte(notes)) \subseteq Seq(Decoded(notes))
      BY Sequences DEF Decoded
    <2> QED  BY <1>1, <2>1, <2>2 DEF DecodeWord
  <1>2. CASE "base64" \notin DOMAIN word
    <2>1. [misread |-> word] \in Decoded(notes)
      BY DEF Decoded
    <2> QED  BY <1>2, <2>1 DEF DecodeWord
  <1> QED  BY <1>1, <1>2

\* Whatever is decoded, a byte that comes out says where it comes from.
LEMMA DecodeType ==
  ASSUME NEW notes, NEW words \in Line(notes)
  PROVE  Decode(words) \in Seq(Decoded(notes))
  <1>1. words \in Seq(Word(notes))
    BY DEF Line
  <1>2. PICK bytes : Decodes(bytes, words)
    BY <1>1, DecodesInTurn
  <1> DEFINE N == {n \in Nat : n <= Len(words) => bytes[n] \in Seq(Decoded(notes))}
  <1>3. 0 \in N
    <2>1. bytes[0] = <<>>
      BY <1>2 DEF Decodes
    <2>2. <<>> \in Seq(Decoded(notes))
      OBVIOUS
    <2> QED  BY <2>1, <2>2
  <1>4. ASSUME NEW n \in Nat, n \in N PROVE n + 1 \in N
    <2>1. SUFFICES ASSUME n + 1 <= Len(words) PROVE bytes[n + 1] \in Seq(Decoded(notes))
      OBVIOUS
    <2>2. /\ n + 1 \in 1..Len(words) /\ (n + 1) - 1 = n /\ words[n + 1] \in Word(notes)
          /\ bytes[n] \in Seq(Decoded(notes))
      BY <1>1, <1>4, <2>1
    <2>3. bytes[n + 1] = bytes[n] \o DecodeWord(words[n + 1])
      BY <1>2, <2>2 DEF Decodes
    <2>4. DecodeWord(words[n + 1]) \in Seq(Decoded(notes))
      BY <2>2, DecodeWordType
    <2> QED  BY <2>2, <2>3, <2>4
  <1>5. Nat \subseteq N
    <2> HIDE DEF N
    <2> QED  BY <1>3, <1>4, Induction
  <1>6. Len(words) \in N
    BY <1>1, <1>5
  <1> QED  BY <1>1, <1>2, <1>6 DEF Decodes

LEMMA DecodeOne ==
  ASSUME NEW S, NEW word, word.base64 \in Seq(S), "base64" \in DOMAIN word
  PROVE  Decode(<<word>>) = word.base64
  <1> DEFINE words == <<word>>
  <1>1. Len(words) = 1 /\ words[1] = word
    OBVIOUS
  <1> HIDE DEF words
  <1>2. PICK bytes : Decodes(bytes, words)
    BY <1>1, DecodesInTurn
  <1>3. Decode(words) = <<>> \o word.base64
    <2>1. Decode(words) = bytes[1] /\ bytes[0] = <<>> /\ 1 \in 1..Len(words)
      BY <1>1, <1>2 DEF Decodes
    <2>2. bytes[1] = bytes[1 - 1] \o DecodeWord(words[1])
      BY <1>2, <2>1 DEF Decodes
    <2>3. DecodeWord(words[1]) = word.base64 /\ 1 - 1 = 0
      BY <1>1 DEF DecodeWord
    <2> QED  BY <2>1, <2>2, <2>3
  <1>4. Decode(words) = word.base64
    BY <1>3
  <1> QED  BY <1>4 DEF words

LEMMA DecodeTwo ==
  ASSUME NEW S, NEW one, one.base64 \in Seq(S), "base64" \in DOMAIN one,
         NEW two, two.base64 \in Seq(S), "base64" \in DOMAIN two
  PROVE  Decode(<<one, two>>) = one.base64 \o two.base64
  <1> DEFINE words == <<one, two>>
  <1>1. Len(words) = 2 /\ words[1] = one /\ words[2] = two
    OBVIOUS
  <1> HIDE DEF words
  <1>2. PICK bytes : Decodes(bytes, words)
    BY <1>1, DecodesInTurn
  <1>3. bytes[1] = <<>> \o one.base64 /\ bytes[2] = bytes[1] \o two.base64
    <2>1. bytes[0] = <<>> /\ 1 \in 1..Len(words) /\ 2 \in 1..Len(words)
      BY <1>1, <1>2 DEF Decodes
    <2>2. /\ bytes[1] = bytes[1 - 1] \o DecodeWord(words[1])
          /\ bytes[2] = bytes[2 - 1] \o DecodeWord(words[2])
      BY <1>2, <2>1 DEF Decodes
    <2>3. /\ DecodeWord(words[1]) = one.base64 /\ DecodeWord(words[2]) = two.base64
          /\ 1 - 1 = 0 /\ 2 - 1 = 1
      BY <1>1 DEF DecodeWord
    <2> QED  BY <2>1, <2>2, <2>3
  <1>4. bytes[1] = one.base64
    BY <1>3
  <1>5. Decode(words) = one.base64 \o two.base64
    BY <1>1, <1>2, <1>3, <1>4 DEF Decodes
  <1> QED  BY <1>5 DEF words

-----------------------------------------------------------------------------
(* Verifier files.  A file that was cut is not valid, one that is whole is,  *)
(* wherever the plus sign that it is split at may be.                        *)

Raw(log) == <<Algorithm>> \o KeyOf(log)

LEMMA RawParts ==
  ASSUME NEW log \in Logs
  PROVE  /\ Raw(log) \in Seq(Byte({})) /\ Len(Raw(log)) = 1 + KeySize
         /\ SubSeq(Raw(log), 2, Len(Raw(log))) = KeyOf(log)
         /\ Tail(Raw(log)) = KeyOf(log)
         /\ SubSeq(Raw(log), 1, 1) = <<Algorithm>>
  <1>1. /\ KeyOf(log) \in Seq(Byte({})) /\ Len(KeyOf(log)) = KeySize
        /\ <<Algorithm>> \in Seq(Byte({}))
    BY LogBytes
  <1> DEFINE key == KeyOf(log)
             raw == Raw(log)
  <1>2. raw \in Seq(Byte({})) /\ Len(raw) = 1 + KeySize
    BY <1>1, Sizes DEF Raw
  <1>3. raw[1] = Algorithm /\ \A i \in 1..KeySize : raw[i + 1] = key[i]
    BY <1>1, Sizes DEF Raw
  <1> HIDE DEF key, raw
  <1>4. SubSeq(raw, 2, Len(raw)) = key
    <2>1. key \in Seq(Byte({})) /\ Len(key) = KeySize
      BY <1>1 DEF key
    <2> DEFINE s == SubSeq(raw, 2, Len(raw))
    <2>2. s \in Seq(Byte({})) /\ Len(s) = KeySize /\ \A i \in 1..KeySize : s[i] = raw[i + 1]
      BY <1>2, Sizes
    <2> HIDE DEF s
    <2>3. \A i \in 1..KeySize : s[i] = key[i]
      BY <1>3, <2>2
    <2>4. s = key
      BY <2>1, <2>2, <2>3
    <2> QED  BY <2>4 DEF s
  <1>5. Tail(raw) = SubSeq(raw, 2, Len(raw))
    BY <1>2, Sizes
  <1>6. SubSeq(raw, 1, 1) = <<Algorithm>>
    <2> DEFINE s == SubSeq(raw, 1, 1)
    <2>1. s \in Seq(Byte({})) /\ Len(s) = 1 /\ s[1] = Algorithm
      BY <1>2, <1>3, Sizes
    <2> HIDE DEF s
    <2>2. s = <<Algorithm>>
      BY <2>1
    <2> QED  BY <2>2 DEF s
  <1> QED  BY <1>2, <1>4, <1>5, <1>6 DEF key, raw

LEMMA CutWord ==
  ASSUME NEW words, Len(words) \in Nat, NEW k \in 0..Len(words), NEW n \in Nat
  PROVE  /\ Len(CutWords(words, k, n)) = k
         /\ DOMAIN CutWords(words, k, n) = 1..k
         /\ \A i \in 1..k - 1 : CutWords(words, k, n)[i] = words[i]
         /\ k > 0 => CutWords(words, k, n)[k] =
              IF "base64" \in DOMAIN words[k] /\ n < Len(words[k].base64)
              THEN [base64 |-> SubSeq(words[k].base64, 1, n)] ELSE words[k]
  BY DEF CutWords

\* The third section of a file, for each number of words that is left of it.
LEMMA FewWords ==
  ASSUME NEW S, NEW words \in Seq(S), Len(words) < 3
  PROVE  Len(Split(words, 3)) # 3
  <1>1. Split(words, 3) = [n \in 1..Len(words) |-> <<words[n]>>]
    BY DEF Split
  <1>2. Len(Split(words, 3)) = Len(words)
    BY <1>1
  <1>3. Len(words) \in Nat /\ Len(words) < 3
    OBVIOUS
  <1>4. \A n \in Nat : n < 3 => n # 3
    OBVIOUS
  <1> QED  BY <1>2, <1>3, <1>4, Zenon

LEMMA ThreeWords ==
  ASSUME NEW S, NEW words \in Seq(S), Len(words) = 3
  PROVE  Len(Split(words, 3)) = 3 /\ Split(words, 3)[3] = <<words[3]>>
  BY DEF Split

LEMMA FourWords ==
  ASSUME NEW S, NEW words \in Seq(S), Len(words) = 4
  PROVE  Len(Split(words, 3)) = 3 /\ Split(words, 3)[3] = <<words[3], words[4]>>
  <1>1. Split(words, 3) = [n \in 1..3 |-> IF n < 3 THEN <<words[n]>> ELSE SubSeq(words, 3, 4)]
    BY DEF Split
  <1> DEFINE s == SubSeq(words, 3, 4)
  <1>2. s \in Seq(S) /\ Len(s) = 2 /\ s[1] = words[3] /\ s[2] = words[4]
    OBVIOUS
  <1>3. Len(Split(words, 3)) = 3 /\ Split(words, 3)[3] = s
    BY <1>1
  <1> HIDE DEF s
  <1>4. s = <<words[3], words[4]>>
    BY <1>2
  <1> QED  BY <1>3, <1>4

\* Of a word that was cut, some bytes are gone.
LEMMA CutBytes ==
  ASSUME NEW S, NEW bytes \in Seq(S), NEW n \in Nat, NEW word,
         word = IF "base64" \in DOMAIN [base64 |-> bytes] /\ n < Len([base64 |-> bytes].base64)
                THEN [base64 |-> SubSeq([base64 |-> bytes].base64, 1, n)]
                ELSE [base64 |-> bytes]
  PROVE  /\ "base64" \in DOMAIN word /\ word.base64 \in Seq(S)
         /\ Len(word.base64) <= Len(bytes)
         /\ word = [base64 |-> bytes] <=> Len(word.base64) = Len(bytes)
  <1>1. CASE n < Len(bytes)
    <2>1. word = [base64 |-> SubSeq(bytes, 1, n)]
      BY <1>1
    <2>2. SubSeq(bytes, 1, n) \in Seq(S) /\ Len(SubSeq(bytes, 1, n)) = n
      BY <1>1
    <2>3. word.base64 = SubSeq(bytes, 1, n) /\ "base64" \in DOMAIN word
      BY <2>1
    <2>4. word # [base64 |-> bytes]
      BY <1>1, <2>2, <2>3
    <2> QED  BY <1>1, <2>2, <2>3, <2>4
  <1>2. CASE ~(n < Len(bytes))
    BY <1>2
  <1> QED  BY <1>1, <1>2

LEMMA Joined ==
  ASSUME NEW a, NEW b, NEW c, NEW d
  PROVE  <<a, b>> \o <<c>> = <<a, b, c>> /\ <<a, b>> \o <<c, d>> = <<a, b, c, d>>
  <1> DEFINE S == {a, b, c, d}
             s == <<a, b>> \o <<c>>
             t == <<a, b>> \o <<c, d>>
  <1>1. <<a, b>> \in Seq(S) /\ <<c>> \in Seq(S) /\ <<c, d>> \in Seq(S)
    OBVIOUS
  <1>2. s \in Seq(S) /\ Len(s) = 3 /\ s[1] = a /\ s[2] = b /\ s[3] = c
    BY <1>1
  <1>3. t \in Seq(S) /\ Len(t) = 4 /\ t[1] = a /\ t[2] = b /\ t[3] = c /\ t[4] = d
    BY <1>1
  <1> HIDE DEF s, t, S
  <1>4. s = <<a, b, c>>
    BY <1>2
  <1>5. t = <<a, b, c, d>>
    BY <1>3
  <1> QED  BY <1>4, <1>5 DEF s, t

LEMMA PlainFile ==
  ASSUME NEW log \in Logs \ PlusLogs
  PROVE  VerifierText(log) =
           <<[name |-> log], [base64 |-> HashOf(log)], [base64 |-> Raw(log)]>>
  BY Joined DEF VerifierText, Raw

LEMMA PlusFile ==
  ASSUME NEW log \in PlusLogs
  PROVE  VerifierText(log) =
           <<[name |-> log], [base64 |-> HashOf(log)], [base64 |-> <<Algorithm>>],
             [base64 |-> KeyOf(log)]>>
  <1>1. /\ SubSeq(Raw(log), 1, 1) = <<Algorithm>>
        /\ Tail(Raw(log)) = KeyOf(log)
    BY RawParts, BtAssumption
  <1> DEFINE one == [base64 |-> <<Algorithm>>]
             two == [base64 |-> KeyOf(log)]
  <1>2. VerifierText(log) =
          <<[name |-> log], [base64 |-> HashOf(log)]>> \o <<one, two>>
    BY <1>1 DEF VerifierText, Raw
  <1> HIDE DEF one, two
  <1>3. VerifierText(log) = <<[name |-> log], [base64 |-> HashOf(log)], one, two>>
    BY <1>2, Joined
  <1> QED  BY <1>3 DEF one, two

\* A file of the form that a log without a plus sign in its key publishes.
LEMMA PlainFiles ==
  ASSUME NEW log \in Logs \ PlusLogs, NEW words \in Cuts(VerifierText(log))
  PROVE  /\ VerifierIsValid(words) <=> words = VerifierText(log)
         /\ VerifierIsValid(words) => Verifier(words).key = KeyOf(log)
  <1> DEFINE whole == VerifierText(log)
             raw == Raw(log)
  <1>1. /\ raw \in Seq(Byte({})) /\ Len(raw) = 1 + KeySize
        /\ SubSeq(raw, 2, Len(raw)) = KeyOf(log)
    BY RawParts
  <1>2. /\ Len(whole) = 3 /\ whole[3] = [base64 |-> raw] /\ whole \in Seq(Word({}))
    <2> DEFINE one == [name |-> log]
               two == [base64 |-> HashOf(log)]
               three == [base64 |-> raw]
    <2>1. one \in Word({}) /\ two \in Word({}) /\ three \in Word({})
      BY <1>1, LogBytes DEF Word
    <2>2. whole = <<one, two, three>>
      BY PlainFile
    <2> HIDE DEF one, two, three, whole
    <2>3. Len(whole) = 3 /\ whole[3] = three /\ whole \in Seq(Word({}))
      BY <2>1, <2>2
    <2> QED  BY <2>3 DEF three
  <1>3. PICK k \in 0..Len(whole), n \in 0..HashSize + SignatureSize : words = CutWords(whole, k, n)
    BY DEF Cuts
  <1> HIDE DEF whole, raw
  <1>4. n \in Nat /\ k \in 0..3 /\ Len(whole) \in Nat
    BY <1>2, <1>3, Sizes
  <1>5. words \in Seq(Word({}))
    BY <1>2, CutsAreLines DEF Line, whole
  <1>6. /\ Len(words) = k
        /\ \A i \in 1..k - 1 : words[i] = whole[i]
        /\ k > 0 => words[k] =
             IF "base64" \in DOMAIN whole[k] /\ n < Len(whole[k].base64)
             THEN [base64 |-> SubSeq(whole[k].base64, 1, n)] ELSE whole[k]
    BY <1>3, <1>4, CutWord
  <1>7. CASE k # 3
    <2>1. ~VerifierIsValid(words)
      BY <1>4, <1>5, <1>6, <1>7, FewWords DEF VerifierIsValid
    <2>2. Len(words) # Len(whole)
      BY <1>2, <1>6, <1>7
    <2> QED  BY <2>1, <2>2 DEF whole
  <1>8. CASE k = 3
    <2>1. /\ "base64" \in DOMAIN words[3] /\ words[3].base64 \in Seq(Byte({}))
          /\ Len(words[3].base64) <= Len(raw)
          /\ words[3] = [base64 |-> raw] <=> Len(words[3].base64) = Len(raw)
      <3>1. words[3] =
              IF "base64" \in DOMAIN [base64 |-> raw] /\ n < Len([base64 |-> raw].base64)
              THEN [base64 |-> SubSeq([base64 |-> raw].base64, 1, n)] ELSE [base64 |-> raw]
        BY <1>2, <1>6, <1>8
      <3> QED  BY <1>1, <1>4, <3>1, CutBytes
    <2>2. Len(Split(words, 3)) = 3 /\ Decode(Split(words, 3)[3]) = words[3].base64
      <3>1. Len(words) = 3
        BY <1>6, <1>8
      <3>2. Len(Split(words, 3)) = 3 /\ Split(words, 3)[3] = <<words[3]>>
        BY <1>5, <3>1, ThreeWords
      <3>3. Decode(<<words[3]>>) = words[3].base64
        BY <2>1, DecodeOne
      <3> QED  BY <3>2, <3>3
    <2>3. VerifierIsValid(words) <=> words[3] = [base64 |-> raw]
      BY <1>1, <2>1, <2>2 DEF VerifierIsValid
    <2>4. words = whole <=> words[3] = [base64 |-> raw]
      <3>1. words[1] = whole[1] /\ words[2] = whole[2] /\ Len(words) = 3
        BY <1>6, <1>8
      <3> QED  BY <1>2, <1>5, <3>1
    <2>5. ASSUME words[3] = [base64 |-> raw] PROVE Verifier(words).key = KeyOf(log)
      <3>1. Decode(Split(words, 3)[3]) = raw
        BY <2>2, <2>5
      <3> QED  BY <1>1, <3>1 DEF Verifier
    <2> QED  BY <2>3, <2>4, <2>5 DEF whole
  <1> QED  BY <1>7, <1>8

\* One whose key has a plus sign behind its first byte: two words of one section.
LEMMA PlusFiles ==
  ASSUME NEW log \in PlusLogs, NEW words \in Cuts(VerifierText(log))
  PROVE  /\ VerifierIsValid(words) <=> words = VerifierText(log)
         /\ VerifierIsValid(words) => Verifier(words).key = KeyOf(log)
  <1> DEFINE whole == VerifierText(log)
             key == KeyOf(log)
             alg == <<Algorithm>>
  <1>1. /\ key \in Seq(Byte({})) /\ Len(key) = KeySize
        /\ alg \in Seq(Byte({})) /\ Len(alg) = 1
        /\ SubSeq(alg \o key, 2, Len(alg \o key)) = key
    BY LogBytes, RawParts, BtAssumption DEF Raw
  <1>2. /\ Len(whole) = 4 /\ whole[3] = [base64 |-> alg] /\ whole[4] = [base64 |-> key]
        /\ whole \in Seq(Word({}))
    <2> DEFINE one == [name |-> log]
               two == [base64 |-> HashOf(log)]
               three == [base64 |-> alg]
               four == [base64 |-> key]
    <2>1. one \in Word({}) /\ two \in Word({}) /\ three \in Word({}) /\ four \in Word({})
      BY <1>1, LogBytes, BtAssumption DEF Word
    <2>2. whole = <<one, two, three, four>>
      BY PlusFile
    <2> HIDE DEF one, two, three, four, whole
    <2>3. Len(whole) = 4 /\ whole[3] = three /\ whole[4] = four /\ whole \in Seq(Word({}))
      BY <2>1, <2>2
    <2> QED  BY <2>3 DEF three, four
  <1>3. PICK k \in 0..Len(whole), n \in 0..HashSize + SignatureSize : words = CutWords(whole, k, n)
    BY DEF Cuts
  <1> HIDE DEF whole, key, alg
  <1>4. n \in Nat /\ k \in 0..4 /\ Len(whole) \in Nat /\ KeySize \in Nat \ {0}
    BY <1>2, <1>3, Sizes
  <1>5. words \in Seq(Word({}))
    BY <1>2, BtAssumption, CutsAreLines DEF Line, whole
  <1>6. /\ Len(words) = k
        /\ \A i \in 1..k - 1 : words[i] = whole[i]
        /\ k > 0 => words[k] =
             IF "base64" \in DOMAIN whole[k] /\ n < Len(whole[k].base64)
             THEN [base64 |-> SubSeq(whole[k].base64, 1, n)] ELSE whole[k]
    BY <1>3, <1>4, CutWord
  <1>7. CASE k \in {0, 1, 2}
    <2>1. ~VerifierIsValid(words)
      BY <1>5, <1>6, <1>7, FewWords DEF VerifierIsValid
    <2>2. Len(words) # Len(whole)
      BY <1>2, <1>6, <1>7
    <2> QED  BY <2>1, <2>2 DEF whole
  <1>8. CASE k = 3
    <2>1. /\ "base64" \in DOMAIN words[3] /\ words[3].base64 \in Seq(Byte({}))
          /\ Len(words[3].base64) <= Len(alg)
      <3>1. words[3] =
              IF "base64" \in DOMAIN [base64 |-> alg] /\ n < Len([base64 |-> alg].base64)
              THEN [base64 |-> SubSeq([base64 |-> alg].base64, 1, n)] ELSE [base64 |-> alg]
        BY <1>2, <1>6, <1>8
      <3> QED  BY <1>1, <1>4, <3>1, CutBytes
    <2>2. Decode(Split(words, 3)[3]) = words[3].base64
      <3>1. Len(words) = 3
        BY <1>6, <1>8
      <3>2. Split(words, 3)[3] = <<words[3]>>
        BY <1>5, <3>1, ThreeWords
      <3>3. Decode(<<words[3]>>) = words[3].base64
        BY <2>1, DecodeOne
      <3> QED  BY <3>2, <3>3
    <2>3. ~VerifierIsValid(words)
      <3>1. Len(words[3].base64) \in Nat /\ Len(words[3].base64) <= 1
        BY <1>1, <2>1
      <3>2. Len(words[3].base64) # 1 + KeySize
        BY <1>4, <3>1
      <3> QED  BY <2>2, <3>2 DEF VerifierIsValid
    <2>4. Len(words) # Len(whole)
      BY <1>2, <1>6, <1>8
    <2> QED  BY <2>3, <2>4 DEF whole
  <1>9. CASE k = 4
    <2>1. /\ "base64" \in DOMAIN words[4] /\ words[4].base64 \in Seq(Byte({}))
          /\ words[4] = [base64 |-> key] <=> Len(words[4].base64) = Len(key)
      <3>1. words[4] =
              IF "base64" \in DOMAIN [base64 |-> key] /\ n < Len([base64 |-> key].base64)
              THEN [base64 |-> SubSeq([base64 |-> key].base64, 1, n)] ELSE [base64 |-> key]
        BY <1>2, <1>6, <1>9
      <3> QED  BY <1>1, <1>4, <3>1, CutBytes
    <2>2. /\ words[3] = [base64 |-> alg] /\ "base64" \in DOMAIN words[3]
          /\ words[3].base64 = alg
      BY <1>2, <1>6, <1>9
    <2>3. /\ Len(Split(words, 3)) = 3
          /\ Decode(Split(words, 3)[3]) = alg \o words[4].base64
      <3>1. Len(words) = 4
        BY <1>6, <1>9
      <3>2. Len(Split(words, 3)) = 3 /\ Split(words, 3)[3] = <<words[3], words[4]>>
        BY <1>5, <3>1, FourWords
      <3>3. Decode(<<words[3], words[4]>>) = words[3].base64 \o words[4].base64
        BY <1>1, <2>1, <2>2, DecodeTwo
      <3> QED  BY <2>2, <3>2, <3>3
    <2>4. VerifierIsValid(words) <=> words[4] = [base64 |-> key]
      <3> DEFINE bytes == words[4].base64
      <3> HIDE DEF bytes
      <3>3. bytes \in Seq(Byte({}))
        BY <2>1 DEF bytes
      <3>4. Len(alg \o bytes) = 1 + Len(bytes) /\ Len(bytes) \in Nat
        <4>1. alg \in Seq(Byte({})) /\ Len(alg) = 1
          BY <1>1
        <4>2. Len(alg \o bytes) = Len(alg) + Len(bytes) /\ Len(bytes) \in Nat
          BY <3>3, <4>1, Concat
        <4> QED  BY <4>1, <4>2
      <3>1. /\ Len(alg \o words[4].base64) = 1 + Len(words[4].base64)
            /\ Len(words[4].base64) \in Nat
        BY <3>4 DEF bytes
      <3>2. Len(alg \o words[4].base64) = 1 + KeySize <=> Len(words[4].base64) = KeySize
        BY <1>4, <3>1
      <3> QED  BY <1>1, <2>1, <2>3, <3>2 DEF VerifierIsValid
    <2>5. words = whole <=> words[4] = [base64 |-> key]
      <3>1. words[1] = whole[1] /\ words[2] = whole[2] /\ words[3] = whole[3] /\ Len(words) = 4
        BY <1>6, <1>9
      <3> QED  BY <1>2, <1>5, <3>1
    <2>6. ASSUME words[4] = [base64 |-> key] PROVE Verifier(words).key = KeyOf(log)
      <3>1. Decode(Split(words, 3)[3]) = alg \o key
        BY <2>3, <2>6
      <3>2. Verifier(words).key = SubSeq(alg \o key, 2, Len(alg \o key))
        BY <3>1 DEF Verifier
      <3> QED  BY <1>1, <3>2 DEF key
    <2> QED  BY <2>4, <2>5, <2>6 DEF whole
  <1>10. k \in {0, 1, 2} \/ k = 3 \/ k = 4
    BY <1>4
  <1> QED  BY <1>7, <1>8, <1>9, <1>10

LEMMA VerifierFiles ==
  ASSUME NEW log \in Logs, NEW words \in Cuts(VerifierText(log))
  PROVE  /\ VerifierIsValid(words) <=> words = VerifierText(log)
         /\ VerifierIsValid(words) => Verifier(words).key = KeyOf(log)
  BY PlainFiles, PlusFiles

-----------------------------------------------------------------------------
(* The keyring. *)

KeyInv ==
  /\ published \subseteq Note
  /\ given \subseteq Logs
  /\ KeysAreWhole

LEMMA KeyInit == Init => KeyInv
  BY DEF Init, KeyInv, KeysAreWhole

LEMMA KeyNext == KeyInv /\ [Next]_vars => KeyInv'
  <1> SUFFICES ASSUME KeyInv, [Next]_vars PROVE KeyInv'
    OBVIOUS
  <1> USE DEF KeyInv, KeysAreWhole
  <1>1. ASSUME NEW log \in Logs, NEW size \in 0..MaxSize, Publish(log, size) PROVE KeyInv'
    BY <1>1 DEF Publish, Note
  <1>2. ASSUME NEW copy, NewCheckpoint(copy) PROVE KeyInv'
    BY <1>2 DEF NewCheckpoint
  <1>3. ASSUME NEW log \in Logs, NEW words \in Cuts(VerifierText(log)), AddVerifier(log, words)
        PROVE  KeyInv'
    <2>1. /\ VerifierIsValid(words) <=> words = VerifierText(log)
          /\ VerifierIsValid(words) => Verifier(words).key = KeyOf(log)
      BY VerifierFiles
    <2>2. Len(KeyOf(log)) = KeySize
      BY LogBytes
    <2>3. CASE words = VerifierText(log)
      <3>1. pubkeys' = pubkeys \cup {KeyOf(log)} /\ given' = given \cup {log}
        BY <1>3, <2>1, <2>2, <2>3 DEF AddVerifier
      <3> QED  BY <1>3, <3>1 DEF AddVerifier
    <2>4. CASE words # VerifierText(log)
      <3>1. pubkeys' = pubkeys /\ given' = given
        BY <1>3, <2>1, <2>4 DEF AddVerifier
      <3> QED  BY <1>3, <3>1 DEF AddVerifier
    <2> QED  BY <2>3, <2>4
  <1>4. ASSUME NEW c, Verify(c) PROVE KeyInv'
    BY <1>4 DEF Verify
  <1>5. CASE UNCHANGED vars
    BY <1>5 DEF vars
  <1> QED  BY <1>1, <1>2, <1>3, <1>4, <1>5 DEF Next

LEMMA KeyInvariant == Spec => []KeyInv
  BY KeyInit, KeyNext, PTL DEF Spec

(* jcat_bt_verifier_new and jcat_engine_add_public_key_raw: whatever verifier  *)
(* files were cut, in whatever order they came, the engine has the keys of the *)
(* whole ones and no other.                                                    *)
THEOREM KeyringIsWhole == Spec => []KeysAreWhole
  <1>1. KeyInv => KeysAreWhole
    BY DEF KeyInv
  <1> QED  BY <1>1, KeyInvariant, PTL

-----------------------------------------------------------------------------
(* Checkpoints. *)

TextInv ==
  /\ text \in Seq(Line(published))
  /\ checkpoint = IF CheckpointIsValid(text) THEN {Checkpoint(text)} ELSE {}

LEMMA TextInit == Init => TextInv
  <1> SUFFICES ASSUME Init PROVE TextInv
    OBVIOUS
  <1>1. Len(text) # 6
    BY DEF Init
  <1> QED  BY <1>1 DEF Init, TextInv, CheckpointIsValid

LEMMA NotesHaveSixLines ==
  ASSUME NEW note
  PROVE  /\ Len(NoteText(note)) = 6
         /\ NoteText(note)[1] = <<[name |-> note.log]>>
         /\ NoteText(note)[2] = <<[number |-> note.size]>>
         /\ NoteText(note)[3] = <<[base64 |-> RootOf(note)]>>
         /\ NoteText(note)[5] = SignatureLine(note)
         /\ SubSeq(NoteText(note), 1, 3) = Head3(note)
  <1> DEFINE one == <<[name |-> note.log]>>
             two == <<[number |-> note.size]>>
             three == <<[base64 |-> RootOf(note)]>>
             five == SignatureLine(note)
             S == {one, two, three, five, <<>>}
             head == <<one, two, three>>
             rest == << <<>>, five, <<>> >>
  <1>1. Head3(note) = head /\ NoteText(note) = head \o rest
    BY DEF NoteText, Head3
  <1> HIDE DEF one, two, three, five
  <1>2. head \in Seq(S) /\ rest \in Seq(S) /\ Len(head) = 3 /\ Len(rest) = 3
    OBVIOUS
  <1>3. /\ Len(head \o rest) = 6
        /\ (head \o rest)[1] = one /\ (head \o rest)[2] = two /\ (head \o rest)[3] = three
        /\ (head \o rest)[5] = five
    BY <1>2
  <1>4. SubSeq(head \o rest, 1, 3) = head
    <2> DEFINE s == SubSeq(head \o rest, 1, 3)
    <2>1. s \in Seq(S) /\ Len(s) = 3 /\ s[1] = one /\ s[2] = two /\ s[3] = three
      BY <1>2, <1>3
    <2> HIDE DEF s
    <2>2. s = <<one, two, three>>
      BY <2>1
    <2> QED  BY <2>2 DEF s
  <1> QED  BY <1>1, <1>3, <1>4 DEF one, two, three, five

LEMMA TextNext == KeyInv /\ TextInv /\ [Next]_vars => TextInv'
  <1> SUFFICES ASSUME KeyInv, TextInv, [Next]_vars PROVE TextInv'
    OBVIOUS
  <1> USE DEF TextInv
  <1>1. ASSUME NEW log \in Logs, NEW size \in 0..MaxSize, Publish(log, size) PROVE TextInv'
    <2>1. Seq(Line(published)) \subseteq Seq(Line(published'))
      BY <1>1, Published DEF Publish
    <2> QED  BY <1>1, <2>1 DEF Publish
  <1>2. ASSUME NEW copy \in Copies({NoteText(note) : note \in published}), NewCheckpoint(copy)
        PROVE  TextInv'
    <2> DEFINE texts == {NoteText(note) : note \in published}
    <2>1. texts \in SUBSET Seq(Line(published))
      <3>1. \A note \in published : NoteText(note) \in Seq(Line(published))
        BY NoteTextType DEF KeyInv
      <3> QED  BY <3>1
    <2>2. \A t, u \in texts : Len(t) = Len(u)
      BY NotesHaveSixLines
    <2>3. copy \in Seq(Line(published))
      <3> HIDE DEF texts
      <3>1. copy \in Copies(texts)
        BY DEF texts
      <3> QED  BY <2>1, <2>2, <3>1, CopiesAreTexts
    <2> QED  BY <1>2, <2>3 DEF NewCheckpoint
  <1>3. ASSUME NEW log, NEW words, AddVerifier(log, words) PROVE TextInv'
    BY <1>3 DEF AddVerifier
  <1>4. ASSUME NEW c, Verify(c) PROVE TextInv'
    BY <1>4 DEF Verify
  <1>5. CASE UNCHANGED vars
    BY <1>5 DEF vars
  <1> QED  BY <1>1, <1>2, <1>3, <1>4, <1>5 DEF Next

\* jcat_bt_checkpoint_new reads a size as it is if it fits in a guint, and refuses it otherwise.
LEMMA SizeIsRead ==
  ASSUME NEW size \in Nat
  PROVE  /\ Strtoull(<<[number |-> size]>>) <= MaxUint <=> size <= MaxUint
         /\ size <= MaxUint => /\ Strtoull(<<[number |-> size]>>) = size
                               /\ size % (MaxUint + 1) = size
  <1> DEFINE S == {size, MaxUint64}
  <1>1. MaxUint \in Nat /\ MaxUint64 \in Nat /\ MaxUint < MaxUint64
    BY BtAssumption
  <1>2. Strtoull(<<[number |-> size]>>) = Min(S)
    BY DEF Strtoull
  <1>3. S \in SUBSET Nat /\ S # {}
    BY <1>1
  <1>4. Min(S) \in S /\ \A n \in S : Min(S) <= n
    <2> HIDE DEF S
    <2> QED  BY <1>3, Least
  <1> DEFINE min == Min(S)
  <1> HIDE DEF min
  <1>5. min \in {size, MaxUint64} /\ min <= size /\ min <= MaxUint64
    BY <1>4 DEF min
  <1>6. size <= MaxUint => size % (MaxUint + 1) = size
    <2>1. \A n, m \in Nat : n <= m => n % (m + 1) = n
      OBVIOUS
    <2> QED  BY <1>1, <2>1
  <1> QED  BY <1>1, <1>2, <1>5, <1>6 DEF min

LEMMA SectionIsLine ==
  ASSUME NEW S, NEW words \in Seq(S), Len(Split(words, 3)) = 3
  PROVE  Split(words, 3)[3] \in Seq(S)
  <1>1. Len(words) \in Nat
    OBVIOUS
  <1>2. CASE Len(words) = 3
    <2>1. words[3] \in S
      <3>1. 3 \in 1..Len(words)
        BY <1>2
      <3> QED  BY <3>1, Element
    <2>2. <<words[3]>> \in Seq(S)
      BY <2>1
    <2>3. Split(words, 3)[3] = <<words[3]>>
      BY <1>2, ThreeWords
    <2> QED  BY <2>2, <2>3
  <1>3. CASE Len(words) > 3
    <2>1. Split(words, 3)[3] = SubSeq(words, 3, Len(words))
      BY <1>1, <1>3 DEF Split
    <2>2. SubSeq(words, 3, Len(words)) \in Seq(S)
      BY <1>1, <1>3
    <2> QED  BY <2>1, <2>2
  <1>4. ~(Len(words) < 3)
    BY FewWords
  <1>5. \A n \in Nat : n < 3 \/ n = 3 \/ n > 3
    OBVIOUS
  <1> QED  BY <1>1, <1>2, <1>3, <1>4, <1>5, Zenon

\* A byte of a signature is one of a signature that was published.
LEMMA SignatureBytes ==
  ASSUME NEW notes, NEW b \in Decoded(notes), NEW log, NEW payload,
         b = [sig |-> <<log, payload, 1>>]
  PROVE  \E note \in notes : log = note.log /\ payload = Head3(note)
  <1>1. "sig" \in DOMAIN b /\ \A field \in DOMAIN b : field = "sig"
    OBVIOUS
  <1>2. PICK note \in notes, i \in 1..SignatureSize : b = [sig |-> <<note.log, Head3(note), i>>]
    <2>1. b \notin [key : Logs \X (1..KeySize)] /\ b \notin [hash : Logs \X (1..HashSize)]
      BY <1>1
    <2>2. b \notin [root : notes \X (1..KeySize)] /\ b \notin [misread : Word(notes)]
      BY <1>1
    <2>3. b # Algorithm
      BY <1>1 DEF Algorithm
    <2> QED  BY <2>1, <2>2, <2>3 DEF Decoded, Byte
  <1>3. <<log, payload, 1>> = <<note.log, Head3(note), i>>
    BY <1>2
  <1> QED  BY <1>3

LEMMA VerifiedIsSigned ==
  ASSUME KeyInv, TextInv, NEW c \in checkpoint, PubkeyVerify(pubkeys, c.payload, c.signature)
  PROVE  \E note \in published :
           /\ KeyOf(note.log) \in pubkeys
           /\ c.origin = <<[name |-> note.log]>>
           /\ c.log_size = note.size
           /\ c.pubkey = RootOf(note)
  <1> DEFINE sections == Split(text[5], 3)
             sig == Decode(sections[3])
             payload == SubSeq(text, 1, 3)
  <1>1. CheckpointIsValid(text) /\ c = Checkpoint(text)
    BY DEF TextInv
  <1>2. text \in Seq(Line(published)) /\ Len(text) = 6
    BY <1>1 DEF TextInv, CheckpointIsValid
  <1>3. /\ Len(sections) = 3 /\ Len(sig) = HashSize + SignatureSize
        /\ Strtoull(text[2]) <= MaxUint
    BY <1>1 DEF CheckpointIsValid
  <1>4. /\ c.origin = text[1] /\ c.log_size = Strtoull(text[2]) % (MaxUint + 1)
        /\ c.pubkey = Decode(text[3]) /\ c.payload = payload
        /\ c.signature = SubSeq(sig, HashSize + 1, Len(sig))
    BY <1>1 DEF Checkpoint
  <1>5. sig \in Seq(Decoded(published))
    <2>1. text[5] \in Line(published)
      <3>1. 5 \in 1..Len(text)
        BY <1>2
      <3> QED  BY <1>2, <3>1, Element
    <2>2. sections[3] \in Line(published)
      BY <1>3, <2>1, SectionIsLine DEF Line
    <2> HIDE DEF sections
    <2> QED  BY <2>2, DecodeType
  <1>6. PICK log \in Logs : KeyOf(log) \in pubkeys /\ c.signature = SignatureOf(log, payload)
    BY <1>4 DEF PubkeyVerify
  <1> HIDE DEF sections, sig, payload
  <1>7. sig[HashSize + 1] = [sig |-> <<log, payload, 1>>]
    <2>1. SubSeq(sig, HashSize + 1, Len(sig))[1] = sig[HashSize + 1]
      BY <1>3, <1>5, Sizes
    <2>2. SignatureOf(log, payload)[1] = [sig |-> <<log, payload, 1>>]
      BY Sizes DEF SignatureOf
    <2> QED  BY <1>4, <1>6, <2>1, <2>2
  <1>8. sig[HashSize + 1] \in Decoded(published)
    BY <1>3, <1>5, Sizes
  <1>9. PICK note \in published : log = note.log /\ payload = Head3(note)
    BY <1>7, <1>8, SignatureBytes
  <1>10. /\ text[1] = <<[name |-> note.log]>> /\ text[2] = <<[number |-> note.size]>>
         /\ text[3] = <<[base64 |-> RootOf(note)]>>
    <2>1. payload[1] = text[1] /\ payload[2] = text[2] /\ payload[3] = text[3]
      BY <1>2 DEF payload
    <2> QED  BY <1>9, <2>1 DEF Head3
  <1>11. note.log \in Logs /\ note.size \in Nat
    BY BtAssumption DEF KeyInv, Note
  <1>12. Decode(text[3]) = RootOf(note)
    <2>1. RootOf(note) \in Seq(Byte(published))
      BY <1>11, PublishedBytes
    <2> DEFINE word == [base64 |-> RootOf(note)]
    <2>2. word.base64 \in Seq(Byte(published)) /\ "base64" \in DOMAIN word
      BY <2>1
    <2> HIDE DEF word
    <2>3. Decode(<<word>>) = word.base64
      BY <2>2, DecodeOne
    <2> QED  BY <1>10, <2>3 DEF word
  <1>13. Strtoull(text[2]) % (MaxUint + 1) = note.size
    BY <1>3, <1>10, <1>11, SizeIsRead
  <1> QED  BY <1>4, <1>6, <1>9, <1>10, <1>12, <1>13

BtInv == KeyInv /\ TextInv /\ AcceptedIsSigned

LEMMA AcceptedNext == BtInv /\ [Next]_vars => AcceptedIsSigned'
  <1> SUFFICES ASSUME BtInv, [Next]_vars PROVE AcceptedIsSigned'
    OBVIOUS
  <1> USE DEF BtInv
  <1>1. CASE UNCHANGED accepted /\ published \subseteq published' /\ pubkeys \subseteq pubkeys'
    BY <1>1 DEF AcceptedIsSigned
  <1>2. ASSUME NEW c \in checkpoint, Verify(c) PROVE AcceptedIsSigned'
    <2>1. \E note \in published :
            /\ KeyOf(note.log) \in pubkeys
            /\ c.origin = <<[name |-> note.log]>>
            /\ c.log_size = note.size
            /\ c.pubkey = RootOf(note)
      BY <1>2, VerifiedIsSigned DEF Verify
    <2> QED  BY <1>2, <2>1 DEF Verify, AcceptedIsSigned
  <1>3. ASSUME NEW log \in Logs, NEW size \in 0..MaxSize, Publish(log, size)
        PROVE  AcceptedIsSigned'
    BY <1>1, <1>3 DEF Publish
  <1>4. ASSUME NEW copy, NewCheckpoint(copy) PROVE AcceptedIsSigned'
    BY <1>1, <1>4 DEF NewCheckpoint
  <1>5. ASSUME NEW log, NEW words, AddVerifier(log, words) PROVE AcceptedIsSigned'
    BY <1>1, <1>5 DEF AddVerifier
  <1>6. CASE UNCHANGED vars
    BY <1>1, <1>6 DEF vars
  <1> QED  BY <1>2, <1>3, <1>4, <1>5, <1>6 DEF Next

LEMMA BtInvariant == Spec => []BtInv
  <1>1. Init => BtInv
    BY KeyInit, TextInit DEF BtInv, AcceptedIsSigned, Init
  <1>2. BtInv /\ [Next]_vars => BtInv'
    BY KeyNext, TextNext, AcceptedNext DEF BtInv
  <1> QED  BY <1>1, <1>2, PTL DEF Spec

(* jcat_bt_checkpoint_new and the Ed25519 engine: for any number of logs and  *)
(* checkpoints, and whatever was lost, doubled, cut or mixed on the way,      *)
(* origin, size and root hash of a checkpoint that verified are those that a  *)
(* log has signed together.                                                   *)
THEOREM OnlySignedIsAccepted == Spec => []AcceptedIsSigned
  <1>1. BtInv => AcceptedIsSigned
    BY DEF BtInv
  <1> QED  BY <1>1, BtInvariant, PTL

-----------------------------------------------------------------------------
(* A checkpoint that arrives whole. *)

LEMMA WholeIsValid ==
  ASSUME NEW notes \in SUBSET Note, NEW note \in notes, note.size <= MaxUint
  PROVE  /\ CheckpointIsValid(NoteText(note))
         /\ Checkpoint(NoteText(note)).payload = Head3(note)
         /\ Checkpoint(NoteText(note)).signature = SignatureOf(note.log, Head3(note))
  <1> DEFINE lines == NoteText(note)
             hash == HashOf(note.log)
             signature == SignatureOf(note.log, Head3(note))
             word == [base64 |-> hash \o signature]
             name == [name |-> note.log]
  <1>1. note.log \in Logs /\ note.size \in Nat
    BY BtAssumption DEF Note
  <1>2. /\ Len(lines) = 6 /\ lines[2] = <<[number |-> note.size]>>
        /\ lines[3] = <<[base64 |-> RootOf(note)]>> /\ lines[5] = <<Dash, name, word>>
        /\ SubSeq(lines, 1, 3) = Head3(note)
    BY NotesHaveSixLines DEF SignatureLine
  <1>3. /\ hash \in Seq(Byte(notes)) /\ Len(hash) = HashSize
        /\ signature \in Seq(Byte(notes)) /\ Len(signature) = SignatureSize
        /\ RootOf(note) \in Seq(Byte(notes)) /\ Len(RootOf(note)) = KeySize
    BY <1>1, PublishedBytes
  <1> HIDE DEF lines, hash, signature
  <1>4. Strtoull(lines[2]) <= MaxUint
    BY <1>1, <1>2, SizeIsRead
  <1>5. Decode(lines[3]) = RootOf(note)
    <2> DEFINE root == [base64 |-> RootOf(note)]
    <2>1. root.base64 \in Seq(Byte(notes)) /\ "base64" \in DOMAIN root
      BY <1>3
    <2> HIDE DEF root
    <2>2. Decode(<<root>>) = root.base64
      BY <2>1, DecodeOne
    <2> QED  BY <1>2, <2>2 DEF root
  <1>6. /\ word.base64 = hash \o signature /\ "base64" \in DOMAIN word
        /\ hash \o signature \in Seq(Byte(notes))
        /\ Len(hash \o signature) = HashSize + SignatureSize
    BY <1>3, Concat
  <1> HIDE DEF word, name
  <1>7. /\ Len(Split(lines[5], 3)) = 3 /\ Split(lines[5], 3)[1] = <<Dash>>
        /\ Split(lines[5], 3)[3] = <<word>>
    <2> DEFINE words == <<Dash, name, word>>
    <2>1. Len(words) = 3 /\ DOMAIN words = 1..3 /\ words[1] = Dash /\ words[3] = word
      OBVIOUS
    <2> HIDE DEF words
    <2>2. Split(words, 3) = [n \in 1..3 |-> <<words[n]>>]
      BY <2>1 DEF Split
    <2>3. /\ Len(Split(words, 3)) = 3 /\ Split(words, 3)[1] = <<Dash>>
          /\ Split(words, 3)[3] = <<word>>
      BY <2>1, <2>2
    <2> QED  BY <1>2, <2>3 DEF words
  <1>8. Decode(Split(lines[5], 3)[3]) = hash \o signature
    <2>1. Decode(<<word>>) = word.base64
      BY <1>6, DecodeOne
    <2> QED  BY <1>6, <1>7, <2>1
  <1>9. CheckpointIsValid(lines)
    BY <1>2, <1>3, <1>4, <1>5, <1>6, <1>7, <1>8 DEF CheckpointIsValid
  <1>10. SubSeq(hash \o signature, HashSize + 1, Len(hash \o signature)) = signature
    <2> DEFINE all == hash \o signature
               s == SubSeq(all, HashSize + 1, Len(all))
    <2>1. \A i \in 1..SignatureSize : all[HashSize + i] = signature[i]
      BY <1>3, Sizes
    <2>2. all \in Seq(Byte(notes)) /\ Len(all) = HashSize + SignatureSize
      BY <1>6
    <2> HIDE DEF all
    <2>3. /\ s \in Seq(Byte(notes)) /\ Len(s) = SignatureSize
          /\ \A i \in 1..SignatureSize : s[i] = all[HashSize + i]
      BY <2>2, Sizes
    <2> HIDE DEF s
    <2>4. s = signature
      BY <1>3, <2>1, <2>3
    <2> QED  BY <2>4 DEF s, all
  <1>11. /\ Checkpoint(lines).payload = Head3(note)
         /\ Checkpoint(lines).signature = signature
    BY <1>2, <1>8, <1>10 DEF Checkpoint
  <1> QED  BY <1>9, <1>11 DEF lines, signature

(* A checkpoint that arrives as it was published, and whose size fits, is never *)
(* refused once the verifier file of its log was given.                         *)
THEOREM WholeVerifies == Spec => []WholeIsVerified
  <1>1. BtInv => WholeIsVerified
    <2> SUFFICES ASSUME BtInv, NEW note \in published, text = NoteText(note),
                        note.size <= MaxUint, note.log \in given
                 PROVE  \E c \in checkpoint : PubkeyVerify(pubkeys, c.payload, c.signature)
      BY DEF WholeIsVerified
    <2> DEFINE c == Checkpoint(text)
    <2>1. /\ CheckpointIsValid(text) /\ c.payload = Head3(note)
          /\ c.signature = SignatureOf(note.log, Head3(note))
      BY WholeIsValid DEF BtInv, KeyInv
    <2>2. checkpoint = {c}
      BY <2>1 DEF BtInv, TextInv
    <2>3. note.log \in Logs /\ KeyOf(note.log) \in pubkeys
      BY DEF BtInv, KeyInv, KeysAreWhole
    <2> HIDE DEF c
    <2>4. PubkeyVerify(pubkeys, c.payload, c.signature)
      BY <2>1, <2>3 DEF PubkeyVerify
    <2> QED  BY <2>2, <2>4
  <1> QED  BY <1>1, BtInvariant, PTL

-----------------------------------------------------------------------------
(* Powers of two. *)

Doubling(k, p) == p = [i \in 0..k |-> IF i = 0 THEN 1 ELSE 2 * p[i - 1]]

LEMMA DoublingExists == \A k \in Nat : \E p : Doubling(k, p)
  <1> DEFINE S == {k \in Nat : \E p : Doubling(k, p)}
  <1>1. 0 \in S
    <2> DEFINE a == [i \in 0..0 |-> 1]
    <2>1. Doubling(0, a)
      BY DEF Doubling
    <2> QED  BY <2>1
  <1>2. ASSUME NEW k \in Nat, k \in S PROVE k + 1 \in S
    <2>1. PICK a : Doubling(k, a)
      BY <1>2
    <2> DEFINE b == [i \in 0..k + 1 |-> IF i <= k THEN a[i] ELSE 2 * a[k]]
    <2>2. \A i \in 0..k : b[i] = a[i]
      OBVIOUS
    <2>3. b[k + 1] = 2 * a[k]
      <3>1. k + 1 \in 0..k + 1 /\ ~(k + 1 <= k)
        OBVIOUS
      <3> QED  BY <3>1, Zenon
    <2>4. \A i \in 0..k : a[i] = IF i = 0 THEN 1 ELSE 2 * a[i - 1]
      BY <2>1 DEF Doubling
    <2>5. b = [i \in 0..k + 1 |-> b[i]]
      OBVIOUS
    <2> HIDE DEF b
    <2>6. \A i \in 0..k + 1 : b[i] = IF i = 0 THEN 1 ELSE 2 * b[i - 1]
      <3> SUFFICES ASSUME NEW i \in 0..k + 1
                   PROVE  b[i] = IF i = 0 THEN 1 ELSE 2 * b[i - 1]
        OBVIOUS
      <3>1. CASE i = 0
        BY <2>2, <2>4, <3>1
      <3>2. CASE i \in 1..k
        <4>1. i - 1 \in 0..k /\ i \in 0..k /\ i # 0
          BY <3>2
        <4> QED  BY <2>2, <2>4, <4>1
      <3>3. CASE i = k + 1
        <4>1. k \in 0..k /\ i - 1 = k /\ i # 0
          BY <3>3
        <4> QED  BY <2>2, <2>3, <3>3, <4>1
      <3> QED  BY <3>1, <3>2, <3>3
    <2>7. Doubling(k + 1, b)
      BY <2>5, <2>6 DEF Doubling
    <2>8. k + 1 \in Nat
      OBVIOUS
    <2> QED  BY <2>7, <2>8
  <1>3. Nat \subseteq S
    <2> HIDE DEF S
    <2> QED  BY <1>1, <1>2, Induction
  <1> QED  BY <1>3

LEMMA PowerDoubles == Power[0] = 1 /\ \A i \in 1..Width : Power[i] = 2 * Power[i - 1]
  <1> DEFINE p == CHOOSE a : Doubling(Width, a)
  <1>1. Power = p
    BY DEF Power, Doubling
  <1>2. Doubling(Width, p)
    BY DoublingExists, WidthAssumption
  <1> HIDE DEF p
  <1>3. \A i \in 0..Width : p[i] = IF i = 0 THEN 1 ELSE 2 * p[i - 1]
    BY <1>2 DEF Doubling
  <1>4. p[0] = 1
    BY <1>3, WidthAssumption
  <1>5. \A i \in 1..Width : p[i] = 2 * p[i - 1]
    <2>1. \A i \in 1..Width : i \in 0..Width /\ i # 0
      OBVIOUS
    <2> QED  BY <1>3, <2>1, Zenon
  <1> QED  BY <1>1, <1>4, <1>5

LEMMA PowerIsPositive == \A i \in 0..Width : Power[i] \in Nat /\ Power[i] > 0
  <1> DEFINE S == {i \in Nat : i <= Width => Power[i] \in Nat /\ Power[i] > 0}
  <1>1. 0 \in S
    BY PowerDoubles
  <1>2. ASSUME NEW i \in Nat, i \in S PROVE i + 1 \in S
    <2>1. CASE i + 1 <= Width
      <3>1. i <= Width /\ i + 1 \in 1..Width /\ (i + 1) - 1 = i
        BY <2>1, WidthAssumption
      <3>2. Power[i] \in Nat /\ Power[i] > 0 /\ Power[i + 1] = 2 * Power[i]
        BY <1>2, <3>1, PowerDoubles
      <3> QED  BY <3>2
    <2> QED  BY <2>1
  <1>3. Nat \subseteq S
    <2> HIDE DEF S
    <2> QED  BY <1>1, <1>2, Induction
  <1> QED  BY <1>3, WidthAssumption

LEMMA PowerGrows == \A i, j \in 0..Width : i < j => 2 * Power[i] <= Power[j]
  <1> DEFINE S == {j \in Nat : j <= Width => \A i \in 0..Width : i < j => 2 * Power[i] <= Power[j]}
  <1>1. 0 \in S
    BY WidthAssumption
  <1>2. ASSUME NEW j \in Nat, j \in S PROVE j + 1 \in S
    <2>1. CASE j + 1 <= Width
      <3>1. j <= Width /\ j \in 0..Width /\ j + 1 \in 1..Width /\ (j + 1) - 1 = j
        BY <2>1, WidthAssumption
      <3>2. Power[j] \in Nat /\ Power[j + 1] = 2 * Power[j]
        BY <3>1, PowerDoubles, PowerIsPositive
      <3>3. ASSUME NEW i \in 0..Width, i < j + 1 PROVE 2 * Power[i] <= Power[j + 1]
        <4>1. CASE i = j
          BY <3>2, <4>1
        <4>2. CASE i < j
          <5>1. Power[i] \in Nat /\ 2 * Power[i] <= Power[j]
            BY <1>2, <3>1, <4>2, PowerIsPositive
          <5> QED  BY <3>2, <5>1
        <4>3. i = j \/ i < j
          BY <3>3, WidthAssumption
        <4> QED  BY <4>1, <4>2, <4>3
      <3> QED  BY <3>3
    <2> QED  BY <2>1
  <1>3. Nat \subseteq S
    <2> HIDE DEF S
    <2> QED  BY <1>1, <1>2, Induction
  <1> QED  BY <1>3, WidthAssumption

-----------------------------------------------------------------------------
(* Loops. *)

Looking(from, returns) ==
  from = [i \in 0..Width |-> IF i = Width \/ i \in returns THEN i ELSE from[i + 1]]

\* The loop returns the first i there is.
IsFirst(i, k, returns) ==
  i \in k..Width /\ (i = Width \/ i \in returns) /\ \A j \in k..Width : j < i => j \notin returns

LEMMA LookingExists == \A returns : \E from : Looking(from, returns)
  <1> SUFFICES ASSUME NEW returns PROVE \E from : Looking(from, returns)
    OBVIOUS
  <1> DEFINE stops(i) == {j \in i..Width : j = Width \/ j \in returns}
             from     == [i \in 0..Width |-> Min(stops(i))]
  <1>1. ASSUME NEW i \in 0..Width
        PROVE  Min(stops(i)) \in stops(i) /\ \A j \in stops(i) : Min(stops(i)) <= j
    <2>1. Width \in stops(i) /\ stops(i) \in SUBSET Nat
      BY WidthAssumption
    <2> HIDE DEF stops
    <2> QED  BY <2>1, Least
  <1>2. ASSUME NEW i \in 0..Width, i = Width \/ i \in returns PROVE from[i] = i
    <2>1. i \in stops(i) /\ i \in Nat
      BY <1>2, WidthAssumption
    <2>2. Min(stops(i)) <= i /\ Min(stops(i)) \in i..Width
      BY <1>1, <2>1
    <2>3. Min(stops(i)) = i
      <3> HIDE DEF stops
      <3> QED  BY <2>1, <2>2, WidthAssumption
    <2> QED  BY <2>3
  <1>3. ASSUME NEW i \in 0..Width, ~(i = Width \/ i \in returns) PROVE from[i] = from[i + 1]
    <2>1. i + 1 \in 0..Width
      BY <1>3, WidthAssumption
    <2>2. stops(i) = stops(i + 1)
      <3>1. \A j \in i..Width : j = i \/ j \in i + 1..Width
        BY WidthAssumption
      <3>2. \A j \in i + 1..Width : j \in i..Width
        BY WidthAssumption
      <3> QED  BY <1>3, <3>1, <3>2
    <2> HIDE DEF stops
    <2> QED  BY <2>1, <2>2
  <1>4. from = [i \in 0..Width |-> from[i]]
    OBVIOUS
  <1> HIDE DEF from
  <1>5. \A i \in 0..Width : from[i] = IF i = Width \/ i \in returns THEN i ELSE from[i + 1]
    BY <1>2, <1>3
  <1>6. Looking(from, returns)
    BY <1>4, <1>5 DEF Looking
  <1> QED  BY <1>6

LEMMA FirstIsFirst == \A returns : IsFirst(FirstOf(returns), 0, returns)
  <1> SUFFICES ASSUME NEW returns PROVE IsFirst(FirstOf(returns), 0, returns)
    OBVIOUS
  <1> DEFINE from == CHOOSE a : Looking(a, returns)
             S    == {k \in Nat : k <= Width => IsFirst(from[Width - k], Width - k, returns)}
  <1>1. FirstOf(returns) = from[0]
    BY DEF FirstOf, Looking
  <1>2. Looking(from, returns)
    BY LookingExists
  <1> HIDE DEF from
  <1>3. \A i \in 0..Width : from[i] = IF i = Width \/ i \in returns THEN i ELSE from[i + 1]
    BY <1>2 DEF Looking
  <1>4. 0 \in S
    <2>1. from[Width] = Width /\ Width - 0 = Width
      BY <1>3, WidthAssumption
    <2>2. IsFirst(Width, Width, returns)
      BY WidthAssumption DEF IsFirst
    <2> QED  BY <2>1, <2>2
  <1>5. ASSUME NEW k \in Nat, k \in S PROVE k + 1 \in S
    <2> DEFINE i == Width - (k + 1)
    <2>1. CASE k + 1 <= Width
      <3>1. i \in 0..Width /\ i # Width /\ i + 1 = Width - k /\ k <= Width
        BY <2>1, WidthAssumption
      <3>2. IsFirst(from[i + 1], i + 1, returns)
        BY <1>5, <3>1
      <3> HIDE DEF i
      <3>3. CASE i \in returns
        <4>1. from[i] = i
          BY <1>3, <3>1, <3>3
        <4>2. IsFirst(i, i, returns)
          BY <3>1, <3>3, WidthAssumption DEF IsFirst
        <4> QED  BY <4>1, <4>2 DEF i
      <3>4. CASE i \notin returns
        <4>1. from[i] = from[i + 1]
          BY <1>3, <3>1, <3>4
        <4>2. IsFirst(from[i + 1], i, returns)
          <5> DEFINE f == from[i + 1]
          <5>1. IsFirst(f, i + 1, returns)
            BY <3>2
          <5> HIDE DEF f
          <5>2. f \in i..Width /\ (f = Width \/ f \in returns)
            BY <3>1, <5>1, WidthAssumption DEF IsFirst
          <5>3. ASSUME NEW j \in i..Width, j < f PROVE j \notin returns
            <6>1. j = i \/ j \in i + 1..Width
              BY <3>1, WidthAssumption
            <6> QED  BY <3>4, <5>1, <5>3, <6>1 DEF IsFirst
          <5>4. IsFirst(f, i, returns)
            BY <5>2, <5>3 DEF IsFirst
          <5> QED  BY <5>4 DEF f
        <4> QED  BY <4>1, <4>2 DEF i
      <3> QED  BY <3>3, <3>4
    <2> QED  BY <2>1
  <1>6. Nat \subseteq S
    <2> HIDE DEF S
    <2> QED  BY <1>4, <1>5, Induction
  <1>7. IsFirst(from[Width - Width], Width - Width, returns)
    BY <1>6, WidthAssumption
  <1>8. Width - Width = 0
    BY WidthAssumption
  <1> QED  BY <1>1, <1>7, <1>8

Counting(k, c, val) ==
  c = [i \in 0..k |-> IF i = 0 THEN 0 ELSE c[i - 1] + (IF IsSet(val, i - 1) THEN 1 ELSE 0)]

LEMMA CountingExists == \A val : \A k \in Nat : \E c : Counting(k, c, val)
  <1> SUFFICES ASSUME NEW val PROVE \A k \in Nat : \E c : Counting(k, c, val)
    OBVIOUS
  <1> DEFINE bit(i) == IF IsSet(val, i) THEN 1 ELSE 0
             S == {k \in Nat : \E c : Counting(k, c, val)}
  <1>1. 0 \in S
    <2> DEFINE a == [i \in 0..0 |-> 0]
    <2>1. Counting(0, a, val)
      BY DEF Counting
    <2> QED  BY <2>1
  <1>2. ASSUME NEW k \in Nat, k \in S PROVE k + 1 \in S
    <2>1. PICK a : Counting(k, a, val)
      BY <1>2
    <2> DEFINE b == [i \in 0..k + 1 |-> IF i <= k THEN a[i] ELSE a[k] + bit(k)]
    <2> HIDE DEF bit
    <2>2. \A i \in 0..k : b[i] = a[i]
      OBVIOUS
    <2>3. b[k + 1] = a[k] + bit(k)
      <3>1. k + 1 \in 0..k + 1 /\ ~(k + 1 <= k)
        OBVIOUS
      <3> QED  BY <3>1, Zenon
    <2>4. \A i \in 0..k : a[i] = IF i = 0 THEN 0 ELSE a[i - 1] + bit(i - 1)
      BY <2>1 DEF Counting, bit
    <2>5. b = [i \in 0..k + 1 |-> b[i]]
      OBVIOUS
    <2> HIDE DEF b
    <2>6. \A i \in 0..k + 1 : b[i] = IF i = 0 THEN 0 ELSE b[i - 1] + bit(i - 1)
      <3> SUFFICES ASSUME NEW i \in 0..k + 1
                   PROVE  b[i] = IF i = 0 THEN 0 ELSE b[i - 1] + bit(i - 1)
        OBVIOUS
      <3>1. CASE i = 0
        BY <2>2, <2>4, <3>1
      <3>2. CASE i \in 1..k
        <4>1. i - 1 \in 0..k /\ i \in 0..k /\ i # 0
          BY <3>2
        <4> QED  BY <2>2, <2>4, <4>1
      <3>3. CASE i = k + 1
        <4>1. k \in 0..k /\ i - 1 = k /\ i # 0
          BY <3>3
        <4> QED  BY <2>2, <2>3, <3>3, <4>1
      <3> QED  BY <3>1, <3>2, <3>3
    <2>7. Counting(k + 1, b, val)
      BY <2>5, <2>6 DEF Counting, bit
    <2>8. k + 1 \in Nat
      OBVIOUS
    <2> QED  BY <2>7, <2>8
  <1>3. Nat \subseteq S
    <2> HIDE DEF S
    <2> QED  BY <1>1, <1>2, Induction
  <1> QED  BY <1>3

LEMMA LoopCountsBits == \A val : OnesCountLoop(val) = Cardinality(Bits(val))
  <1> SUFFICES ASSUME NEW val PROVE OnesCountLoop(val) = Cardinality(Bits(val))
    OBVIOUS
  <1> DEFINE c        == CHOOSE a : Counting(Width, a, val)
             below(k) == {i \in 0..k - 1 : IsSet(val, i)}
             S        == {k \in Nat : k <= Width => /\ IsFiniteSet(below(k))
                                                    /\ c[k] = Cardinality(below(k))}
  <1>1. OnesCountLoop(val) = c[Width]
    BY DEF OnesCountLoop, Counting
  <1>2. Counting(Width, c, val)
    BY CountingExists, WidthAssumption
  <1> HIDE DEF c
  <1>3. \A i \in 0..Width :
          c[i] = IF i = 0 THEN 0 ELSE c[i - 1] + (IF IsSet(val, i - 1) THEN 1 ELSE 0)
    BY <1>2 DEF Counting
  <1>4. 0 \in S
    <2>1. below(0) = {} /\ c[0] = 0
      BY <1>3, WidthAssumption
    <2> HIDE DEF below
    <2> QED  BY <2>1, FS_EmptySet
  <1>5. ASSUME NEW k \in Nat, k \in S PROVE k + 1 \in S
    <2>1. CASE k + 1 <= Width
      <3>1. k <= Width /\ k + 1 \in 0..Width /\ k + 1 # 0 /\ (k + 1) - 1 = k
        BY <2>1, WidthAssumption
      <3>2. c[k + 1] = c[k] + (IF IsSet(val, k) THEN 1 ELSE 0)
        BY <1>3, <3>1
      <3>3. IsFiniteSet(below(k)) /\ c[k] = Cardinality(below(k))
        BY <1>5, <3>1
      <3>4. k \notin below(k)
        OBVIOUS
      <3>5. below(k + 1) = IF IsSet(val, k) THEN below(k) \cup {k} ELSE below(k)
        <4>1. \A i \in 0..(k + 1) - 1 : i = k \/ i \in 0..k - 1
          OBVIOUS
        <4>2. \A i \in 0..k - 1 : i \in 0..(k + 1) - 1
          OBVIOUS
        <4>3. k \in 0..(k + 1) - 1
          OBVIOUS
        <4> QED  BY <4>1, <4>2, <4>3
      <3> HIDE DEF below
      <3>6. Cardinality(below(k)) \in Nat
        BY <3>3, FS_CardinalityType
      <3>7. /\ IsFiniteSet(below(k) \cup {k})
            /\ Cardinality(below(k) \cup {k}) = Cardinality(below(k)) + 1
        BY <3>3, <3>4, FS_AddElement
      <3> QED  BY <3>2, <3>3, <3>5, <3>6, <3>7
    <2> QED  BY <2>1
  <1>6. Nat \subseteq S
    <2> HIDE DEF S
    <2> QED  BY <1>4, <1>5, Induction
  <1>7. c[Width] = Cardinality(below(Width))
    BY <1>6, WidthAssumption
  <1> QED  BY <1>1, <1>7 DEF Bits

-----------------------------------------------------------------------------
(* The bits of a number. *)

\* The numbers that have room in Width bits.
Numbers == 0..Power[Width] - 1

LEMMA Quotients ==
  ASSUME NEW val \in Nat, NEW p \in Nat, p > 0
  PROVE  /\ val < p => val \div p = 0
         /\ p <= val /\ val < 2 * p => val \div p = 1
  OBVIOUS

LEMMA HighBits ==
  ASSUME NEW val \in Nat, NEW l \in 0..Width, val < Power[l]
  PROVE  \A i \in l..Width - 1 : ~IsSet(val, i)
  <1> SUFFICES ASSUME NEW i \in l..Width - 1 PROVE ~IsSet(val, i)
    OBVIOUS
  <1>1. i \in 0..Width /\ (i = l \/ l < i)
    BY WidthAssumption
  <1>2. Power[l] \in Nat /\ Power[i] \in Nat /\ Power[i] > 0
    BY <1>1, PowerIsPositive
  <1>3. Power[l] <= Power[i]
    BY <1>1, <1>2, PowerGrows
  <1>4. val < Power[i]
    BY <1>2, <1>3
  <1>5. val \div Power[i] = 0
    BY <1>2, <1>4, Quotients
  <1> QED  BY <1>5 DEF IsSet

LEMMA LoopFindsLength ==
  ASSUME NEW val \in Numbers
  PROVE  LET l == LengthLoop(val)
         IN  /\ l \in 0..Width /\ val < Power[l]
             /\ val = 0 => l = 0
             /\ val > 0 => /\ l - 1 \in Bits(val) /\ Power[l - 1] <= val
                           /\ \A i \in Bits(val) : i <= l - 1
  <1> DEFINE l       == LengthLoop(val)
             returns == {i \in 0..Width - 1 : Power[i] > val}
  <1>1. IsFirst(l, 0, returns)
    BY FirstIsFirst DEF LengthLoop
  <1> HIDE DEF l
  <1>2. Width \in Nat /\ Power[Width] \in Nat /\ val \in Nat /\ val < Power[Width]
    BY WidthAssumption, PowerIsPositive DEF Numbers
  <1>3. l \in 0..Width /\ val < Power[l]
    BY <1>1, <1>2 DEF IsFirst
  <1>4. \A i \in 0..Width : i < l => Power[i] <= val
    <2> SUFFICES ASSUME NEW i \in 0..Width, i < l PROVE Power[i] <= val
      OBVIOUS
    <2>1. i \notin returns
      BY <1>1 DEF IsFirst
    <2>2. i \in 0..Width - 1 /\ Power[i] \in Nat
      BY <1>2, <1>3, PowerIsPositive
    <2> QED  BY <1>2, <2>1, <2>2
  <1>5. ASSUME val = 0 PROVE l = 0
    <2>1. ~(0 < l)
      BY <1>2, <1>4, <1>5, PowerDoubles
    <2> QED  BY <1>3, <2>1
  <1>6. ASSUME val > 0
        PROVE  /\ l - 1 \in Bits(val) /\ Power[l - 1] <= val
               /\ \A i \in Bits(val) : i <= l - 1
    <2>1. l # 0
      BY <1>2, <1>3, <1>6, PowerDoubles
    <2>2. l - 1 \in 0..Width - 1 /\ l - 1 \in 0..Width /\ l \in 1..Width /\ l - 1 < l
      BY <1>2, <1>3, <2>1
    <2>3. Power[l] = 2 * Power[l - 1] /\ Power[l - 1] \in Nat /\ Power[l - 1] > 0
      BY <2>2, PowerDoubles, PowerIsPositive
    <2>4. Power[l - 1] <= val
      BY <1>4, <2>2
    <2>5. val \div Power[l - 1] = 1
      <3>1. val < 2 * Power[l - 1]
        BY <1>3, <2>3
      <3> QED  BY <1>2, <2>3, <2>4, <3>1, Quotients
    <2>6. l - 1 \in Bits(val)
      BY <2>2, <2>5 DEF Bits, IsSet
    <2>7. ASSUME NEW i \in Bits(val) PROVE i <= l - 1
      <3>1. i \in 0..Width - 1 /\ IsSet(val, i)
        BY DEF Bits
      <3>2. i \notin l..Width - 1
        BY <1>2, <1>3, <3>1, HighBits
      <3> QED  BY <1>2, <1>3, <3>1, <3>2
    <2> QED  BY <2>4, <2>6, <2>7
  <1> QED  BY <1>3, <1>5, <1>6 DEF l

LEMMA LoopFindsTrailingZeros ==
  ASSUME NEW val \in Numbers
  PROVE  LET t == TrailingZerosLoop(val)
         IN  /\ t \in 0..Width
             /\ val = 0 => t = Width
             /\ val > 0 => t \in Bits(val)
             /\ \A i \in Bits(val) : t <= i
  <1> DEFINE t       == TrailingZerosLoop(val)
             returns == {i \in 0..Width - 1 : IsSet(val, i)}
  <1>1. IsFirst(t, 0, returns)
    BY FirstIsFirst DEF TrailingZerosLoop
  <1> HIDE DEF t
  <1>2. returns = Bits(val) /\ Bits(val) \subseteq 0..Width - 1
    BY DEF Bits
  <1> HIDE DEF returns
  <1>3. Width \in Nat /\ Power[Width] \in Nat /\ val \in Nat /\ val < Power[Width]
    BY WidthAssumption, PowerIsPositive DEF Numbers
  <1>4. t \in 0..Width /\ (t = Width \/ t \in Bits(val))
    BY <1>1, <1>2 DEF IsFirst
  <1>5. \A i \in Bits(val) : t <= i
    <2> SUFFICES ASSUME NEW i \in Bits(val) PROVE t <= i
      OBVIOUS
    <2>1. i \in 0..Width
      BY <1>2, <1>3
    <2>2. ~(i < t)
      BY <1>1, <1>2, <2>1 DEF IsFirst
    <2> QED  BY <1>4, <2>1, <2>2
  <1>6. ASSUME val = 0 PROVE t = Width
    <2>1. \A i \in 0..Width - 1 : ~IsSet(val, i)
      BY <1>3, <1>6, HighBits, PowerDoubles
    <2> QED  BY <1>4, <2>1 DEF Bits
  <1>7. ASSUME val > 0 PROVE t \in Bits(val)
    <2>1. PICK i \in Bits(val) : TRUE
      BY <1>7, LoopFindsLength
    <2>2. t <= i /\ i \in 0..Width - 1
      BY <1>2, <1>5
    <2>3. t # Width
      BY <1>3, <2>2
    <2> QED  BY <1>4, <2>3
  <1> QED  BY <1>4, <1>5, <1>6, <1>7 DEF t

LEMMA Halves ==
  ASSUME NEW val \in Nat, NEW p \in Nat, p > 0, val % p = 0, (val \div p) % 2 # 1
  PROVE  val % (2 * p) = 0
  <1> DEFINE q == val \div p
             r == q \div 2
  <1>1. q \in Nat /\ val = p * q
    OBVIOUS
  <1>2. r \in Nat /\ q = 2 * r
    <2>1. q \in Nat /\ q % 2 # 1
      BY <1>1
    <2> HIDE DEF q
    <2> QED  BY <2>1
  <1> HIDE DEF q, r
  <1>3. val = (2 * p) * r
    BY <1>1, <1>2
  <1>4. \A a, b \in Nat : a > 0 => (a * b) % a = 0
    OBVIOUS
  <1>5. 2 * p \in Nat /\ 2 * p > 0
    OBVIOUS
  <1>6. ((2 * p) * r) % (2 * p) = 0
    BY <1>2, <1>4, <1>5, Zenon
  <1> QED  BY <1>3, <1>6, Zenon

LEMMA TrailingZerosDivide ==
  ASSUME NEW val \in Nat, NEW t \in 0..Width, \A i \in Bits(val) : t <= i
  PROVE  val % Power[t] = 0
  <1> DEFINE S == {k \in Nat : k <= t => val % Power[k] = 0}
  <1>1. 0 \in S
    BY PowerDoubles
  <1>2. ASSUME NEW k \in Nat, k \in S PROVE k + 1 \in S
    <2>1. CASE k + 1 <= t
      <3>1. /\ k <= t /\ k \in 0..Width - 1 /\ k \in 0..Width /\ ~(t <= k)
            /\ k + 1 \in 1..Width /\ (k + 1) - 1 = k
        BY <2>1, WidthAssumption
      <3>2. val % Power[k] = 0 /\ Power[k] \in Nat /\ Power[k] > 0
        BY <1>2, <3>1, PowerIsPositive
      <3>3. (val \div Power[k]) % 2 # 1
        <4>1. k \notin Bits(val)
          BY <3>1
        <4> QED  BY <3>1, <4>1 DEF Bits, IsSet
      <3>4. val % (2 * Power[k]) = 0
        BY <3>2, <3>3, Halves
      <3>5. Power[k + 1] = 2 * Power[k]
        BY <3>1, PowerDoubles
      <3> QED  BY <3>4, <3>5
    <2> QED  BY <2>1
  <1>3. Nat \subseteq S
    <2> HIDE DEF S
    <2> QED  BY <1>1, <1>2, Induction
  <1> QED  BY <1>3, WidthAssumption

-----------------------------------------------------------------------------
(* The built-ins. *)

LEMMA LeastBit ==
  ASSUME NEW S \in SUBSET Nat, NEW m \in S, \A i \in S : m <= i
  PROVE  Min(S) = m
  <1> DEFINE n == Min(S)
  <1>1. n \in S /\ \A i \in S : n <= i
    BY Least
  <1> HIDE DEF n
  <1>2. n = m
    BY <1>1
  <1> QED  BY <1>2 DEF n

LEMMA GreatestBit ==
  ASSUME NEW S \in SUBSET Nat, NEW m \in S, \A i \in S : i <= m
  PROVE  Max(S) = m
  <1>1. \A n \in S : (\A i \in S : i <= n) => n = m
    OBVIOUS
  <1> QED  BY <1>1 DEF Max

LEMMA BuiltinsAgree ==
  ASSUME NEW val \in Numbers
  PROVE  /\ OnesCount(val) = {OnesCountLoop(val)}
         /\ TrailingZeros(val) = {TrailingZerosLoop(val)}
         /\ Length(val) = {LengthLoop(val)}
  <1> DEFINE l == LengthLoop(val)
             t == TrailingZerosLoop(val)
  <1>1. val \in Nat /\ Bits(val) \in SUBSET Nat
    BY PowerIsPositive, WidthAssumption DEF Bits, Numbers
  <1>2. OnesCount(val) = {OnesCountLoop(val)}
    BY LoopCountsBits DEF OnesCount, Popcount
  <1>3. TrailingZeros(val) = {t}
    <2>1. /\ val = 0 => t = Width
          /\ val > 0 => t \in Bits(val)
          /\ \A i \in Bits(val) : t <= i
      BY LoopFindsTrailingZeros
    <2> HIDE DEF t
    <2>2. CASE val = 0
      BY <2>1, <2>2 DEF TrailingZeros
    <2>3. CASE val > 0
      <3>1. Min(Bits(val)) = t
        BY <1>1, <2>1, <2>3, LeastBit
      <3> QED  BY <2>3, <3>1 DEF TrailingZeros, Ctz
    <2> QED  BY <1>1, <2>2, <2>3
  <1>4. Length(val) = {l}
    <2>1. /\ l \in 0..Width
          /\ val = 0 => l = 0
          /\ val > 0 => l - 1 \in Bits(val) /\ \A i \in Bits(val) : i <= l - 1
      BY LoopFindsLength
    <2> HIDE DEF l
    <2>2. CASE val = 0
      BY <2>1, <2>2 DEF Length
    <2>3. CASE val > 0
      <3>1. Max(Bits(val)) = l - 1
        BY <1>1, <2>1, <2>3, GreatestBit
      <3>2. Clz(val) = {Width - 1 - (l - 1)}
        BY <2>3, <3>1 DEF Clz
      <3>3. Length(val) = {Width - n : n \in {Width - 1 - (l - 1)}}
        BY <2>3, <3>2 DEF Length
      <3>4. Width - (Width - 1 - (l - 1)) = l
        BY <2>1, WidthAssumption
      <3> QED  BY <3>3, <3>4
    <2> QED  BY <1>1, <2>2, <2>3
  <1> QED  BY <1>2, <1>3, <1>4

LEMMA FewOnes ==
  ASSUME NEW val \in Numbers, val > 0
  PROVE  OnesCountLoop(val) <= LengthLoop(val) - TrailingZerosLoop(val)
  <1> DEFINE l == LengthLoop(val)
             t == TrailingZerosLoop(val)
  <1>1. l \in 0..Width /\ l - 1 \in Bits(val) /\ \A i \in Bits(val) : i <= l - 1
    BY LoopFindsLength
  <1>2. t \in 0..Width /\ \A i \in Bits(val) : t <= i
    BY LoopFindsTrailingZeros
  <1> HIDE DEF l, t
  <1>3. t \in Int /\ l - 1 \in Int /\ t <= l - 1
    BY <1>1, <1>2, WidthAssumption
  <1>4. Bits(val) \in SUBSET (t..l - 1)
    BY <1>1, <1>2, <1>3 DEF Bits
  <1>5. IsFiniteSet(t..l - 1) /\ Cardinality(t..l - 1) = (l - 1) - t + 1
    BY <1>3, FS_Interval
  <1>6. Cardinality(Bits(val)) <= Cardinality(t..l - 1)
    BY <1>4, <1>5, FS_Subset
  <1>7. OnesCountLoop(val) <= (l - 1) - t + 1
    BY <1>5, <1>6, LoopCountsBits
  <1>8. (l - 1) - t + 1 = l - t
    BY <1>1, <1>2, WidthAssumption
  <1> QED  BY <1>7, <1>8 DEF l, t

\* In every state, since what is asked of is asked of every number that has
\* room in Width bits.
LEMMA BitsOfNumbers ==
  ASSUME NEW val \in Numbers
  PROVE  /\ OnesCount(val) = {OnesCountLoop(val)}
         /\ TrailingZeros(val) = {TrailingZerosLoop(val)}
         /\ Length(val) = {LengthLoop(val)}
         /\ val < Power[LengthLoop(val)]
         /\ val > 0 => /\ Power[LengthLoop(val) - 1] <= val
                       /\ val % Power[TrailingZerosLoop(val)] = 0
                       /\ OnesCountLoop(val) <= LengthLoop(val) - TrailingZerosLoop(val)
  <1>1. val \in Nat
    BY PowerIsPositive, WidthAssumption DEF Numbers
  <1>2. val < Power[LengthLoop(val)] /\ (val > 0 => Power[LengthLoop(val) - 1] <= val)
    BY LoopFindsLength
  <1>3. val % Power[TrailingZerosLoop(val)] = 0
    BY <1>1, LoopFindsTrailingZeros, TrailingZerosDivide
  <1> QED  BY <1>2, <1>3, BuiltinsAgree, FewOnes

(* Both builds of the bit operations of jcat-common.c give the same result,  *)
(* and the one they are for, for every number of any width: the length is    *)
(* the place of the highest bit that is set, the trailing zeros that of the  *)
(* lowest, and the loops meet no value for which a built-in is undefined.    *)
THEOREM BuildsAgree == Spec => []BitsAgree
  <1>1. BitsAgree
    <2>1. 0..MaxUint64 = Numbers
      BY BtAssumption DEF Numbers
    <2> QED  BY <2>1, BitsOfNumbers DEF BitsAgree
  <1> QED  BY <1>1, PTL
=============================================================================
