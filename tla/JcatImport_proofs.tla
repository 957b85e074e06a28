-------------------------- MODULE JcatImport_proofs --------------------------
(***************************************************************************)
(* Proofs about the JSON form of a JcatFile: for every document, every     *)
(* file a program can come to, and numbers of any width.                   *)
(***************************************************************************)
EXTENDS JcatImport, WellFoundedInduction, TLAPS

-----------------------------------------------------------------------------
(* Numbers, optional members, sequences. *)

\* Induction on the natural numbers, as a fact about a set.
LEMMA Induction ==
  ASSUME NEW S, 0 \in S, \A n \in Nat : n \in S => n + 1 \in S
  PROVE  Nat \subseteq S
  <1> DEFINE T == {n \in Nat : n \notin S}
  <1>1. SUFFICES ASSUME T # {} PROVE FALSE
    OBVIOUS
  <1>2. T \subseteq Nat
    OBVIOUS
  <1>3. PICK n \in T : \A m \in T : ~(<<m, n>> \in OpToRel(<, Nat))
    <2> HIDE DEF T
    <2> QED  BY <1>1, <1>2, NatLessThanWellFounded, WFMin
  <1>4. \A m \in T : ~(m < n)
    BY <1>2, <1>3 DEF OpToRel
  <1>5. n - 1 \in Nat /\ n - 1 < n /\ (n - 1) + 1 = n
    <2>1. n \in Nat /\ n # 0
      BY <1>3
    <2> QED  BY <2>1
  <1>6. n - 1 \in S
    BY <1>4, <1>5
  <1> QED  BY <1>3, <1>5, <1>6

LEMMA Least ==
  ASSUME NEW S \in SUBSET Nat, S # {}
  PROVE  Min(S) \in S /\ \A n \in S : Min(S) <= n
  <1>1. PICK n \in S : \A m \in S : ~(<<m, n>> \in OpToRel(<, Nat))
    BY NatLessThanWellFounded, WFMin
  <1>2. \A m \in S : n <= m
    <2>1. \A m \in S : ~(m < n)
      BY <1>1 DEF OpToRel
    <2> QED  BY <2>1
  <1> QED  BY <1>2 DEF Min

LEMMA TheOnly == \A x : The({x}) = x
  BY DEF The

LEMMA TheIsIn ==
  ASSUME NEW one, one # {}
  PROVE  The(one) \in one
  BY DEF The

LEMMA JsonValue ==
  ASSUME NEW S, NEW one \in Json(S), one # {}, Other \notin one
  PROVE  The(one) \in S /\ one = {The(one)}
  BY TheIsIn DEF Json, Optional

LEMMA CutInRange ==
  ASSUME NEW n \in Int
  PROVE  /\ Cut(n) \in 0..Limit - 1
         /\ n \in 0..Limit - 1 => Cut(n) = n
  <1>1. Limit \in Nat \ {0}
    BY ImportAssumption
  <1>2. n % Limit \in 0..Limit - 1
    BY <1>1
  <1>3. ASSUME n \in 0..Limit - 1 PROVE n % Limit = n
    BY <1>1, <1>3
  <1> QED  BY <1>2, <1>3 DEF Cut

LEMMA CutText ==
  ASSUME NEW bytes \in Seq(Byte)
  PROVE  CutAtNul(bytes) \in Seq(Byte \ {"NUL"})
  <1> DEFINE nuls == {n \in DOMAIN bytes : bytes[n] = "NUL"}
  <1>1. nuls \in SUBSET Nat
    OBVIOUS
  <1>2. CASE nuls = {}
    <2>1. CutAtNul(bytes) = bytes
      BY <1>2 DEF CutAtNul
    <2>2. \A n \in 1..Len(bytes) : bytes[n] \in Byte \ {"NUL"}
      BY <1>2
    <2> QED  BY <2>1, <2>2
  <1>3. CASE nuls # {}
    <2> DEFINE first == Min(nuls)
    <2>1. first \in nuls /\ \A n \in nuls : first <= n
      BY <1>1, <1>3, Least
    <2>2. CutAtNul(bytes) = SubSeq(bytes, 1, first - 1)
      BY <1>3 DEF CutAtNul
    <2>3. first \in 1..Len(bytes)
      BY <2>1
    <2> HIDE DEF first
    <2>4. \A n \in 1..first - 1 : bytes[n] \in Byte \ {"NUL"}
      BY <2>1, <2>3
    <2> HIDE DEF nuls
    <2>5. /\ SubSeq(bytes, 1, first - 1) \in Seq(Byte)
          /\ Len(SubSeq(bytes, 1, first - 1)) = first - 1
          /\ \A n \in 1..first - 1 : SubSeq(bytes, 1, first - 1)[n] = bytes[n]
      BY <2>3
    <2> DEFINE cut == SubSeq(bytes, 1, first - 1)
    <2>6. cut \in Seq(Byte) /\ Len(cut) = first - 1
          /\ \A n \in 1..Len(cut) : cut[n] \in Byte \ {"NUL"}
      BY <2>4, <2>5
    <2> HIDE DEF cut
    <2>7. cut \in Seq(Byte \ {"NUL"})
      BY <2>6
    <2> QED  BY <2>2, <2>7 DEF cut
  <1> QED  BY <1>2, <1>3

-----------------------------------------------------------------------------
(* jcat_item_add_alias_id, for each alias in turn. *)

Added(k, added, ids) ==
  added = [n \in 0..k |-> IF n = 0 THEN <<>> ELSE AddAliasId(added[n - 1], ids[n])]

LEMMA AddedExists == \A ids : \A k \in Nat : \E added : Added(k, added, ids)
  <1> SUFFICES ASSUME NEW ids PROVE \A k \in Nat : \E added : Added(k, added, ids)
    OBVIOUS
  <1> DEFINE S == {k \in Nat : \E added : Added(k, added, ids)}
  <1>1. 0 \in S
    <2> DEFINE a == [n \in 0..0 |-> <<>>]
    <2>1. Added(0, a, ids)
      BY DEF Added
    <2> QED  BY <2>1
  <1>2. ASSUME NEW k \in Nat, k \in S PROVE k + 1 \in S
    <2>1. PICK a : Added(k, a, ids)
      BY <1>2
    <2> DEFINE b == [n \in 0..k + 1 |-> IF n <= k THEN a[n] ELSE AddAliasId(a[k], ids[k + 1])]
    <2>2. \A n \in 0..k : b[n] = a[n]
      OBVIOUS
    <2>3. b[k + 1] = AddAliasId(a[k], ids[k + 1])
      OBVIOUS
    <2>4. \A n \in 0..k : a[n] = IF n = 0 THEN <<>> ELSE AddAliasId(a[n - 1], ids[n])
      BY <2>1 DEF Added
    <2>5. b = [n \in 0..k + 1 |-> b[n]]
      OBVIOUS
    <2> HIDE DEF b
    <2>6. \A n \in 0..k + 1 : b[n] = IF n = 0 THEN <<>> ELSE AddAliasId(b[n - 1], ids[n])
      <3> SUFFICES ASSUME NEW n \in 0..k + 1
                   PROVE  b[n] = IF n = 0 THEN <<>> ELSE AddAliasId(b[n - 1], ids[n])
        OBVIOUS
      <3>1. CASE n = 0
        BY <2>2, <2>4, <3>1
      <3>2. CASE n \in 1..k
        <4>1. n - 1 \in 0..k /\ n \in 0..k /\ n # 0
          BY <3>2
        <4> QED  BY <2>2, <2>4, <4>1
      <3>3. CASE n = k + 1
        <4>1. k \in 0..k /\ n - 1 = k /\ n # 0
          BY <3>3
        <4> QED  BY <2>2, <2>3, <3>3, <4>1
      <3> QED  BY <3>1, <3>2, <3>3
    <2>7. Added(k + 1, b, ids)
      BY <2>5, <2>6 DEF Added
    <2>8. k + 1 \in Nat
      OBVIOUS
    <2> QED  BY <2>7, <2>8
  <1>3. Nat \subseteq S
    <2> HIDE DEF S
    <2> QED  BY <1>1, <1>2, Induction
  <1> QED  BY <1>3

LEMMA AddsInTurn ==
  ASSUME NEW ids, Len(ids) \in Nat
  PROVE  \E added : /\ AddAliasIds(ids) = added[Len(ids)]
                    /\ added[0] = <<>>
                    /\ \A n \in 1..Len(ids) : added[n] = AddAliasId(added[n - 1], ids[n])
  <1> DEFINE added == CHOOSE a : Added(Len(ids), a, ids)
  <1>1. AddAliasIds(ids) = added[Len(ids)]
    BY DEF AddAliasIds, Added
  <1>2. Added(Len(ids), added, ids)
    BY AddedExists
  <1> HIDE DEF added
  <1>3. \A n \in 0..Len(ids) :
          added[n] = IF n = 0 THEN <<>> ELSE AddAliasId(added[n - 1], ids[n])
    BY <1>2 DEF Added
  <1>4. added[0] = <<>>
    BY <1>3
  <1>5. \A n \in 1..Len(ids) : added[n] = AddAliasId(added[n - 1], ids[n])
    BY <1>3
  <1> QED  BY <1>1, <1>4, <1>5

\* Whatever the document says, the aliases of an item are distinct ...
LEMMA AliasesAreDistinct ==
  ASSUME NEW S, NEW ids \in Seq(S)
  PROVE  AddAliasIds(ids) \in {seq \in Seq(S) : Distinct(seq)}
  <1>1. PICK added : /\ AddAliasIds(ids) = added[Len(ids)]
                     /\ added[0] = <<>>
                     /\ \A n \in 1..Len(ids) : added[n] = AddAliasId(added[n - 1], ids[n])
    BY AddsInTurn
  <1> DEFINE Sound(n) == added[n] \in Seq(S) /\ Distinct(added[n])
  <1> DEFINE N == {n \in Nat : n <= Len(ids) => Sound(n)}
  <1>2. 0 \in N
    <2>1. <<>> \in Seq(S) /\ Distinct(<<>>)
      BY DEF Distinct
    <2> QED  BY <1>1, <2>1
  <1>3. ASSUME NEW n \in Nat, n \in N PROVE n + 1 \in N
    <2>1. SUFFICES ASSUME n + 1 <= Len(ids) PROVE Sound(n + 1)
      OBVIOUS
    <2>2. n + 1 \in 1..Len(ids) /\ (n + 1) - 1 = n /\ ids[n + 1] \in S /\ Sound(n)
      BY <1>3, <2>1
    <2>3. added[n + 1] = AddAliasId(added[n], ids[n + 1])
      BY <1>1, <2>2
    <2> QED  BY <2>2, <2>3 DEF AddAliasId, Contains, Distinct
  <1>4. Nat \subseteq N
    <2> HIDE DEF N
    <2> QED  BY <1>2, <1>3, Induction
  <1>5. Len(ids) \in N
    BY <1>4
  <1> QED  BY <1>1, <1>5

\* ... and distinct ones are kept as they are.
LEMMA DistinctAreKept ==
  ASSUME NEW S, NEW ids \in Seq(S), Distinct(ids)
  PROVE  AddAliasIds(ids) = ids
  <1>1. PICK added : /\ AddAliasIds(ids) = added[Len(ids)]
                     /\ added[0] = <<>>
                     /\ \A n \in 1..Len(ids) : added[n] = AddAliasId(added[n - 1], ids[n])
    BY AddsInTurn
  <1> DEFINE N == {n \in Nat : n <= Len(ids) => added[n] = SubSeq(ids, 1, n)}
  <1>2. 0 \in N
    <2>1. SubSeq(ids, 1, 0) = <<>>
      OBVIOUS
    <2> QED  BY <1>1, <2>1
  <1>3. ASSUME NEW n \in Nat, n \in N PROVE n + 1 \in N
    <2>1. SUFFICES ASSUME n + 1 <= Len(ids) PROVE added[n + 1] = SubSeq(ids, 1, n + 1)
      OBVIOUS
    <2>2. n + 1 \in 1..Len(ids) /\ (n + 1) - 1 = n /\ added[n] = SubSeq(ids, 1, n)
      BY <1>3, <2>1
    <2>3. added[n + 1] = AddAliasId(added[n], ids[n + 1])
      BY <1>1, <2>2
    <2>4. /\ Len(SubSeq(ids, 1, n)) = n
          /\ \A m \in 1..n : SubSeq(ids, 1, n)[m] = ids[m] /\ ids[m] # ids[n + 1]
      BY <2>1 DEF Distinct
    <2>5. added[n + 1] = Append(SubSeq(ids, 1, n), ids[n + 1])
      BY <2>2, <2>3, <2>4 DEF AddAliasId, Contains
    <2> QED  BY <2>1, <2>5
  <1>4. Nat \subseteq N
    <2> HIDE DEF N
    <2> QED  BY <1>2, <1>3, Induction
  <1>5. Len(ids) \in N
    BY <1>4
  <1>6. SubSeq(ids, 1, Len(ids)) = ids
    OBVIOUS
  <1> QED  BY <1>1, <1>5, <1>6

-----------------------------------------------------------------------------
(* What is imported is well formed, whatever the document. *)

LEMMA NumberRead ==
  ASSUME NEW one \in Json(Int), one # {}
  PROVE  Number(The(one)) \in Int /\ Number(The(one)) \in Numbers(one)
  <1>1. The(one) \in one /\ one \subseteq Int \cup {Other}
    BY TheIsIn DEF Json, Optional
  <1>2. Number(The(one)) \in Int
    <2>1. The(one) \in Int \/ The(one) = Other
      BY <1>1
    <2>2. CASE The(one) \in Int
      BY <2>2, ImportAssumption DEF Number
    <2>3. CASE The(one) = Other
      BY <2>3 DEF Number
    <2> QED  BY <2>1, <2>2, <2>3
  <1>3. Number(The(one)) \in Numbers(one)
    BY <1>1 DEF Numbers
  <1> QED  BY <1>2, <1>3

LEMMA DecodeType ==
  ASSUME NEW flags, NEW string \in JsonString
  PROVE  Decode(flags, string) \in Seq(Byte)
  <1>1. string.bytes \in Seq(Byte)
    BY DEF JsonString
  <1>2. Misread \in Seq(Byte)
    BY DEF Misread, Byte
  <1> QED  BY <1>1, <1>2 DEF Decode

LEMMA ImportBlobType ==
  ASSUME NEW json \in JsonBlob \cup {Other}, BlobIsValid(json), NEW time \in Nat
  PROVE  ImportBlob(json, time) \in Blob
  <1>1. /\ json.Kind \in Json(Int) /\ json.Flags \in Json(Int) /\ json.Target \in Json(Int)
        /\ json.Timestamp \in Json(Int) /\ json.AppstreamId \in Json(JsonId)
        /\ json.Data \in Json(JsonString)
        /\ json.Kind # {} /\ json.Flags # {} /\ json.Data # {}
        /\ Other \notin json.AppstreamId /\ Other \notin json.Data
    BY DEF BlobIsValid, JsonBlob
  <1> DEFINE blob == ImportBlob(json, time)
  <1>2. blob.kind \in 0..Limit - 1 /\ blob.flags \in 0..Limit - 1
    BY <1>1, NumberRead, CutInRange DEF ImportBlob
  <1>3. blob.target \in 0..Limit - 1
    <2>1. CASE json.Target = {}
      BY <2>1, ImportAssumption DEF ImportBlob
    <2>2. CASE json.Target # {}
      BY <1>1, <2>2, NumberRead, CutInRange DEF ImportBlob
    <2> QED  BY <2>1, <2>2
  <1>4. blob.timestamp \in Nat
    <2>1. CASE json.Timestamp = {}
      BY <2>1 DEF ImportBlob
    <2>2. CASE json.Timestamp # {}
      <3>1. Number(The(json.Timestamp)) \in Int /\ Number(The(json.Timestamp)) >= 0
        BY <1>1, <2>2, NumberRead DEF BlobIsValid
      <3> QED  BY <2>2, <3>1 DEF ImportBlob
    <2> QED  BY <2>1, <2>2
  <1>5. blob.appstream_id \in Optional(Ids \cup {NoId})
    BY <1>1 DEF ImportBlob, Json, Optional, JsonId
  <1>6. blob.data \in Seq(Byte)
    <2>1. The(json.Data) \in JsonString
      BY <1>1, JsonValue
    <2> QED  BY <2>1, DecodeType DEF ImportBlob
  <1>7. blob = [kind |-> blob.kind, flags |-> blob.flags, target |-> blob.target,
                timestamp |-> blob.timestamp, appstream_id |-> blob.appstream_id,
                data |-> blob.data]
    BY DEF ImportBlob
  <1> HIDE DEF blob
  <1>8. blob \in Blob
    BY <1>2, <1>3, <1>4, <1>5, <1>6, <1>7 DEF Blob
  <1> QED  BY <1>8 DEF blob

LEMMA ImportItemType ==
  ASSUME NEW json \in JsonItem \cup {Other}, ItemIsValid(json), NEW time \in Nat
  PROVE  ImportItem(json, time) \in Item
  <1>1. /\ json.Id \in Json(JsonId) /\ json.Id # {} /\ json.Id \cap {Other, NoId} = {}
        /\ json.AliasIds \in Json(Seq(JsonId \cup {Other})) /\ Other \notin json.AliasIds
        /\ json.Blobs \in Json(Seq(JsonBlob \cup {Other}))
        /\ json.Blobs # {} /\ Other \notin json.Blobs
    BY DEF ItemIsValid, JsonItem
  <1>2. The(json.Id) \in Ids
    BY <1>1, TheIsIn DEF Json, Optional, JsonId
  <1> DEFINE aliases == IF json.AliasIds = {} THEN <<>> ELSE AddAliasIds(The(json.AliasIds))
  <1>3. aliases \in {ids \in Seq(Ids \cup {NoId}) : Distinct(ids)}
    <2>1. CASE json.AliasIds = {}
      <3>1. <<>> \in Seq(Ids \cup {NoId}) /\ Distinct(<<>>)
        BY DEF Distinct
      <3> QED  BY <2>1, <3>1
    <2>2. CASE json.AliasIds # {}
      <3>1. The(json.AliasIds) \in Seq(JsonId \cup {Other})
            /\ ~Contains(The(json.AliasIds), Other)
        BY <1>1, <2>2, JsonValue DEF ItemIsValid
      <3>2. The(json.AliasIds) \in Seq(Ids \cup {NoId})
        BY <3>1 DEF Contains, JsonId
      <3> QED  BY <2>2, <3>2, AliasesAreDistinct
    <2> QED  BY <2>1, <2>2
  <1> DEFINE elements == The(json.Blobs)
  <1>4. /\ elements \in Seq(JsonBlob \cup {Other})
        /\ \A n \in DOMAIN elements : BlobIsValid(elements[n])
    BY <1>1, JsonValue DEF ItemIsValid
  <1> DEFINE blobs == [n \in DOMAIN elements |-> ImportBlob(elements[n], time)]
  <1>5. blobs \in Seq(Blob)
    <2> HIDE DEF elements
    <2>1. DOMAIN elements = 1..Len(elements) /\ Len(elements) \in Nat
      BY <1>4
    <2>2. \A n \in 1..Len(elements) : ImportBlob(elements[n], time) \in Blob
      BY <1>4, ImportBlobType
    <2> QED  BY <2>1, <2>2
  <1>6. ImportItem(json, time) = [id |-> The(json.Id), alias_ids |-> aliases, blobs |-> blobs]
    BY DEF ImportItem
  <1> HIDE DEF aliases, blobs
  <1> QED  BY <1>2, <1>3, <1>5, <1>6 DEF Item

\* The items before the first one that is not valid.
LEMMA ValidOnes ==
  ASSUME NEW S, NEW elements \in Seq(S)
  PROVE  /\ ValidItems(elements) \in Seq(S)
         /\ \A n \in DOMAIN ValidItems(elements) :
              ItemIsValid(ValidItems(elements)[n]) /\ ValidItems(elements)[n] = elements[n]
         /\ ValidItems(elements) = elements <=>
              \A n \in DOMAIN elements : ItemIsValid(elements[n])
         /\ ValidItems(elements) = elements
              \/ Len(ValidItems(elements)) < Len(elements)
  <1> DEFINE bad == {n \in DOMAIN elements : ~ItemIsValid(elements[n])}
  <1>1. CASE bad = {}
    BY <1>1 DEF ValidItems
  <1>2. CASE bad # {}
    <2> DEFINE first == Min(bad)
    <2>1. first \in bad /\ \A n \in bad : first <= n
      <3>1. bad \in SUBSET Nat
        OBVIOUS
      <3> HIDE DEF bad
      <3> QED  BY <1>2, <3>1, Least
    <2>2. ValidItems(elements) = SubSeq(elements, 1, first - 1)
      BY <1>2 DEF ValidItems
    <2>3. first \in 1..Len(elements) /\ ~ItemIsValid(elements[first])
          /\ \A n \in 1..first - 1 : ItemIsValid(elements[n])
      <3> HIDE DEF first
      <3>1. first \in DOMAIN elements /\ ~ItemIsValid(elements[first])
        BY <2>1
      <3>2. \A n \in DOMAIN elements : n < first => ItemIsValid(elements[n])
        BY <2>1
      <3> QED  BY <3>1, <3>2
    <2> HIDE DEF bad, first
    <2>4. /\ SubSeq(elements, 1, first - 1) \in Seq(S)
          /\ Len(SubSeq(elements, 1, first - 1)) = first - 1
          /\ DOMAIN SubSeq(elements, 1, first - 1) = 1..first - 1
          /\ \A n \in 1..first - 1 : SubSeq(elements, 1, first - 1)[n] = elements[n]
      BY <2>3
    <2>5. Len(ValidItems(elements)) < Len(elements)
      BY <2>2, <2>3, <2>4
    <2> QED  BY <2>2, <2>3, <2>4, <2>5
  <1> QED  BY <1>1, <1>2

ImportItems(elements, time) ==
  [n \in DOMAIN ValidItems(elements) |-> ImportItem(ValidItems(elements)[n], time)]

Version(json) ==
  <<Cut(Number(The(json.JcatVersionMajor))), Cut(Number(The(json.JcatVersionMinor)))>>

\* What an import makes of a file and a document with all its members; the file
\* is returned even if the import fails.
LEMMA ImportOf ==
  ASSUME NEW json \in JsonFile, HasHead(json), NEW f \in File, NEW time \in Nat,
         Other \notin json.Items
  PROVE  /\ The(json.Items) \in Seq(JsonItem \cup {Other}) /\ json.Items = {The(json.Items)}
         /\ Import(json, f, time).ok <=> ValidItems(The(json.Items)) = The(json.Items)
         /\ Import(json, f, time).file =
              [version |-> Version(json), items |-> f.items \o ImportItems(The(json.Items), time)]
  <1>1. json.Items \in Json(Seq(JsonItem \cup {Other})) /\ json.Items # {}
    BY DEF JsonFile, HasHead
  <1>2. The(json.Items) \in Seq(JsonItem \cup {Other}) /\ json.Items = {The(json.Items)}
    BY <1>1, JsonValue
  <1>3. The(json.Items) # Other /\ json # NotJson
    BY <1>2, ImportAssumption
  <1> DEFINE valid == ValidItems(The(json.Items))
  <1>4. Import(json, f, time) =
          [ok |-> valid = The(json.Items),
           file |-> [version |-> Version(json),
                     items |-> f.items \o ImportItems(The(json.Items), time)]]
    BY <1>3 DEF Import, ImportItems, Version
  <1> HIDE DEF valid
  <1>5. Import(json, f, time).ok <=> valid = The(json.Items)
    <2>1. Import(json, f, time).ok = (valid = The(json.Items))
      BY <1>4
    <2> QED  BY <2>1
  <1> QED  BY <1>2, <1>4, <1>5 DEF valid

LEMMA ImportedItems ==
  ASSUME NEW elements \in Seq(JsonItem \cup {Other}), NEW time \in Nat
  PROVE  /\ ImportItems(elements, time) \in Seq(Item)
         /\ Len(ImportItems(elements, time)) = Len(ValidItems(elements))
         /\ \A n \in 1..Len(ValidItems(elements)) :
              /\ ImportItems(elements, time)[n] = ImportItem(elements[n], time)
              /\ ItemIsValid(elements[n])
  <1> DEFINE valid == ValidItems(elements)
  <1>1. /\ valid \in Seq(JsonItem \cup {Other})
        /\ \A n \in DOMAIN valid : ItemIsValid(valid[n]) /\ valid[n] = elements[n]
    BY ValidOnes
  <1>2. ImportItems(elements, time) = [n \in DOMAIN valid |-> ImportItem(valid[n], time)]
    BY DEF ImportItems
  <1> HIDE DEF valid
  <1>3. DOMAIN valid = 1..Len(valid) /\ Len(valid) \in Nat
    BY <1>1
  <1>4. \A n \in 1..Len(valid) : ImportItem(valid[n], time) \in Item
    BY <1>1, <1>3, ImportItemType
  <1> DEFINE items == [n \in DOMAIN valid |-> ImportItem(valid[n], time)]
  <1>5. items \in Seq(Item) /\ Len(items) = Len(valid)
    BY <1>3, <1>4
  <1>6. \A n \in 1..Len(valid) : items[n] = ImportItem(elements[n], time)
    BY <1>1, <1>3
  <1> HIDE DEF items
  <1>7. /\ items \in Seq(Item) /\ Len(items) = Len(valid)
        /\ \A n \in 1..Len(valid) : /\ items[n] = ImportItem(elements[n], time)
                                    /\ ItemIsValid(elements[n])
    BY <1>1, <1>3, <1>5, <1>6
  <1> QED  BY <1>2, <1>7 DEF valid, items

LEMMA ImportType ==
  ASSUME NEW json \in JsonFile \cup {NotJson}, NEW f \in File, NEW time \in Nat
  PROVE  Import(json, f, time).file \in File /\ Import(json, f, time).ok \in BOOLEAN
  <1>1. CASE json = NotJson \/ ~HasHead(json)
    BY <1>1 DEF Import
  <1>2. CASE json # NotJson /\ HasHead(json)
    <2>1. /\ json.JcatVersionMajor \in Json(Int) /\ json.JcatVersionMajor # {}
          /\ json.JcatVersionMinor \in Json(Int) /\ json.JcatVersionMinor # {}
          /\ json.Items \in Json(Seq(JsonItem \cup {Other})) /\ json.Items # {}
      BY <1>2 DEF HasHead, JsonFile
    <2>2. Version(json) \in (0..Limit - 1) \X (0..Limit - 1)
      BY <2>1, NumberRead, CutInRange DEF Version
    <2>3. CASE The(json.Items) = Other
      <3>1. Import(json, f, time) = [ok |-> FALSE, file |-> [f EXCEPT !.version = Version(json)]]
        BY <1>2, <2>3 DEF Import, Version
      <3>2. [f EXCEPT !.version = Version(json)] \in File
        BY <2>2 DEF File
      <3> QED  BY <3>1, <3>2
    <2>4. CASE The(json.Items) # Other
      <3>1. Other \notin json.Items
        BY <2>1, <2>4, TheIsIn DEF Json, Optional
      <3>2. /\ The(json.Items) \in Seq(JsonItem \cup {Other})
            /\ Import(json, f, time).file =
                 [version |-> Version(json),
                  items |-> f.items \o ImportItems(The(json.Items), time)]
        BY <1>2, <3>1, ImportOf
      <3>3. ImportItems(The(json.Items), time) \in Seq(Item) /\ f.items \in Seq(Item)
        BY <3>2, ImportedItems DEF File
      <3>4. f.items \o ImportItems(The(json.Items), time) \in Seq(Item)
        BY <3>3
      <3>5. Import(json, f, time).ok \in BOOLEAN
        BY <1>2, <2>4 DEF Import
      <3> QED  BY <2>2, <3>2, <3>4, <3>5 DEF File
    <2> QED  BY <2>3, <2>4
  <1> QED  BY <1>1, <1>2

-----------------------------------------------------------------------------
(* What is exported is a document. *)

LEMMA OptionalOne ==
  ASSUME NEW S, NEW x \in S
  PROVE  {x} \in Json(S) /\ {} \in Json(S) /\ (Other \notin S => Other \notin {x})
  BY DEF Json, Optional

LEMMA MemberOf ==
  ASSUME NEW S, NEW seq \in Seq(S)
  PROVE  Member(seq) \in Json(Seq(S))
  BY DEF Member, Json, Optional

LEMMA TextIsAString ==
  ASSUME NEW blob \in Blob, TextIsUtf8(blob)
  PROVE  /\ BlobIsReadable(blob) => Encode(blob) \in JsonString
         /\ ~BlobIsReadable(blob) => Encode(blob) = Other
  <1>1. blob.data \in Seq(Byte)
    BY DEF Blob
  <1>2. CASE ~IsUtf8(blob.flags)
    BY <1>1, <1>2 DEF Encode, JsonString, BlobIsReadable
  <1>3. CASE IsUtf8(blob.flags)
    <2> DEFINE text == CutAtNul(blob.data)
    <2>1. text \in Seq(Byte \ {"NUL"}) /\ ~Contains(text, "xFF")
      BY <1>1, <1>3, CutText DEF TextIsUtf8
    <2> HIDE DEF text
    <2>2. text \in Seq(Byte \ {"NUL", "xFF"})
      BY <2>1 DEF Contains
    <2>3. CASE blob.data = <<>> /\ NullIfEmpty
      BY <1>3, <2>3 DEF Encode, BlobIsReadable
    <2>4. CASE ~(blob.data = <<>> /\ NullIfEmpty)
      <3>1. Encode(blob) = [encoding |-> "text", bytes |-> text]
        BY <1>3, <2>4 DEF Encode, text
      <3>2. BlobIsReadable(blob)
        BY <2>4 DEF BlobIsReadable
      <3> QED  BY <2>2, <3>1, <3>2 DEF JsonString
    <2> QED  BY <2>3, <2>4
  <1> QED  BY <1>2, <1>3

LEMMA ExportBlobType ==
  ASSUME NEW blob \in Blob, TextIsUtf8(blob), NEW no_timestamp \in BOOLEAN
  PROVE  ExportBlob(blob, no_timestamp) \in JsonBlob
  <1>1. /\ blob.kind \in Int /\ blob.flags \in Int /\ blob.target \in Int
        /\ blob.timestamp \in Int /\ blob.appstream_id \in Optional(JsonId)
    BY ImportAssumption DEF Blob, JsonId
  <1>2. {blob.kind} \in Json(Int) /\ {blob.flags} \in Json(Int)
        /\ {blob.target} \in Json(Int) /\ {blob.timestamp} \in Json(Int) /\ {} \in Json(Int)
    BY <1>1, OptionalOne
  <1>3. blob.appstream_id \in Json(JsonId)
    BY <1>1 DEF Json, Optional
  <1>4. {Encode(blob)} \in Json(JsonString)
    BY TextIsAString DEF Json, Optional
  <1> QED  BY <1>2, <1>3, <1>4 DEF ExportBlob, JsonBlob

LEMMA ExportItemType ==
  ASSUME NEW item \in Item, \A k \in DOMAIN item.blobs : TextIsUtf8(item.blobs[k]),
         NEW no_timestamp \in BOOLEAN
  PROVE  ExportItem(item, no_timestamp) \in JsonItem
  <1>1. item.id \in JsonId /\ item.alias_ids \in Seq(JsonId \cup {Other})
        /\ item.blobs \in Seq(Blob)
    BY DEF Item, JsonId
  <1>2. {item.id} \in Json(JsonId) /\ Member(item.alias_ids) \in Json(Seq(JsonId \cup {Other}))
    BY <1>1, OptionalOne, MemberOf
  <1> DEFINE blobs == [n \in DOMAIN item.blobs |-> ExportBlob(item.blobs[n], no_timestamp)]
  <1>3. blobs \in Seq(JsonBlob \cup {Other})
    <2>1. \A n \in 1..Len(item.blobs) : ExportBlob(item.blobs[n], no_timestamp) \in JsonBlob
      BY <1>1, ExportBlobType
    <2>2. DOMAIN item.blobs = 1..Len(item.blobs) /\ Len(item.blobs) \in Nat
      BY <1>1
    <2> QED  BY <2>1, <2>2
  <1>4. Member(blobs) \in Json(Seq(JsonBlob \cup {Other}))
    <2> HIDE DEF blobs
    <2> QED  BY <1>3, MemberOf
  <1> QED  BY <1>2, <1>4 DEF ExportItem, JsonItem

TextsAreUtf8(f) ==
  \A n \in DOMAIN f.items : \A k \in DOMAIN f.items[n].blobs : TextIsUtf8(f.items[n].blobs[k])

LEMMA ExportType ==
  ASSUME NEW f \in File, NEW no_timestamp \in BOOLEAN
  PROVE  /\ ~TextsAreUtf8(f) => Export(f, no_timestamp) = NotJson
         /\ TextsAreUtf8(f) =>
              /\ Export(f, no_timestamp) \in JsonFile
              /\ Export(f, no_timestamp) =
                   [JcatVersionMajor |-> {f.version[1]}, JcatVersionMinor |-> {f.version[2]},
                    Items |-> Member([n \in DOMAIN f.items |->
                                        ExportItem(f.items[n], no_timestamp)])]
  <1>1. CASE ~TextsAreUtf8(f)
    BY <1>1 DEF TextsAreUtf8, Export
  <1>2. CASE TextsAreUtf8(f)
    <2>1. Export(f, no_timestamp) =
            [JcatVersionMajor |-> {f.version[1]}, JcatVersionMinor |-> {f.version[2]},
             Items |-> Member([n \in DOMAIN f.items |-> ExportItem(f.items[n], no_timestamp)])]
      BY <1>2 DEF TextsAreUtf8, Export
    <2>2. f.version[1] \in Int /\ f.version[2] \in Int /\ f.items \in Seq(Item)
      BY ImportAssumption DEF File
    <2> DEFINE items == [n \in DOMAIN f.items |-> ExportItem(f.items[n], no_timestamp)]
    <2>3. items \in Seq(JsonItem \cup {Other})
      <3>1. \A n \in 1..Len(f.items) : ExportItem(f.items[n], no_timestamp) \in JsonItem
        BY <1>2, <2>2, ExportItemType DEF TextsAreUtf8
      <3>2. DOMAIN f.items = 1..Len(f.items) /\ Len(f.items) \in Nat
        BY <2>2
      <3> QED  BY <3>1, <3>2
    <2>4. Member(items) \in Json(Seq(JsonItem \cup {Other}))
      <3> HIDE DEF items
      <3> QED  BY <2>3, MemberOf
    <2>5. {f.version[1]} \in Json(Int) /\ {f.version[2]} \in Json(Int)
      BY <2>2, OptionalOne
    <2> QED  BY <1>2, <2>1, <2>4, <2>5 DEF JsonFile
  <1> QED  BY <1>1, <1>2

-----------------------------------------------------------------------------
(* The state: a file that is well formed.  The bounds play no part. *)

TypeOK ==
  /\ file \in File /\ now \in Nat \ {0} /\ ok \in BOOLEAN
  /\ given \subseteq Documents /\ \A x, y \in given : x = y

LEMMA NewFileType == NewFile \in File
  <1>1. Limit > 1
    BY ImportAssumption
  <1>2. <<0, 1>> \in (0..Limit - 1) \X (0..Limit - 1)
    BY <1>1, ImportAssumption
  <1> QED  BY <1>2 DEF NewFile, File

LEMMA EditType ==
  ASSUME TypeOK, NEW items \in Seq(Item), Edit(items)
  PROVE  TypeOK'
  <1>1. [file EXCEPT !.items = items] \in File
    BY DEF TypeOK, File
  <1> QED  BY <1>1 DEF TypeOK, Edit

LEMMA NextType == TypeOK /\ [Next]_vars => TypeOK'
  <1> SUFFICES ASSUME TypeOK, [Next]_vars PROVE TypeOK'
    OBVIOUS
  <1>1. file \in File /\ file.items \in Seq(Item) /\ now \in Nat
    BY DEF File, TypeOK
  <1>2. ASSUME NEW json \in Documents, ImportJson(json) PROVE TypeOK'
    <2>1. json \in JsonFile \cup {NotJson}
      BY ImportAssumption
    <2>2. Import(json, file, now).file \in File /\ Import(json, file, now).ok \in BOOLEAN
      BY <1>1, <2>1, ImportType
    <2> QED  BY <1>2, <2>2 DEF ImportJson, TypeOK
  <1>3. ASSUME NEW no_timestamp \in BOOLEAN, Reload(no_timestamp) PROVE TypeOK'
    <2>1. Export(file, no_timestamp) \in JsonFile \cup {NotJson}
      BY <1>1, ExportType
    <2>2. Import(Export(file, no_timestamp), NewFile, now).file \in File
      BY <1>1, <2>1, NewFileType, ImportType
    <2> QED  BY <1>3, <2>2 DEF Reload, TypeOK
  <1>4. ASSUME Forget PROVE TypeOK'
    BY <1>4, NewFileType DEF Forget, TypeOK
  <1>5. ASSUME Tick PROVE TypeOK'
    BY <1>5 DEF Tick, TypeOK
  <1>6. ASSUME NEW id \in Ids, AddItem(id) PROVE TypeOK'
    <2>1. <<>> \in Seq(Ids \cup {NoId}) /\ Distinct(<<>>) /\ <<>> \in Seq(Blob)
      BY DEF Distinct
    <2>2. [id |-> id, alias_ids |-> <<>>, blobs |-> <<>>] \in Item
      BY <2>1 DEF Item
    <2>3. Append(file.items, [id |-> id, alias_ids |-> <<>>, blobs |-> <<>>]) \in Seq(Item)
      BY <1>1, <2>2
    <2> QED  BY <1>6, <2>3, EditType DEF AddItem
  <1>7. ASSUME NEW n \in DOMAIN file.items, NEW blob \in NewBlobs, NEW time \in {now, 0},
               AddBlob(n, blob, time)
        PROVE  TypeOK'
    <2>1. blob \in Blob
      BY ImportAssumption
    <2>2. [blob EXCEPT !.timestamp = time] \in Blob
      BY <1>1, <2>1 DEF Blob
    <2>3. file.items[n] \in Item /\ file.items[n].blobs \in Seq(Blob)
      <3>1. file.items[n] \in Item
        BY <1>1
      <3> QED  BY <3>1 DEF Item
    <2> DEFINE blobs == Append(file.items[n].blobs, [blob EXCEPT !.timestamp = time])
    <2>4. blobs \in Seq(Blob)
      BY <2>2, <2>3
    <2>5. [file.items EXCEPT ![n].blobs = Append(@, [blob EXCEPT !.timestamp = time])]
            = [file.items EXCEPT ![n] = [file.items[n] EXCEPT !.blobs = blobs]]
      OBVIOUS
    <2>6. [file.items[n] EXCEPT !.blobs = blobs] \in Item
      <3> HIDE DEF blobs
      <3> QED  BY <2>3, <2>4 DEF Item
    <2>7. [file.items EXCEPT ![n] = [file.items[n] EXCEPT !.blobs = blobs]] \in Seq(Item)
      <3> HIDE DEF blobs
      <3> QED  BY <1>1, <2>6
    <2> QED  BY <1>7, <2>5, <2>7, EditType DEF AddBlob
  <1>8. CASE UNCHANGED vars
    BY <1>8 DEF vars, TypeOK
  <1> QED  BY <1>2, <1>3, <1>4, <1>5, <1>6, <1>7, <1>8 DEF Next

(* JcatFile: aliases are distinct, numbers have their width and no member is *)
(* of a wrong type, whatever documents were imported.                        *)
THEOREM ImportTypes == Spec => []TypeOK
  <1>1. Init => TypeOK
    BY NewFileType, ImportAssumption DEF Init, TypeOK
  <1> QED  BY <1>1, NextType, PTL DEF Spec

-----------------------------------------------------------------------------
(* Through JSON and back. *)

LEMMA NumberKept ==
  ASSUME NEW n \in 0..Limit - 1
  PROVE  Number(n) = n /\ Cut(Number(n)) = n /\ Number(The({n})) = n
  <1>1. n \in Int /\ n # Other
    BY ImportAssumption
  <1>2. Cut(n) = n /\ The({n}) = n
    BY <1>1, CutInRange, TheOnly
  <1> QED  BY <1>1, <1>2 DEF Number

\* What is left of a blob, as Kept, with the time as a parameter.
KeptAt(blob, no_timestamp, time) ==
  [kind |-> blob.kind, flags |-> blob.flags, target |-> blob.target,
   timestamp |-> IF blob.timestamp = 0 \/ no_timestamp THEN time ELSE blob.timestamp,
   appstream_id |-> blob.appstream_id,
   data |-> IF IsUtf8(blob.flags) THEN CutAtNul(blob.data) ELSE blob.data]

LEMMA KeptIs ==
  ASSUME NEW blob \in Blob, NEW no_timestamp
  PROVE  Kept(blob, no_timestamp) = KeptAt(blob, no_timestamp, now)
  <1>1. \A k, f, t, s, a, d, data :
          [[kind |-> k, flags |-> f, target |-> t, timestamp |-> s, appstream_id |-> a,
            data |-> d] EXCEPT !.data = data] =
          [kind |-> k, flags |-> f, target |-> t, timestamp |-> s, appstream_id |-> a,
           data |-> data]
    OBVIOUS
  <1>2. \A k, f, t, s, a, d, time :
          [[kind |-> k, flags |-> f, target |-> t, timestamp |-> s, appstream_id |-> a,
            data |-> d] EXCEPT !.timestamp = time] =
          [kind |-> k, flags |-> f, target |-> t, timestamp |-> time, appstream_id |-> a,
           data |-> d]
    OBVIOUS
  <1>3. blob = [kind |-> blob.kind, flags |-> blob.flags, target |-> blob.target,
                timestamp |-> blob.timestamp, appstream_id |-> blob.appstream_id,
                data |-> blob.data]
    BY DEF Blob
  <1>4. ASSUME NEW data, NEW time
        PROVE  [blob EXCEPT !.data = data, !.timestamp = time] =
                 [kind |-> blob.kind, flags |-> blob.flags, target |-> blob.target,
                  timestamp |-> time, appstream_id |-> blob.appstream_id, data |-> data]
    <2>1. [blob EXCEPT !.data = data, !.timestamp = time] =
            [[blob EXCEPT !.data = data] EXCEPT !.timestamp = time]
      BY DEF Blob
    <2>2. [blob EXCEPT !.data = data] =
            [kind |-> blob.kind, flags |-> blob.flags, target |-> blob.target,
             timestamp |-> blob.timestamp, appstream_id |-> blob.appstream_id,
             data |-> data]
      BY <1>1, <1>3
    <2>3. [[kind |-> blob.kind, flags |-> blob.flags, target |-> blob.target,
            timestamp |-> blob.timestamp, appstream_id |-> blob.appstream_id,
            data |-> data] EXCEPT !.timestamp = time] =
          [kind |-> blob.kind, flags |-> blob.flags, target |-> blob.target,
           timestamp |-> time, appstream_id |-> blob.appstream_id, data |-> data]
      BY <1>2
    <2> QED  BY <2>1, <2>2, <2>3 
  <1> QED  BY <1>4 DEF Kept, KeptAt

LEMMA BlobRoundTrip ==
  ASSUME NEW blob \in Blob, TextIsUtf8(blob), NEW no_timestamp \in BOOLEAN, NEW time \in Nat,
         NEW json, json = ExportBlob(blob, no_timestamp)
  PROVE  /\ BlobIsValid(json) <=> BlobIsReadable(blob)
         /\ BlobIsReadable(blob) => ImportBlob(json, time) = KeptAt(blob, no_timestamp, time)
  <1>1. /\ blob.kind \in 0..Limit - 1 /\ blob.flags \in 0..Limit - 1
        /\ blob.target \in 0..Limit - 1 /\ blob.timestamp \in Nat
        /\ blob.appstream_id \in Optional(Ids \cup {NoId})
    BY DEF Blob
  <1>2. /\ json.Kind = {blob.kind} /\ json.Flags = {blob.flags}
        /\ json.Target = IF blob.target = 0 THEN {} ELSE {blob.target}
        /\ json.Timestamp = IF blob.timestamp > 0 /\ ~no_timestamp THEN {blob.timestamp} ELSE {}
        /\ json.AppstreamId = blob.appstream_id
        /\ json.Data = {Encode(blob)}
    BY DEF ExportBlob
  <1>3. json # Other
    BY ExportBlobType, ImportAssumption
  <1>4. Other \notin json.AppstreamId
    BY <1>1, <1>2, ImportAssumption DEF Optional, JsonId
  <1>5. \A n \in Numbers(json.Kind) \cup Numbers(json.Flags)
                \cup Numbers(json.Timestamp) \cup Numbers(json.Target) : n >= 0
    <2>1. \A n \in Nat : Number(n) = n
      BY ImportAssumption DEF Number
    <2>2. \A n \in json.Kind \cup json.Flags \cup json.Timestamp \cup json.Target : n \in Nat
      BY <1>1, <1>2, ImportAssumption
    <2> QED  BY <2>1, <2>2 DEF Numbers
  <1>6. BlobIsValid(json) <=> BlobIsReadable(blob)
    <2>1. BlobIsValid(json) <=> Encode(blob) # Other
      BY <1>2, <1>3, <1>4, <1>5 DEF BlobIsValid
    <2>2. Other \notin JsonString
      BY ImportAssumption
    <2> QED  BY <2>1, <2>2, TextIsAString
  <1>7. ASSUME BlobIsReadable(blob)
        PROVE  ImportBlob(json, time) = KeptAt(blob, no_timestamp, time)
    <2> DEFINE b == ImportBlob(json, time)
    <2>1. b.kind = blob.kind /\ b.flags = blob.flags
      BY <1>1, <1>2, NumberKept, TheOnly DEF ImportBlob
    <2>2. b.target = blob.target
      BY <1>1, <1>2, NumberKept, TheOnly DEF ImportBlob
    <2>3. b.timestamp = IF blob.timestamp = 0 \/ no_timestamp THEN time ELSE blob.timestamp
      <3>1. Number(blob.timestamp) = blob.timestamp
        BY <1>1, ImportAssumption DEF Number
      <3>2. b.timestamp = IF json.Timestamp = {} THEN time ELSE Number(The(json.Timestamp))
        BY DEF ImportBlob
      <3>3. CASE blob.timestamp = 0 \/ no_timestamp
        <4>1. json.Timestamp = {}
          BY <1>1, <1>2, <3>3
        <4> QED  BY <3>2, <3>3, <4>1
      <3>4. CASE ~(blob.timestamp = 0 \/ no_timestamp)
        <4>1. blob.timestamp > 0
          BY <1>1, <3>4
        <4>2. json.Timestamp = {blob.timestamp}
          BY <1>2, <3>4, <4>1
        <4> HIDE DEF b
        <4> QED  BY <3>1, <3>2, <3>4, <4>2, TheOnly
      <3> QED  BY <3>3, <3>4
    <2>4. b.data = IF IsUtf8(blob.flags) THEN CutAtNul(blob.data) ELSE blob.data
      <3>1. b.data = Decode(blob.flags, Encode(blob))
        <4>1. b.data = Decode(b.flags, The(json.Data))
          BY DEF ImportBlob
        <4> QED  BY <1>2, <2>1, <4>1, TheOnly
      <3> HIDE DEF b
      <3>2. CASE IsUtf8(blob.flags)
        <4>1. Encode(blob) = [encoding |-> "text", bytes |-> CutAtNul(blob.data)]
          BY <1>7, <3>2 DEF Encode, BlobIsReadable
        <4> QED  BY <3>1, <3>2, <4>1 DEF Decode
      <3>3. CASE ~IsUtf8(blob.flags)
        <4>1. Encode(blob) = [encoding |-> "base64", bytes |-> blob.data]
          BY <3>3 DEF Encode
        <4>2. IsUtf8(blob.flags) = FALSE
          BY <3>3 DEF IsUtf8
        <4> QED  BY <3>1, <4>1, <4>2 DEF Decode
      <3> QED  BY <3>2, <3>3
    <2>5. b.appstream_id = blob.appstream_id
      BY <1>2 DEF ImportBlob
    <2>6. b = [kind |-> b.kind, flags |-> b.flags, target |-> b.target,
               timestamp |-> b.timestamp, appstream_id |-> b.appstream_id, data |-> b.data]
      BY DEF ImportBlob
    <2> HIDE DEF b
    <2>7. b = KeptAt(blob, no_timestamp, time)
      BY <2>1, <2>2, <2>3, <2>4, <2>5, <2>6 DEF KeptAt
    <2> QED  BY <2>7 DEF b
  <1> QED  BY <1>6, <1>7

KeptBlobsAt(blobs, no_timestamp, time) ==
  [k \in DOMAIN blobs |-> KeptAt(blobs[k], no_timestamp, time)]

KeptItemAt(item, no_timestamp, time) ==
  [id |-> item.id, alias_ids |-> item.alias_ids,
   blobs |-> KeptBlobsAt(item.blobs, no_timestamp, time)]

ItemIsReadable(item) ==
  item.blobs # <<>> /\ \A k \in DOMAIN item.blobs : BlobIsReadable(item.blobs[k])

LEMMA MemberIs ==
  ASSUME NEW seq
  PROVE  /\ seq = <<>> => Member(seq) = {}
         /\ seq # <<>> => Member(seq) # {} /\ The(Member(seq)) = seq /\ Member(seq) = {seq}
  BY TheOnly DEF Member

LEMMA ItemRoundTrip ==
  ASSUME NEW item \in Item, \A k \in DOMAIN item.blobs : TextIsUtf8(item.blobs[k]),
         NEW no_timestamp \in BOOLEAN, NEW time \in Nat,
         NEW json, json = ExportItem(item, no_timestamp)
  PROVE  /\ ItemIsValid(json) <=> ItemIsReadable(item)
         /\ ItemIsReadable(item) =>
              ImportItem(json, time) = KeptItemAt(item, no_timestamp, time)
  <1>1. /\ item.id \in Ids /\ item.alias_ids \in Seq(Ids \cup {NoId})
        /\ Distinct(item.alias_ids) /\ item.blobs \in Seq(Blob)
    BY DEF Item
  <1> DEFINE blobs == [k \in DOMAIN item.blobs |-> ExportBlob(item.blobs[k], no_timestamp)]
  <1>2. /\ json.Id = {item.id} /\ json.AliasIds = Member(item.alias_ids)
        /\ json.Blobs = Member(blobs)
    BY DEF ExportItem
  <1>3. json # Other
    BY ExportItemType, ImportAssumption
  <1>4. json.Id # {} /\ json.Id \cap {Other, NoId} = {} /\ The(json.Id) = item.id
    BY <1>1, <1>2, TheOnly, ImportAssumption DEF JsonId
  <1>5. Other \notin json.AliasIds /\ \A aliases \in json.AliasIds : ~Contains(aliases, Other)
    <2>1. item.alias_ids \in Seq(JsonId) /\ Other \notin JsonId /\ Other \notin Seq(JsonId)
      BY <1>1, ImportAssumption DEF JsonId
    <2>2. item.alias_ids # Other /\ ~Contains(item.alias_ids, Other)
      BY <2>1 DEF Contains
    <2> QED  BY <1>2, <2>2 DEF Member
  <1>6. DOMAIN blobs = DOMAIN item.blobs
        /\ \A k \in DOMAIN item.blobs : blobs[k] = ExportBlob(item.blobs[k], no_timestamp)
    OBVIOUS
  <1>7. blobs \in Seq(JsonBlob) /\ (blobs = <<>> <=> item.blobs = <<>>)
    <2>1. \A n \in 1..Len(item.blobs) : ExportBlob(item.blobs[n], no_timestamp) \in JsonBlob
      BY <1>1, ExportBlobType
    <2>2. DOMAIN item.blobs = 1..Len(item.blobs) /\ Len(item.blobs) \in Nat
      BY <1>1
    <2>3. blobs \in Seq(JsonBlob) /\ Len(blobs) = Len(item.blobs)
      BY <2>1, <2>2
    <2> HIDE DEF blobs
    <2> QED  BY <1>1, <2>3
  <1> HIDE DEF blobs
  <1>8. \A k \in DOMAIN item.blobs :
          /\ BlobIsValid(blobs[k]) <=> BlobIsReadable(item.blobs[k])
          /\ BlobIsReadable(item.blobs[k]) =>
               ImportBlob(blobs[k], time) = KeptAt(item.blobs[k], no_timestamp, time)
    <2> SUFFICES ASSUME NEW k \in DOMAIN item.blobs
                 PROVE  /\ BlobIsValid(blobs[k]) <=> BlobIsReadable(item.blobs[k])
                        /\ BlobIsReadable(item.blobs[k]) =>
                             ImportBlob(blobs[k], time) =
                               KeptAt(item.blobs[k], no_timestamp, time)
      OBVIOUS
    <2>1. item.blobs[k] \in Blob /\ TextIsUtf8(item.blobs[k])
      BY <1>1
    <2> QED  BY <1>6, <2>1, BlobRoundTrip
  <1>9. ItemIsValid(json) <=> ItemIsReadable(item)
    <2>1. CASE item.blobs = <<>>
      BY <1>2, <1>7, <2>1, MemberIs DEF ItemIsValid, ItemIsReadable
    <2>2. CASE item.blobs # <<>>
      <3>1. json.Blobs = {blobs} /\ The(json.Blobs) = blobs /\ blobs # Other
        BY <1>2, <1>7, <2>2, MemberIs, ImportAssumption
      <3>2. ItemIsValid(json) <=> \A k \in DOMAIN item.blobs : BlobIsValid(blobs[k])
        BY <1>3, <1>4, <1>5, <1>6, <3>1 DEF ItemIsValid
      <3> QED  BY <1>8, <2>2, <3>2 DEF ItemIsReadable
    <2> QED  BY <2>1, <2>2
  <1>10. ASSUME ItemIsReadable(item)
         PROVE  ImportItem(json, time) = KeptItemAt(item, no_timestamp, time)
    <2>1. The(json.Blobs) = blobs
      BY <1>2, <1>7, <1>10, MemberIs DEF ItemIsReadable
    <2>2. (IF json.AliasIds = {} THEN <<>> ELSE AddAliasIds(The(json.AliasIds)))
            = item.alias_ids
      BY <1>1, <1>2, MemberIs, DistinctAreKept
    <2>3. [n \in DOMAIN blobs |-> ImportBlob(blobs[n], time)]
            = KeptBlobsAt(item.blobs, no_timestamp, time)
      BY <1>6, <1>8, <1>10 DEF ItemIsReadable, KeptBlobsAt
    <2> QED  BY <1>4, <2>1, <2>2, <2>3 DEF ImportItem, KeptItemAt
  <1> QED  BY <1>9, <1>10

\* The whole file, where Import is given a new one.
KeptFileAt(f, no_timestamp, time) ==
  [version |-> f.version,
   items |-> [n \in DOMAIN f.items |-> KeptItemAt(f.items[n], no_timestamp, time)]]

LEMMA FileRoundTrip ==
  ASSUME NEW f \in File, NEW no_timestamp \in BOOLEAN, NEW time \in Nat,
         NEW result, result = Import(Export(f, no_timestamp), NewFile, time)
  PROVE  /\ result.ok <=> IsReadable(f)
         /\ result.ok => result.file = KeptFileAt(f, no_timestamp, time)
  <1>1. CASE ~TextsAreUtf8(f)
    <2>1. ~result.ok
      BY <1>1, ExportType DEF Import
    <2>2. ~IsReadable(f)
      BY <1>1 DEF TextsAreUtf8, IsReadable, BlobIsReadable
    <2> QED  BY <2>1, <2>2
  <1>2. CASE TextsAreUtf8(f)
    <2> DEFINE json == Export(f, no_timestamp)
               elements == [n \in DOMAIN f.items |-> ExportItem(f.items[n], no_timestamp)]
    <2>1. /\ json \in JsonFile /\ json # NotJson
          /\ json.JcatVersionMajor = {f.version[1]} /\ json.JcatVersionMinor = {f.version[2]}
          /\ json.Items = Member(elements)
      BY <1>2, ExportType, ImportAssumption
    <2>2. f.items \in Seq(Item) /\ f.version \in (0..Limit - 1) \X (0..Limit - 1)
      BY DEF File
    <2>3. /\ elements \in Seq(JsonItem) /\ elements \in Seq(JsonItem \cup {Other})
          /\ Len(elements) = Len(f.items)
      <3>1. \A n \in 1..Len(f.items) : ExportItem(f.items[n], no_timestamp) \in JsonItem
        BY <1>2, <2>2, ExportItemType DEF TextsAreUtf8
      <3>2. DOMAIN f.items = 1..Len(f.items) /\ Len(f.items) \in Nat
        BY <2>2
      <3> QED  BY <3>1, <3>2
    <2>4. \A n \in DOMAIN f.items : elements[n] = ExportItem(f.items[n], no_timestamp)
      OBVIOUS
    <2> HIDE DEF json, elements
    <2>5. DOMAIN elements = DOMAIN f.items /\ (elements = <<>> <=> f.items = <<>>)
      BY <2>2, <2>3
    <2>6. \A n \in DOMAIN f.items :
            /\ ItemIsValid(elements[n]) <=> ItemIsReadable(f.items[n])
            /\ ItemIsReadable(f.items[n]) =>
                 ImportItem(elements[n], time) = KeptItemAt(f.items[n], no_timestamp, time)
      <3> SUFFICES ASSUME NEW n \in DOMAIN f.items
                   PROVE  /\ ItemIsValid(elements[n]) <=> ItemIsReadable(f.items[n])
                          /\ ItemIsReadable(f.items[n]) =>
                               ImportItem(elements[n], time) =
                                 KeptItemAt(f.items[n], no_timestamp, time)
        OBVIOUS
      <3>1. f.items[n] \in Item /\ \A k \in DOMAIN f.items[n].blobs :
                                     TextIsUtf8(f.items[n].blobs[k])
        BY <1>2, <2>2 DEF TextsAreUtf8
      <3> QED  BY <2>4, <3>1, ItemRoundTrip
    <2>7. IsReadable(f) <=> f.items # <<>> /\ \A n \in DOMAIN f.items : ItemIsReadable(f.items[n])
      BY DEF IsReadable, ItemIsReadable
    <2>8. CASE f.items = <<>>
      <3>1. ~HasHead(json)
        BY <2>1, <2>5, <2>8, MemberIs DEF HasHead
      <3> QED  BY <2>7, <2>8, <3>1 DEF Import, json
    <2>9. CASE f.items # <<>>
      <3>1. json.Items = {elements} /\ The(json.Items) = elements
        BY <2>1, <2>5, <2>9, MemberIs
      <3>2. HasHead(json) /\ Other \notin json.Items
        BY <2>1, <2>3, <3>1, ImportAssumption DEF HasHead
      <3>3. /\ result.ok <=> ValidItems(elements) = elements
            /\ result.file = [version |-> Version(json),
                              items |-> NewFile.items \o ImportItems(elements, time)]
        <4>1. /\ Import(json, NewFile, time).ok <=>
                   ValidItems(The(json.Items)) = The(json.Items)
              /\ Import(json, NewFile, time).file =
                   [version |-> Version(json),
                    items |-> NewFile.items \o ImportItems(The(json.Items), time)]
          BY <2>1, <3>2, NewFileType, ImportOf
        <4> QED  BY <3>1, <4>1 DEF json
      <3>4. Version(json) = f.version
        <4>1. f.version[1] \in 0..Limit - 1 /\ f.version[2] \in 0..Limit - 1
              /\ f.version = <<f.version[1], f.version[2]>>
          BY <2>2
        <4> QED  BY <2>1, <4>1, NumberKept DEF Version
      <3>5. result.ok <=> \A n \in DOMAIN elements : ItemIsValid(elements[n])
        BY <2>3, <3>3, ValidOnes
      <3>6. result.ok <=> IsReadable(f)
        BY <2>5, <2>6, <2>7, <2>9, <3>5
      <3>7. ASSUME result.ok PROVE result.file = KeptFileAt(f, no_timestamp, time)
        <4>1. /\ ImportItems(elements, time) \in Seq(Item)
              /\ NewFile.items \o ImportItems(elements, time) = ImportItems(elements, time)
          <5>1. ImportItems(elements, time) \in Seq(Item)
            BY <2>3, ImportedItems
          <5>2. NewFile.items = <<>>
            BY DEF NewFile
          <5> QED  BY <5>1, <5>2
        <4>2. \A n \in DOMAIN f.items :
                ImportItem(elements[n], time) = KeptItemAt(f.items[n], no_timestamp, time)
          BY <2>6, <2>7, <3>6, <3>7
        <4>3. ImportItems(elements, time)
                = [n \in DOMAIN f.items |-> KeptItemAt(f.items[n], no_timestamp, time)]
          <5>1. ImportItems(elements, time) = [n \in DOMAIN elements |->
                                                 ImportItem(elements[n], time)]
            BY <3>3, <3>7 DEF ImportItems
          <5> QED  BY <2>5, <4>2, <5>1
        <4> QED  BY <3>3, <3>4, <4>1, <4>3 DEF KeptFileAt
      <3> QED  BY <3>6, <3>7
    <2> QED  BY <2>8, <2>9
  <1> QED  BY <1>1, <1>2

LEMMA KeptItemIs ==
  ASSUME NEW item \in Item, NEW no_timestamp
  PROVE  KeptItem(item, no_timestamp) = KeptItemAt(item, no_timestamp, now)
  <1>1. \A i, a, b, c : [[id |-> i, alias_ids |-> a, blobs |-> b] EXCEPT !.blobs = c] =
                          [id |-> i, alias_ids |-> a, blobs |-> c]
    OBVIOUS
  <1>2. item = [id |-> item.id, alias_ids |-> item.alias_ids, blobs |-> item.blobs]
        /\ item.blobs \in Seq(Blob)
    BY DEF Item
  <1>3. [k \in DOMAIN item.blobs |-> Kept(item.blobs[k], no_timestamp)]
          = KeptBlobsAt(item.blobs, no_timestamp, now)
    <2>1. \A k \in DOMAIN item.blobs : item.blobs[k] \in Blob
      BY <1>2
    <2> QED  BY <2>1, KeptIs DEF KeptBlobsAt
  <1>4. KeptItem(item, no_timestamp) =
          [item EXCEPT !.blobs = KeptBlobsAt(item.blobs, no_timestamp, now)]
    BY <1>3 DEF KeptItem
  <1> QED  BY <1>1, <1>2, <1>4 DEF KeptItemAt

LEMMA RoundTripHolds == TypeOK => RoundTrip
  <1> SUFFICES ASSUME TypeOK, NEW no_timestamp \in BOOLEAN
               PROVE  LET written == Written(no_timestamp)
                      IN  /\ written.ok <=> IsReadable(file)
                          /\ written.ok =>
                               written.file = [file EXCEPT !.items =
                                 [n \in DOMAIN @ |-> KeptItem(@[n], no_timestamp)]]
    BY DEF RoundTrip
  <1>1. file \in File /\ now \in Nat /\ file.items \in Seq(Item)
        /\ file = [version |-> file.version, items |-> file.items]
    BY DEF TypeOK, File
  <1>2. /\ Written(no_timestamp).ok <=> IsReadable(file)
        /\ Written(no_timestamp).ok =>
             Written(no_timestamp).file = KeptFileAt(file, no_timestamp, now)
    BY <1>1, FileRoundTrip DEF Written
  <1>3. [n \in DOMAIN file.items |-> KeptItem(file.items[n], no_timestamp)]
          = [n \in DOMAIN file.items |-> KeptItemAt(file.items[n], no_timestamp, now)]
    <2>1. \A n \in DOMAIN file.items : file.items[n] \in Item
      BY <1>1
    <2> QED  BY <2>1, KeptItemIs
  <1>4. KeptFileAt(file, no_timestamp, now) =
          [file EXCEPT !.items =
             [n \in DOMAIN file.items |-> KeptItem(file.items[n], no_timestamp)]]
    <2>1. \A v, i, j : [[version |-> v, items |-> i] EXCEPT !.items = j]
                         = [version |-> v, items |-> j]
      OBVIOUS
    <2> QED  BY <1>1, <1>3, <2>1 DEF KeptFileAt
  <1> QED  BY <1>2, <1>4

(* jcat_file_export_json and jcat_file_import_json: of a file with any items,   *)
(* blobs and numbers, however it came about, the JSON form keeps everything but *)
(* what Kept names, and it can be read again exactly if no list is empty and    *)
(* all text is text.                                                            *)
THEOREM JsonKeepsAll == Spec => []RoundTrip
  BY ImportTypes, RoundTripHolds, PTL

-----------------------------------------------------------------------------
(* JcatJson, the smaller model of the JSON form. *)

AbstractBlob(blob) == [kind |-> blob.kind, target |-> blob.target, data |-> DataOf(blob)]

AbstractItem(item) ==
  [id |-> item.id, alias_ids |-> ToSet(item.alias_ids),
   blobs |-> [k \in DOMAIN item.blobs |-> AbstractBlob(item.blobs[k])]]

LEMMA AbstractIs == \A f : Abstract(f) = [n \in DOMAIN f.items |-> AbstractItem(f.items[n])]
  BY DEF Abstract, AbstractItem, AbstractBlob

\* Through the JSON of JcatJson and back.
FBlob(blob) == F!ImportBlob(F!ExportBlob(blob))

FItem(item) ==
  [id |-> item.id, alias_ids |-> item.alias_ids,
   blobs |-> [k \in DOMAIN item.blobs |-> FBlob(item.blobs[k])]]

CutTwice(text) == CutAtNul(CutAtNul(text)) = CutAtNul(text)

LEMMA CutIsCut == ASSUME NEW bytes \in Seq(Byte) PROVE CutTwice(bytes)
  <1> DEFINE text == CutAtNul(bytes)
  <1>1. text \in Seq(Byte \ {"NUL"})
    BY CutText
  <1> HIDE DEF text
  <1>2. {n \in DOMAIN text : text[n] = "NUL"} = {}
    BY <1>1
  <1>3. CutAtNul(text) = text
    BY <1>2 DEF CutAtNul
  <1> QED  BY <1>3 DEF text, CutTwice

LEMMA CutEmpty == CutAtNul(<<>>) = <<>>
  BY DEF CutAtNul

\* The smaller model refuses the blobs that are not readable, and makes of the
\* others what is made of them.
LEMMA AbstractBlobKept ==
  ASSUME NEW blob \in Blob, NEW no_timestamp, NEW time
  PROVE  /\ F!ExportBlob(AbstractBlob(blob)).data \notin {"raw", "null"} <=>
              BlobIsReadable(blob)
         /\ BlobIsReadable(blob) =>
              FBlob(AbstractBlob(blob)) = AbstractBlob(KeptAt(blob, no_timestamp, time))
  <1> DEFINE text == CutAtNul(blob.data)
             utf8 == IsUtf8(blob.flags)
             kept == KeptAt(blob, no_timestamp, time)
  <1>1. /\ kept.kind = blob.kind /\ kept.target = blob.target /\ kept.flags = blob.flags
        /\ kept.data = IF utf8 THEN text ELSE blob.data
    BY DEF KeptAt
  <1>2. CutAtNul(text) = text
    BY CutIsCut DEF CutTwice, Blob
  <1>3. blob.data = <<>> => text = <<>>
    BY CutEmpty
  <1>4. text = <<>> => ~Contains(text, "xFF")
    BY DEF Contains
  <1>5. BlobIsReadable(blob) <=>
          (utf8 => ~Contains(text, "xFF") /\ (NullIfEmpty => blob.data # <<>>))
    BY DEF BlobIsReadable, TextIsUtf8
  <1>6. DataOf(blob) =
          IF ~utf8 THEN "whole" ELSE IF blob.data = <<>> /\ NullIfEmpty THEN "null"
          ELSE IF text = <<>> THEN "empty" ELSE IF Contains(text, "xFF") THEN "raw"
          ELSE IF text = blob.data THEN "whole" ELSE "nul"
    BY DEF DataOf
  <1>7. DataOf(kept) =
          IF ~utf8 THEN "whole" ELSE IF text = <<>> /\ NullIfEmpty THEN "null"
          ELSE IF text = <<>> THEN "empty" ELSE IF Contains(text, "xFF") THEN "raw"
          ELSE "whole"
    <2> HIDE DEF text, kept
    <2>1. CASE utf8
      <3>1. kept.data = text /\ CutAtNul(kept.data) = text /\ IsUtf8(kept.flags)
        BY <1>1, <1>2, <2>1
      <3> QED  BY <2>1, <3>1 DEF DataOf
    <2>2. CASE ~utf8
      <3>1. ~IsUtf8(kept.flags)
        BY <1>1, <2>2
      <3> QED  BY <2>2, <3>1 DEF DataOf
    <2> QED  BY <2>1, <2>2
  <1> HIDE DEF text, utf8, kept
  <1>8. F!ExportBlob(AbstractBlob(blob)) =
          [kind |-> blob.kind, target |-> blob.target,
           data |-> IF DataOf(blob) = "nul" THEN "whole" ELSE DataOf(blob)]
    BY DEF F!ExportBlob, AbstractBlob
  <1>9. F!ExportBlob(AbstractBlob(blob)).data \notin {"raw", "null"} <=> BlobIsReadable(blob)
    BY <1>3, <1>4, <1>5, <1>6, <1>8
  <1>10. ASSUME BlobIsReadable(blob) PROVE FBlob(AbstractBlob(blob)) = AbstractBlob(kept)
    <2> DEFINE data == IF DataOf(blob) = "nul" THEN "whole" ELSE DataOf(blob)
               read == IF data = "empty" /\ NullIfEmpty THEN "null" ELSE data
    <2>1. FBlob(AbstractBlob(blob)) = [kind |-> blob.kind, target |-> blob.target, data |-> read]
      BY <1>8 DEF FBlob, F!ImportBlob
    <2>2. read = DataOf(kept)
      BY <1>3, <1>4, <1>5, <1>6, <1>7, <1>10
    <2> HIDE DEF read
    <2> QED  BY <1>1, <2>1, <2>2 DEF AbstractBlob
  <1> QED  BY <1>9, <1>10 DEF kept

LEMMA FTheOnly == \A x : F!The({x}) = x
  BY DEF F!The

\* The same of an item, whose aliases the smaller model has as a set.
LEMMA AbstractItemKept ==
  ASSUME NEW item \in Item, NEW no_timestamp, NEW time, NEW json,
         json = F!ExportItem(AbstractItem(item))
  PROVE  /\ F!ItemIsValid(json) <=>
              item.blobs # <<>> /\ \A k \in DOMAIN item.blobs : BlobIsReadable(item.blobs[k])
         /\ F!ItemIsValid(json) =>
              F!ImportItem(json) = AbstractItem(KeptItemAt(item, no_timestamp, time))
  <1> DEFINE a == AbstractItem(item)
             blobs == [k \in DOMAIN a.blobs |-> F!ExportBlob(a.blobs[k])]
             kept == KeptItemAt(item, no_timestamp, time)
  <1>1. item.blobs \in Seq(Blob) /\ item.id # NoId
    BY ImportAssumption DEF Item
  <1>2. /\ a.id = item.id /\ a.alias_ids = ToSet(item.alias_ids)
        /\ DOMAIN a.blobs = DOMAIN item.blobs
        /\ \A k \in DOMAIN item.blobs : a.blobs[k] = AbstractBlob(item.blobs[k])
    BY DEF AbstractItem
  <1>3. DOMAIN blobs = DOMAIN item.blobs
        /\ \A k \in DOMAIN item.blobs : blobs[k] = F!ExportBlob(AbstractBlob(item.blobs[k]))
    BY <1>2
  <1>4. /\ json.Id = item.id /\ json.Blobs = IF blobs = <<>> THEN {} ELSE {blobs}
        /\ json.AliasIds = IF a.alias_ids = {} THEN {} ELSE {a.alias_ids}
    BY <1>2 DEF F!ExportItem, F!Member
  <1>5. /\ kept.id = item.id /\ kept.alias_ids = item.alias_ids
        /\ DOMAIN kept.blobs = DOMAIN item.blobs
        /\ \A k \in DOMAIN item.blobs :
             kept.blobs[k] = KeptAt(item.blobs[k], no_timestamp, time)
    BY DEF KeptItemAt, KeptBlobsAt
  <1>6. AbstractItem(kept) =
          [id |-> item.id, alias_ids |-> ToSet(item.alias_ids),
           blobs |-> [k \in DOMAIN item.blobs |-> AbstractBlob(kept.blobs[k])]]
    BY <1>5 DEF AbstractItem
  <1> HIDE DEF a, kept
  <1>7. blobs = <<>> <=> item.blobs = <<>>
    <2>1. blobs = [k \in DOMAIN blobs |-> blobs[k]]
      OBVIOUS
    <2> HIDE DEF blobs
    <2> QED  BY <1>1, <1>3, <2>1
  <1> HIDE DEF blobs
  <1>8. item.blobs # <<>> => F!The(json.Blobs) = blobs
    BY <1>4, <1>7, FTheOnly
  <1>9. F!ItemIsValid(json) <=>
          json.Blobs # {}
          /\ \A k \in DOMAIN F!The(json.Blobs) : F!The(json.Blobs)[k].data \notin {"raw", "null"}
    BY <1>1, <1>4 DEF F!ItemIsValid
  <1>10. \A k \in DOMAIN item.blobs : item.blobs[k] \in Blob
    BY <1>1
  <1>11. F!ItemIsValid(json) <=>
           item.blobs # <<>> /\ \A k \in DOMAIN item.blobs : BlobIsReadable(item.blobs[k])
    <2>1. json.Blobs # {} <=> item.blobs # <<>>
      BY <1>4, <1>7
    <2>2. \A k \in DOMAIN item.blobs :
            blobs[k].data \notin {"raw", "null"} <=> BlobIsReadable(item.blobs[k])
      BY <1>3, <1>10, AbstractBlobKept
    <2> QED  BY <1>3, <1>8, <1>9, <2>1, <2>2
  <1>12. ASSUME F!ItemIsValid(json) PROVE F!ImportItem(json) = AbstractItem(kept)
    <2>1. item.blobs # <<>> /\ F!The(json.Blobs) = blobs
      BY <1>8, <1>11, <1>12
    <2>2. \A k \in DOMAIN item.blobs : F!ImportBlob(blobs[k]) = AbstractBlob(kept.blobs[k])
      BY <1>3, <1>5, <1>10, <1>11, <1>12, AbstractBlobKept DEF FBlob
    <2>3. F!ImportBlobs(json) = [k \in DOMAIN item.blobs |-> AbstractBlob(kept.blobs[k])]
      BY <1>3, <2>1, <2>2 DEF F!ImportBlobs
    <2>4. (IF json.AliasIds = {} THEN {} ELSE F!The(json.AliasIds)) = ToSet(item.alias_ids)
      BY <1>2, <1>4, FTheOnly
    <2> QED  BY <1>4, <1>6, <2>3, <2>4 DEF F!ImportItem
  <1> QED  BY <1>11, <1>12 DEF kept

LEMMA AgreementHolds == TypeOK => AgreesWithJcatJson
  <1> SUFFICES ASSUME TypeOK
               PROVE  F!Import(F!Export(Abstract(file))) =
                        IF Written(FALSE).ok THEN {Abstract(Written(FALSE).file)} ELSE {}
    BY DEF AgreesWithJcatJson
  <1>1. file \in File /\ now \in Nat /\ file.items \in Seq(Item)
    BY DEF TypeOK, File
  <1>2. /\ Written(FALSE).ok <=> IsReadable(file)
        /\ Written(FALSE).ok => Written(FALSE).file = KeptFileAt(file, FALSE, now)
    BY <1>1, FileRoundTrip DEF Written
  <1> DEFINE a == Abstract(file)
             items == file.items
             elements == [n \in DOMAIN a |-> F!ExportItem(a[n])]
             kept == [n \in DOMAIN items |-> KeptItemAt(items[n], FALSE, now)]
  <1>3. a = [n \in DOMAIN items |-> AbstractItem(items[n])]
    BY AbstractIs
  <1>4. DOMAIN elements = DOMAIN items
        /\ \A n \in DOMAIN items : elements[n] = F!ExportItem(AbstractItem(items[n]))
    BY <1>3
  <1>5. F!Export(a) = [Items |-> F!Member(elements)]
    BY DEF F!Export
  <1>6. elements = <<>> <=> items = <<>>
    <2>1. elements = [n \in DOMAIN elements |-> elements[n]]
      OBVIOUS
    <2> HIDE DEF elements
    <2> QED  BY <1>1, <1>4, <2>1
  <1>7. KeptFileAt(file, FALSE, now).items = kept
    BY DEF KeptFileAt
  <1> HIDE DEF a, elements
  <1>8. \A n \in DOMAIN items : items[n] \in Item
    BY <1>1
  <1>9. IsReadable(file) <=>
          items # <<>> /\ \A n \in DOMAIN items : F!ItemIsValid(elements[n])
    BY <1>4, <1>8, AbstractItemKept DEF IsReadable
  <1>10. CASE items = <<>>
    <2>1. F!Export(a).Items = {}
      BY <1>5, <1>6, <1>10 DEF F!Member
    <2> QED  BY <1>2, <1>9, <1>10, <2>1 DEF F!Import, a
  <1>11. CASE items # <<>>
    <2>1. F!Export(a).Items = {elements} /\ F!The(F!Export(a).Items) = elements
      <3>1. F!Export(a).Items = F!Member(elements)
        BY <1>5
      <3>2. F!Member(elements) = {elements}
        BY <1>6, <1>11 DEF F!Member
      <3> QED  BY <3>1, <3>2, FTheOnly
    <2>2. CASE ~IsReadable(file)
      <3>1. F!Import(F!Export(a)) = {}
        BY <1>4, <1>9, <1>11, <2>1, <2>2 DEF F!Import
      <3> QED  BY <1>2, <2>2, <3>1 DEF a
    <2>3. CASE IsReadable(file)
      <3>1. F!Import(F!Export(a)) = {[n \in DOMAIN elements |-> F!ImportItem(elements[n])]}
        BY <1>4, <1>9, <2>1, <2>3 DEF F!Import
      <3>2. \A n \in DOMAIN items :
              F!ImportItem(elements[n]) = AbstractItem(KeptItemAt(items[n], FALSE, now))
        BY <1>4, <1>8, <1>9, <2>3, AbstractItemKept
      <3>3. Abstract(KeptFileAt(file, FALSE, now))
              = [n \in DOMAIN items |-> AbstractItem(KeptItemAt(items[n], FALSE, now))]
        <4>1. DOMAIN kept = DOMAIN items
              /\ \A n \in DOMAIN items : kept[n] = KeptItemAt(items[n], FALSE, now)
          OBVIOUS
        <4> HIDE DEF kept
        <4> QED  BY <1>7, <4>1, AbstractIs
      <3> QED  BY <1>2, <1>4, <2>3, <3>1, <3>2, <3>3 DEF a
    <2> QED  BY <2>2, <2>3
  <1> QED  BY <1>10, <1>11

(* The JSON form in JcatJson, which the commands of jcat-tool are modelled with, *)
(* says of every file, whether or not it can be read again, what the one with    *)
(* bytes, numbers and errors says.                                               *)
THEOREM SmallModelAgrees == Spec => []AgreesWithJcatJson
  BY ImportTypes, AgreementHolds, PTL

-----------------------------------------------------------------------------
(* What an import does to the file it imports into. *)

LEMMA OnlyImportsAreGiven ==
  ASSUME TypeOK, [Next]_vars, UNCHANGED vars \/ given' # {}
  PROVE  UNCHANGED vars \/ \E json \in Documents : ImportJson(json)
  BY DEF Next, Reload, Forget, Tick, AddItem, AddBlob, Edit

LEMMA PrefixOf ==
  ASSUME NEW S, NEW s \in Seq(S), NEW t \in Seq(S)
  PROVE  IsPrefix(s, s) /\ IsPrefix(s, s \o t) /\ Len(s \o t) = Len(s) + Len(t)
  BY DEF IsPrefix

LEMMA ImportsAppend ==
  ASSUME NEW json \in JsonFile \cup {NotJson}, NEW f \in File, NEW time \in Nat,
         NEW result, result = Import(json, f, time)
  PROVE  /\ IsPrefix(f.items, result.file.items)
         /\ json # NotJson =>
              \A items \in json.Items \ {Other} :
                result.ok <=> HasHead(json)
                                /\ Len(result.file.items) = Len(f.items) + Len(items)
  <1>1. f.items \in Seq(Item)
    BY DEF File
  <1>2. CASE json = NotJson \/ ~HasHead(json)
    BY <1>1, <1>2, PrefixOf DEF Import
  <1>3. CASE json # NotJson /\ HasHead(json) /\ Other \in json.Items
    <2>1. json.Items = {Other}
      BY <1>3 DEF JsonFile, Json, Optional
    <2>2. result.file = [f EXCEPT !.version = Version(json)]
      BY <1>3, <2>1, TheOnly DEF Import, Version
    <2>3. result.file.items = f.items
      BY <2>2 DEF File
    <2> QED  BY <1>1, <2>1, <2>3, PrefixOf
  <1>4. CASE json # NotJson /\ HasHead(json) /\ Other \notin json.Items
    <2> DEFINE elements == The(json.Items)
    <2>1. /\ elements \in Seq(JsonItem \cup {Other}) /\ json.Items = {elements}
          /\ result.ok <=> ValidItems(elements) = elements
          /\ result.file = [version |-> Version(json),
                            items |-> f.items \o ImportItems(elements, time)]
      BY <1>4, ImportOf
    <2> HIDE DEF elements
    <2>2. /\ ImportItems(elements, time) \in Seq(Item)
          /\ Len(ImportItems(elements, time)) = Len(ValidItems(elements))
      BY <2>1, ImportedItems
    <2>3. /\ IsPrefix(f.items, result.file.items)
          /\ Len(result.file.items) = Len(f.items) + Len(ValidItems(elements))
      <3>1. result.file.items = f.items \o ImportItems(elements, time)
        BY <2>1
      <3>2. /\ IsPrefix(f.items, f.items \o ImportItems(elements, time))
            /\ Len(f.items \o ImportItems(elements, time))
                 = Len(f.items) + Len(ImportItems(elements, time))
        BY <1>1, <2>2, PrefixOf
      <3> QED  BY <2>2, <3>1, <3>2
    <2>4. /\ Len(f.items) \in Nat /\ Len(elements) \in Nat
          /\ Len(ValidItems(elements)) \in Nat
          /\ ValidItems(elements) = elements
               \/ Len(ValidItems(elements)) < Len(elements)
      BY <1>1, <2>1, <2>2, ValidOnes
    <2>5. result.ok <=> Len(result.file.items) = Len(f.items) + Len(elements)
      <3>1. ValidItems(elements) = elements <=> Len(ValidItems(elements)) = Len(elements)
        BY <2>4
      <3>2. Len(ValidItems(elements)) = Len(elements) <=>
              Len(f.items) + Len(ValidItems(elements)) = Len(f.items) + Len(elements)
        BY <2>4
      <3> QED  BY <2>1, <2>3, <3>1, <3>2
    <2> QED  BY <1>4, <2>1, <2>3, <2>5
  <1> QED  BY <1>2, <1>3, <1>4

(* jcat_file_import_json: whatever the document and wherever it is wrong, the *)
(* items that were there stay as they are, and success means that all of the  *)
(* document was added.                                                        *)
THEOREM FailedImportsAppend == Spec => ImportAppends
  <1>1. ASSUME TypeOK, [Next]_vars
        PROVE  [given' # {} =>
                  /\ IsPrefix(file.items, file'.items)
                  /\ \A json \in given' \ {NotJson} : \A items \in json.Items \ {Other} :
                       ok' <=> HasHead(json)
                                 /\ Len(file'.items) = Len(file.items) + Len(items)]_vars
    <2> SUFFICES ASSUME given' # {}, ~UNCHANGED vars
                 PROVE  /\ IsPrefix(file.items, file'.items)
                        /\ \A json \in given' \ {NotJson} : \A items \in json.Items \ {Other} :
                             ok' <=> HasHead(json)
                                       /\ Len(file'.items) = Len(file.items) + Len(items)
      OBVIOUS
    <2>1. PICK json \in Documents : ImportJson(json)
      BY <1>1, OnlyImportsAreGiven
    <2>2. json \in JsonFile \cup {NotJson} /\ file \in File /\ now \in Nat
      BY <1>1, ImportAssumption DEF TypeOK
    <2>3. /\ given' = {json} /\ file' = Import(json, file, now).file
          /\ ok' = Import(json, file, now).ok
      BY <2>1 DEF ImportJson
    <2>4. /\ IsPrefix(file.items, Import(json, file, now).file.items)
          /\ json # NotJson =>
               \A items \in json.Items \ {Other} :
                 Import(json, file, now).ok <=>
                   HasHead(json) /\ Len(Import(json, file, now).file.items)
                                      = Len(file.items) + Len(items)
      BY <2>2, ImportsAppend
    <2> QED  BY <2>3, <2>4
  <1> QED  BY <1>1, ImportTypes, PTL DEF Spec, ImportAppends

Same(member, field) ==
  \A number \in member \ {Other} : number >= 0 /\ (number < Limit => field = number)

LEMMA SameNumbers ==
  ASSUME NEW from \in JsonBlob \cup {Other}, BlobIsValid(from), NEW time \in Nat,
         NEW blob, blob = ImportBlob(from, time)
  PROVE  Same(from.Kind, blob.kind) /\ Same(from.Flags, blob.flags)
         /\ Same(from.Target, blob.target) /\ Same(from.Timestamp, blob.timestamp)
  <1>1. /\ from.Kind \in Json(Int) /\ from.Flags \in Json(Int) /\ from.Target \in Json(Int)
        /\ from.Timestamp \in Json(Int)
        /\ \A n \in Numbers(from.Kind) \cup Numbers(from.Flags)
                    \cup Numbers(from.Timestamp) \cup Numbers(from.Target) : n >= 0
    BY DEF BlobIsValid, JsonBlob
  <1>2. ASSUME NEW member \in Json(Int), \A n \in Numbers(member) : n >= 0,
               NEW number \in member \ {Other}
        PROVE  /\ member = {number} /\ member # {} /\ number >= 0 /\ number \in Int
               /\ Number(The(member)) = number
               /\ number < Limit => Cut(Number(The(member))) = number
    <2>1. member = {number} /\ number \in Int /\ Number(number) = number
      BY <1>2 DEF Json, Optional, Number
    <2>2. number \in Numbers(member)
      BY <2>1 DEF Numbers
    <2>3. number >= 0 /\ The(member) = number
      BY <1>2, <2>1, <2>2, TheOnly
    <2>4. number < Limit => number \in 0..Limit - 1
      BY <2>1, <2>3, ImportAssumption
    <2> QED  BY <2>1, <2>3, <2>4, CutInRange
  <1>3. Same(from.Kind, blob.kind)
    BY <1>1, <1>2 DEF Same, ImportBlob
  <1>4. Same(from.Flags, blob.flags)
    BY <1>1, <1>2 DEF Same, ImportBlob
  <1>5. Same(from.Target, blob.target)
    BY <1>1, <1>2 DEF Same, ImportBlob
  <1>6. Same(from.Timestamp, blob.timestamp)
    BY <1>1, <1>2 DEF Same, ImportBlob
  <1> QED  BY <1>3, <1>4, <1>5, <1>6

(* jcat_blob_import: in a document that was imported, no number is negative, and   *)
(* each one that fits in its field, known or not, is in the file as it was.        *)
THEOREM ImportedNumbers == Spec => NumbersAreKept
  <1>1. ASSUME TypeOK, [Next]_vars
        PROVE  [\A json \in given' : json # NotJson /\ ok' =>
                  \A n \in DOMAIN The(json.Items) :
                    \A k \in DOMAIN The(The(json.Items)[n].Blobs) :
                      LET from == The(The(json.Items)[n].Blobs)[k]
                          blob == file'.items[Len(file.items) + n].blobs[k]
                      IN  Same(from.Kind, blob.kind) /\ Same(from.Flags, blob.flags)
                          /\ Same(from.Target, blob.target)
                          /\ Same(from.Timestamp, blob.timestamp)]_vars
    <2> SUFFICES ASSUME ~UNCHANGED vars, NEW json \in given', json # NotJson, ok',
                        NEW n \in DOMAIN The(json.Items),
                        NEW k \in DOMAIN The(The(json.Items)[n].Blobs),
                        NEW from, from = The(The(json.Items)[n].Blobs)[k],
                        NEW blob, blob = file'.items[Len(file.items) + n].blobs[k]
                 PROVE  Same(from.Kind, blob.kind) /\ Same(from.Flags, blob.flags)
                        /\ Same(from.Target, blob.target)
                        /\ Same(from.Timestamp, blob.timestamp)
      OBVIOUS
    <2>1. json \in Documents /\ ImportJson(json)
      BY <1>1, OnlyImportsAreGiven DEF ImportJson
    <2>2. json \in JsonFile /\ file \in File /\ now \in Nat /\ file.items \in Seq(Item)
      BY <1>1, <2>1, ImportAssumption DEF TypeOK, File
    <2>3. Import(json, file, now).ok /\ file' = Import(json, file, now).file
      BY <2>1 DEF ImportJson
    <2>4. HasHead(json)
      BY <2>3 DEF Import
    <2>5. Other \notin json.Items
      <3>1. ASSUME Other \in json.Items PROVE FALSE
        <4>1. json.Items = {Other}
          BY <2>2, <3>1 DEF JsonFile, Json, Optional
        <4>2. The(json.Items) = Other
          BY <4>1, TheOnly
        <4> QED  BY <2>3, <2>4, <4>2 DEF Import
      <3> QED  BY <3>1
    <2> DEFINE elements == The(json.Items)
    <2>6. /\ elements \in Seq(JsonItem \cup {Other})
          /\ ValidItems(elements) = elements
          /\ file'.items = file.items \o ImportItems(elements, now)
      <3>1. /\ The(json.Items) \in Seq(JsonItem \cup {Other})
            /\ Import(json, file, now).ok <=> ValidItems(The(json.Items)) = The(json.Items)
            /\ Import(json, file, now).file =
                 [version |-> Version(json),
                  items |-> file.items \o ImportItems(The(json.Items), now)]
        BY <2>2, <2>4, <2>5, ImportOf
      <3>2. file'.items = Import(json, file, now).file.items
        BY <2>3
      <3>3. ValidItems(The(json.Items)) = The(json.Items)
        BY <2>3, <3>1
      <3>4. file'.items = file.items \o ImportItems(The(json.Items), now)
        <4> DEFINE items == file.items \o ImportItems(The(json.Items), now)
        <4>1. Import(json, file, now).file = [version |-> Version(json), items |-> items]
          BY <3>1
        <4> HIDE DEF items
        <4>2. file'.items = items
          BY <3>2, <4>1
        <4> QED  BY <4>2 DEF items
      <3> QED  BY <3>1, <3>3, <3>4
    <2>7. n \in DOMAIN elements /\ k \in DOMAIN The(elements[n].Blobs)
          /\ from = The(elements[n].Blobs)[k]
      OBVIOUS
    <2> HIDE DEF elements
    <2>8. n \in 1..Len(elements)
      BY <2>6, <2>7
    <2>9. /\ ImportItems(elements, now) \in Seq(Item)
          /\ Len(ImportItems(elements, now)) = Len(elements)
          /\ ImportItems(elements, now)[n] = ImportItem(elements[n], now)
          /\ ItemIsValid(elements[n])
      BY <2>2, <2>6, <2>8, ImportedItems
    <2>10. file'.items[Len(file.items) + n] = ImportItem(elements[n], now)
      <3>1. \A s, t \in Seq(Item) : \A i \in 1..Len(t) : (s \o t)[Len(s) + i] = t[i]
        OBVIOUS
      <3>2. (file.items \o ImportItems(elements, now))[Len(file.items) + n]
              = ImportItems(elements, now)[n]
        BY <2>2, <2>8, <2>9, <3>1
      <3> QED  BY <2>6, <2>9, <3>2
    <2>11. blob = ImportBlob(from, now)
      BY <2>7, <2>10 DEF ImportItem
    <2>12. BlobIsValid(from) /\ from \in JsonBlob \cup {Other}
      <3>1. elements[n] \in JsonItem
        BY <2>6, <2>8, <2>9 DEF ItemIsValid
      <3>2. The(elements[n].Blobs) \in Seq(JsonBlob \cup {Other})
        BY <2>9, <3>1, JsonValue DEF ItemIsValid, JsonItem
      <3> QED  BY <2>7, <2>9, <3>2 DEF ItemIsValid
    <2> QED  BY <2>2, <2>11, <2>12, SameNumbers
  <1> QED  BY <1>1, ImportTypes, PTL DEF Spec, NumbersAreKept, Same
=============================================================================
