-------------------------- MODULE JcatStore_proofs --------------------------
(***************************************************************************)
(* Proofs about the commands that change a Jcat file, for any number of    *)
(* processes whose commands overlap in any way, are killed or find the     *)
(* disk full.  Overlapping commands lose each other's changes, but what is *)
(* in the file is always the work of one of them.                          *)
(***************************************************************************)
EXTENDS JcatStore, TLAPS

\* What jcat-tool makes of a file it can read, or of a new one.
DistinctIds(file) ==
  \A m, n \in DOMAIN file : file[m].id = file[n].id => m = n

TargetThere(item, k) ==
  item.blobs[k].target # Unknown =>
    \E m \in DOMAIN item.blobs : m # k /\ item.blobs[m].kind = item.blobs[k].target

SoundItem(item) ==
  /\ item \in Item
  /\ \A k \in DOMAIN item.blobs : TargetThere(item, k)

\* What nothing but clean IDs and files make of it.
CleanItem(item) ==
  /\ item.id \notin RawIds \cup {NoId} /\ item.alias_ids \cap RawIds = {}
  /\ item.blobs # <<>>
  /\ \A k \in DOMAIN item.blobs : item.blobs[k].data = "whole"

Clean(file) == file # <<>> /\ \A n \in DOMAIN file : CleanItem(file[n])

Sound(file) ==
  /\ file \in Seq(Item)
  /\ DistinctIds(file)
  /\ \A n \in DOMAIN file : SoundItem(file[n])

\* The inductive invariant: what is stored, and what is about to be, is sound, and
\* clean if nothing unclean has been given.
DiskInv ==
  disk.state = "ok" =>
    \E file : Sound(file) /\ (unclean = 0 => Clean(file)) /\ disk.json = Export(file)

CopyInv ==
  /\ pc \in [Procs -> {"idle", "export"}]
  /\ copy \in [Procs -> Seq(Item)]
  /\ unclean \in Nat
  /\ \A p \in Procs :
       pc[p] = "export" => Sound(copy[p]) /\ (unclean = 0 => Clean(copy[p]))

IInv == DiskInv /\ CopyInv

LEMMA TheOne == ASSUME NEW x PROVE The({x}) = x
  BY DEF The

\* What becomes of an item on the way through JSON.
LEMMA ItemRoundTrip ==
  ASSUME NEW item \in Item
  PROVE  /\ ItemIsValid(ExportItem(item)) <=>
              /\ item.id \notin RawIds \cup {NoId} /\ item.alias_ids \cap RawIds = {}
              /\ item.blobs # <<>>
              /\ \A k \in DOMAIN item.blobs : item.blobs[k].data \notin {"raw", "null"}
         /\ item.blobs # <<>> => ImportItem(ExportItem(item)) = KeptItem(item)
  <1> DEFINE json == ExportItem(item)
             blobs == [k \in DOMAIN item.blobs |-> ExportBlob(item.blobs[k])]
  <1>1. json.Id = item.id
    BY DEF ExportItem
  <1>2. json.AliasIds = IF item.alias_ids = {} THEN {} ELSE {item.alias_ids}
    BY DEF ExportItem
  <1>3. json.Blobs = IF blobs = <<>> THEN {} ELSE {blobs}
    BY DEF ExportItem, Member
  <1>4. item.blobs \in Seq(Blob)
    BY DEF Item
  <1>5. blobs = <<>> <=> item.blobs = <<>>
    BY <1>4
  <1>6. \A k \in DOMAIN item.blobs :
          /\ blobs[k].data \notin {"raw", "null"} <=> item.blobs[k].data \notin {"raw", "null"}
          /\ ImportBlob(blobs[k]) = KeptBlob(item.blobs[k])
    <2> SUFFICES ASSUME NEW k \in DOMAIN item.blobs
                 PROVE  /\ blobs[k].data \notin {"raw", "null"} <=>
                              item.blobs[k].data \notin {"raw", "null"}
                        /\ ImportBlob(blobs[k]) = KeptBlob(item.blobs[k])
      OBVIOUS
    <2>1. blobs[k] = ExportBlob(item.blobs[k])
      OBVIOUS
    <2> QED  BY <2>1 DEF ExportBlob, ImportBlob, KeptBlob, Kept
  <1>7. DOMAIN blobs = DOMAIN item.blobs
    OBVIOUS
  <1> HIDE DEF json, blobs
  <1>8. item.blobs # <<>> => The(json.Blobs) = blobs
    BY <1>3, <1>5, TheOne
  <1>9. (IF json.AliasIds = {} THEN {} ELSE The(json.AliasIds)) = item.alias_ids
    BY <1>2, TheOne
  <1>10. ASSUME item.blobs # <<>> PROVE ImportItem(json) = KeptItem(item)
    <2>1. ImportBlobs(json) = [k \in DOMAIN item.blobs |-> KeptBlob(item.blobs[k])]
      BY <1>6, <1>7, <1>8, <1>10 DEF ImportBlobs
    <2> QED  BY <1>1, <1>9, <2>1 DEF ImportItem, KeptItem
  <1>11. (\A aliases \in json.AliasIds : aliases \cap RawIds = {})
           <=> item.alias_ids \cap RawIds = {}
    BY <1>2
  <1>12. json.Blobs # {} <=> item.blobs # <<>>
    BY <1>3, <1>5
  <1>13. item.blobs # <<>> =>
           ((\A k \in DOMAIN The(json.Blobs) : The(json.Blobs)[k].data \notin {"raw", "null"})
             <=> \A k \in DOMAIN item.blobs : item.blobs[k].data \notin {"raw", "null"})
    BY <1>6, <1>7, <1>8
  <1>14. ItemIsValid(json) <=>
           /\ item.id \notin RawIds \cup {NoId} /\ item.alias_ids \cap RawIds = {}
           /\ item.blobs # <<>>
           /\ \A k \in DOMAIN item.blobs : item.blobs[k].data \notin {"raw", "null"}
    BY <1>1, <1>11, <1>12, <1>13 DEF ItemIsValid
  <1> QED  BY <1>10, <1>14 DEF json

\* What becomes of a file.
LEMMA RoundTrip ==
  ASSUME NEW file \in Seq(Item)
  PROVE  Import(Export(file)) = IF IsReadable(file) THEN {KeptFile(file)} ELSE {}
  <1> DEFINE items == [n \in DOMAIN file |-> ExportItem(file[n])]
  <1>1. Export(file).Items = IF items = <<>> THEN {} ELSE {items}
    BY DEF Export, Member
  <1>2. items = <<>> <=> file = <<>>
    OBVIOUS
  <1>3. \A n \in DOMAIN file : file[n] \in Item /\ items[n] = ExportItem(file[n])
    OBVIOUS
  <1>4. DOMAIN items = DOMAIN file
    OBVIOUS
  <1> HIDE DEF items
  <1>5. CASE file = <<>>
    BY <1>1, <1>2, <1>5 DEF Import, IsReadable
  <1>6. CASE file # <<>>
    <2>1. Export(file).Items # {} /\ The(Export(file).Items) = items
      BY <1>1, <1>2, <1>6, TheOne
    <2>2. IsReadable(file) <=> \A n \in DOMAIN file : ItemIsValid(items[n])
      BY <1>3, <1>6, ItemRoundTrip DEF IsReadable
    <2>3. CASE IsReadable(file)
      <3>1. \A n \in DOMAIN file : ImportItem(items[n]) = KeptItem(file[n])
        BY <1>3, <2>3, ItemRoundTrip DEF IsReadable
      <3>2. [n \in DOMAIN items |-> ImportItem(items[n])] = KeptFile(file)
        BY <1>4, <3>1 DEF KeptFile
      <3> QED  BY <1>4, <2>1, <2>2, <2>3, <3>2 DEF Import
    <2>4. CASE ~IsReadable(file)
      BY <1>4, <2>1, <2>2, <2>4 DEF Import
    <2> QED  BY <2>3, <2>4
  <1> QED  BY <1>5, <1>6

\* What is left of a sound file is sound ...
LEMMA KeptIsSound ==
  ASSUME NEW file, Sound(file)
  PROVE  Sound(KeptFile(file))
  <1>1. \A blob \in Blob : KeptBlob(blob) \in Blob /\ KeptBlob(blob).kind = blob.kind
                             /\ KeptBlob(blob).target = blob.target
    BY DEF KeptBlob, Kept, Blob, Data
  <1>2. ASSUME NEW item, SoundItem(item) PROVE SoundItem(KeptItem(item))
    <2> DEFINE blobs == [k \in DOMAIN item.blobs |-> KeptBlob(item.blobs[k])]
    <2>1. item \in Item /\ item.blobs \in Seq(Blob)
      BY <1>2 DEF SoundItem, Item
    <2>2. blobs \in Seq(Blob)
      BY <1>1, <2>1
    <2>3. \A k \in DOMAIN item.blobs :
            blobs[k].kind = item.blobs[k].kind /\ blobs[k].target = item.blobs[k].target
      BY <1>1, <2>1
    <2>4. DOMAIN blobs = DOMAIN item.blobs
      OBVIOUS
    <2>5. KeptItem(item) = [id |-> item.id, alias_ids |-> item.alias_ids, blobs |-> blobs]
      BY DEF KeptItem
    <2> HIDE DEF blobs
    <2>6. KeptItem(item) \in Item /\ KeptItem(item).blobs = blobs
      BY <2>1, <2>2, <2>5 DEF Item
    <2> QED  BY <1>2, <2>3, <2>4, <2>6 DEF SoundItem, TargetThere
  <1>3. file \in Seq(Item) /\ \A n \in DOMAIN file : SoundItem(file[n])
    BY DEF Sound
  <1>4. \A n \in DOMAIN file : SoundItem(KeptItem(file[n])) /\ KeptItem(file[n]) \in Item
                                /\ KeptItem(file[n]).id = file[n].id
    BY <1>2, <1>3 DEF SoundItem, KeptItem
  <1>5. KeptFile(file) \in Seq(Item)
    BY <1>3, <1>4 DEF KeptFile
  <1>6. DOMAIN KeptFile(file) = DOMAIN file
        /\ \A n \in DOMAIN file : KeptFile(file)[n] = KeptItem(file[n])
    BY DEF KeptFile
  <1>7. DistinctIds(KeptFile(file))
    BY <1>4, <1>6 DEF Sound, DistinctIds
  <1> QED  BY <1>4, <1>5, <1>6, <1>7 DEF Sound

\* ... and all of a clean one is left.
LEMMA CleanIsKept ==
  ASSUME NEW file, Sound(file), Clean(file)
  PROVE  IsReadable(file) /\ KeptFile(file) = file
  <1>1. file \in Seq(Item) /\ \A n \in DOMAIN file : CleanItem(file[n])
    BY DEF Sound, Clean
  <1>2. IsReadable(file)
    BY <1>1 DEF Clean, CleanItem, IsReadable
  <1>3. \A blob \in Blob : blob.data = "whole" => KeptBlob(blob) = blob
    BY DEF KeptBlob, Kept, Blob
  <1>4. ASSUME NEW item \in Item, CleanItem(item) PROVE KeptItem(item) = item
    <2>1. item.blobs \in Seq(Blob)
      BY DEF Item
    <2>2. \A k \in DOMAIN item.blobs : KeptBlob(item.blobs[k]) = item.blobs[k]
      BY <1>3, <1>4, <2>1 DEF CleanItem
    <2>3. [k \in DOMAIN item.blobs |-> KeptBlob(item.blobs[k])] = item.blobs
      BY <2>1, <2>2
    <2> QED  BY <2>3 DEF KeptItem, Item
  <1>5. \A n \in DOMAIN file : KeptItem(file[n]) = file[n]
    BY <1>1, <1>4
  <1> QED  BY <1>1, <1>2, <1>5 DEF KeptFile

\* A lookup that fails in a sound file means that no item has the ID.
LEMMA Lookup ==
  ASSUME NEW file, DistinctIds(file), NEW id
  PROVE  /\ GetItemById(file, id) = {} => \A n \in DOMAIN file : file[n].id # id
         /\ GetItemById(file, id) # {} =>
              /\ The(GetItemById(file, id)) \in DOMAIN file
  <1> DEFINE exact == ItemsWithId(file, id)
             alias == ItemsWithAlias(file, id)
  <1>1. exact \subseteq DOMAIN file /\ alias \subseteq DOMAIN file
    BY DEF ItemsWithId, ItemsWithAlias
  <1>2. exact # {} => IsOne(exact)
    BY DEF ItemsWithId, IsOne, DistinctIds
  <1>3. exact = {} => \A n \in DOMAIN file : file[n].id # id
    BY DEF ItemsWithId
  <1>4. ASSUME NEW S, IsOne(S), S \subseteq DOMAIN file PROVE The(S) \in DOMAIN file
    BY <1>4, TheOne DEF IsOne
  <1> QED  BY <1>1, <1>2, <1>3, <1>4 DEF GetItemById

\* A blob may be added to an item if it has no target or its target is there.
LEMMA BlobAdded ==
  ASSUME NEW item, SoundItem(item), NEW blob \in Blob,
         blob.target # Unknown => HasOneBlob(item, blob.target)
  PROVE  /\ SoundItem([item EXCEPT !.blobs = Append(@, blob)])
         /\ Append(item.blobs, blob) # <<>>
         /\ blob.data = "whole" /\ (\A k \in DOMAIN item.blobs : item.blobs[k].data = "whole") =>
              \A k \in DOMAIN Append(item.blobs, blob) :
                Append(item.blobs, blob)[k].data = "whole"
  <1> DEFINE blobs == Append(item.blobs, blob)
             new == [item EXCEPT !.blobs = blobs]
  <1>1. item \in Item /\ item.blobs \in Seq(Blob)
    BY DEF SoundItem, Item
  <1>2. blobs \in Seq(Blob) /\ Len(blobs) = Len(item.blobs) + 1
    BY <1>1
  <1>3. new \in Item /\ new.blobs = blobs
    BY <1>1, <1>2 DEF Item
  <1>4. \A k \in DOMAIN item.blobs : k \in DOMAIN blobs /\ blobs[k] = item.blobs[k]
    BY <1>1
  <1>5. ASSUME NEW k \in DOMAIN new.blobs PROVE TargetThere(new, k)
    <2>1. CASE k \in DOMAIN item.blobs
      BY <1>3, <1>4, <2>1 DEF SoundItem, TargetThere
    <2>2. CASE k \notin DOMAIN item.blobs
      <3>1. blobs[k] = blob
        BY <1>1, <1>2, <1>3, <2>2
      <3>2. blob.target # Unknown =>
              \E m \in DOMAIN item.blobs : item.blobs[m].kind = blob.target
        BY DEF HasOneBlob, IsOne
      <3> QED  BY <1>3, <1>4, <2>2, <3>1, <3>2 DEF TargetThere
    <2> QED  BY <2>1, <2>2
  <1>6. \A k \in DOMAIN blobs : blobs[k] = IF k \in DOMAIN item.blobs THEN item.blobs[k] ELSE blob
    BY <1>1, <1>2
  <1>7. blobs # <<>>
    BY <1>1, <1>2
  <1> QED  BY <1>2, <1>3, <1>5, <1>6, <1>7 DEF SoundItem

LEMMA AliasesChanged ==
  ASSUME NEW item, SoundItem(item), NEW aliases \in SUBSET Ids
  PROVE  SoundItem([item EXCEPT !.alias_ids = aliases])
  <1>1. [item EXCEPT !.alias_ids = aliases] \in Item
    BY DEF SoundItem, Item
  <1>2. [item EXCEPT !.alias_ids = aliases].blobs = item.blobs
    BY DEF SoundItem, Item
  <1> QED  BY <1>1, <1>2 DEF SoundItem, TargetThere

\* An item may be replaced by a sound one with the same ID.
LEMMA ItemChanged ==
  ASSUME NEW file, Sound(file), NEW n \in DOMAIN file, NEW item,
         SoundItem(item), item.id = file[n].id
  PROVE  /\ Sound([file EXCEPT ![n] = item])
         /\ Clean(file) /\ CleanItem(item) => Clean([file EXCEPT ![n] = item])
  <1> DEFINE new == [file EXCEPT ![n] = item]
  <1>1. file \in Seq(Item) /\ item \in Item
    BY DEF Sound, SoundItem
  <1>2. new \in Seq(Item) /\ DOMAIN new = DOMAIN file
    BY <1>1
  <1>3. \A m \in DOMAIN file : new[m] = IF m = n THEN item ELSE file[m]
    BY <1>1
  <1>4. new # <<>>
    BY <1>1, <1>2
  <1> HIDE DEF new
  <1>5. DistinctIds(new)
    BY <1>2, <1>3 DEF Sound, DistinctIds
  <1>6. \A m \in DOMAIN new : SoundItem(new[m])
    BY <1>2, <1>3 DEF Sound
  <1>7. Clean(file) /\ CleanItem(item) => Clean(new)
    BY <1>2, <1>3, <1>4 DEF Clean
  <1> QED  BY <1>2, <1>5, <1>6, <1>7 DEF Sound, new

\* An item with a new ID may be added.
LEMMA ItemAdded ==
  ASSUME NEW file, Sound(file), NEW item,
         SoundItem(item), \A n \in DOMAIN file : file[n].id # item.id
  PROVE  /\ Sound(Append(file, item))
         /\ (file # <<>> => Clean(file)) /\ CleanItem(item) => Clean(Append(file, item))
  <1> DEFINE new == Append(file, item)
  <1>1. file \in Seq(Item) /\ item \in Item
    BY DEF Sound, SoundItem
  <1>2. new \in Seq(Item) /\ Len(new) = Len(file) + 1
    BY <1>1
  <1>3. \A n \in DOMAIN new :
          new[n] = IF n \in DOMAIN file THEN file[n] ELSE item
    BY <1>1
  <1>4. \A m, n \in DOMAIN new : m \notin DOMAIN file /\ n \notin DOMAIN file => m = n
    BY <1>1, <1>2
  <1>5. DOMAIN file # {} => file # <<>>
    OBVIOUS
  <1> HIDE DEF new
  <1>6. DistinctIds(new)
    BY <1>3, <1>4 DEF Sound, DistinctIds
  <1>7. \A n \in DOMAIN new : SoundItem(new[n])
    BY <1>3 DEF Sound
  <1>8. new # <<>>
    <2>1. Len(new) \in Nat /\ Len(new) # 0  BY <1>1, <1>2
    <2> QED  BY <2>1
  <1>9. (file # <<>> => Clean(file)) /\ CleanItem(item) => Clean(new)
    BY <1>3, <1>5, <1>8 DEF Clean
  <1> QED  BY <1>2, <1>6, <1>7, <1>9 DEF Sound, new

-----------------------------------------------------------------------------

LEMMA InitInv == Init => IInv
  BY DEF Init, IInv, DiskInv, CopyInv

\* A command reads a sound file, or starts a new one.
LEMMA Loaded ==
  ASSUME DiskInv
  PROVE  /\ Load # {} => Sound(The(Load)) /\ (unclean = 0 => Clean(The(Load)))
         /\ LoadIfExists # {} =>
              /\ Sound(The(LoadIfExists))
              /\ unclean = 0 /\ The(LoadIfExists) # <<>> => Clean(The(LoadIfExists))
         /\ unclean = 0 /\ disk.state = "ok" => Load # {}
  <1>1. ASSUME disk.state = "ok"
        PROVE  /\ Load # {} => Sound(The(Load)) /\ (unclean = 0 => Clean(The(Load)))
               /\ unclean = 0 => Load # {}
    <2>1. PICK file : Sound(file) /\ (unclean = 0 => Clean(file)) /\ disk.json = Export(file)
      BY <1>1 DEF DiskInv
    <2>2. Load = IF IsReadable(file) THEN {KeptFile(file)} ELSE {}
      BY <1>1, <2>1, RoundTrip DEF Load, Sound
    <2>3. Sound(KeptFile(file))
      BY <2>1, KeptIsSound
    <2>4. unclean = 0 => IsReadable(file) /\ KeptFile(file) = file
      BY <2>1, CleanIsKept
    <2> QED  BY <2>1, <2>2, <2>3, <2>4, TheOne
  <1>2. disk.state # "ok" => Load = {}
    BY DEF Load
  <1>3. Sound(<<>>)
    BY DEF Sound, DistinctIds
  <1>4. The({<<>>}) = <<>>
    BY TheOne
  <1> QED  BY <1>1, <1>2, <1>3, <1>4 DEF LoadIfExists

\* A command that goes on to write a sound file keeps the invariant.
LEMMA EditKeeps ==
  ASSUME IInv, NEW p \in Procs, NEW c, NEW file, Edit(p, c, file),
         Sound(file), unclean = 0 /\ IsClean(c) => Clean(file)
  PROVE  IInv'
  <1>1. unclean \in Nat /\ unclean' \in Nat
        /\ (unclean' = 0 => unclean = 0 /\ IsClean(c))
    BY DEF Edit, IInv, CopyInv
  <1>2. DiskInv'
    BY <1>1 DEF Edit, IInv, DiskInv
  <1>3. CopyInv'
    BY <1>1 DEF Edit, IInv, CopyInv, Sound
  <1> QED  BY <1>2, <1>3 DEF IInv

LEMMA FailKeeps ==
  ASSUME IInv, NEW p \in Procs, Fail(p)
  PROVE  IInv'
  BY DEF IInv, DiskInv, CopyInv, Fail

LEMMA LastReplaced ==
  ASSUME NEW seq \in Seq(Item), NEW a \in Item, NEW b \in Item
  PROVE  [Append(seq, a) EXCEPT ![Len(seq) + 1] = b] = Append(seq, b)
  <1> DEFINE s == [Append(seq, a) EXCEPT ![Len(seq) + 1] = b]
             t == Append(seq, b)
  <1>1. s \in Seq(Item) /\ t \in Seq(Item) /\ Len(s) = Len(t)
    OBVIOUS
  <1>2. \A k \in 1..Len(s) : s[k] = t[k]
    <2> DEFINE r == Append(seq, a)
    <2>1. r \in Seq(Item) /\ DOMAIN r = 1..Len(seq) + 1
      OBVIOUS
    <2>2. \A k \in 1..Len(seq) + 1 : k # Len(seq) + 1 => r[k] = seq[k] /\ t[k] = seq[k]
      OBVIOUS
    <2>3. t[Len(seq) + 1] = b /\ Len(s) = Len(seq) + 1
      OBVIOUS
    <2>4. \A k \in DOMAIN r : s[k] = IF k = Len(seq) + 1 THEN b ELSE r[k]
      OBVIOUS
    <2> HIDE DEF r, s, t
    <2> QED  BY <2>1, <2>2, <2>3, <2>4
  <1> HIDE DEF s, t
  <1>3. s = t
    BY <1>1, <1>2
  <1> QED  BY <1>3 DEF s, t

\* Adding a blob, which import, self-sign and sign do.
LEMMA AddBlobKeeps ==
  ASSUME IInv, NEW p \in Procs, NEW id \in Ids, NEW blob \in Blob, LoadIfExists # {},
         NEW file, file = WithItem(The(LoadIfExists), id),
         NEW n, n = ItemFor(The(LoadIfExists), id),
         blob.target # Unknown => HasOneBlob(file[n], blob.target),
         Edit(p, Command("sign", id, blob), AddBlob(file, n, blob))
  PROVE  IInv'
  <1> DEFINE old == The(LoadIfExists)
             c == Command("sign", id, blob)
             new == AddBlob(file, n, blob)
  <1>1. Sound(old) /\ (unclean = 0 /\ old # <<>> => Clean(old))
    BY Loaded DEF IInv
  <1>2. IsClean(c) => id \notin RawIds \cup {NoId} /\ blob.data = "whole"
    BY DEF IsClean, Command
  <1>3. file = WithItem(old, id) /\ n = ItemFor(old, id)
    OBVIOUS
  <1>4. Edit(p, c, new)
    OBVIOUS
  <1> HIDE DEF old, c
  <1>5. CASE GetItemById(old, id) = {}
    <2> DEFINE first == [id |-> id, alias_ids |-> {}, blobs |-> <<>>]
               item == [first EXCEPT !.blobs = Append(@, blob)]
    <2>1. old \in Seq(Item) /\ \A m \in DOMAIN old : old[m].id # id
      BY <1>1, <1>5, Lookup DEF Sound
    <2>2. first \in Item
      BY DEF Item
    <2>3. file = Append(old, first) /\ n = Len(old) + 1
      BY <1>3, <1>5 DEF WithItem, ItemFor, AddItem
    <2>4. file[n] = first
      BY <2>1, <2>3
    <2>5. SoundItem(first)
      BY <2>2 DEF SoundItem
    <2>6. /\ SoundItem(item) /\ Append(first.blobs, blob) # <<>>
          /\ blob.data = "whole" =>
               \A k \in DOMAIN Append(first.blobs, blob) :
                 Append(first.blobs, blob)[k].data = "whole"
      <3>1. blob.target # Unknown => HasOneBlob(first, blob.target)
        BY <2>4
      <3>2. \A k \in DOMAIN first.blobs : first.blobs[k].data = "whole"
        OBVIOUS
      <3> HIDE DEF first
      <3> QED  BY <2>5, <3>1, <3>2, BlobAdded
    <2>7. item.id = id /\ item.alias_ids = {} /\ item.blobs = Append(first.blobs, blob)
      OBVIOUS
    <2>8. new = [Append(old, first) EXCEPT ![Len(old) + 1] = item]
      BY <2>3, <2>4 DEF AddBlob
    <2>9. new = Append(old, item)
      <3> HIDE DEF first, item, new
      <3> QED  BY <2>1, <2>2, <2>6, <2>8, LastReplaced DEF SoundItem
    <2> HIDE DEF first, item, new
    <2>10. IsClean(c) => CleanItem(item)
      BY <1>2, <2>6, <2>7 DEF CleanItem
    <2>11. Sound(new) /\ (unclean = 0 /\ IsClean(c) => Clean(new))
      BY <1>1, <2>1, <2>6, <2>7, <2>9, <2>10, ItemAdded
    <2> QED  BY <1>4, <2>11, EditKeeps
  <1>6. CASE GetItemById(old, id) # {}
    <2> DEFINE item == [old[n] EXCEPT !.blobs = Append(@, blob)]
    <2>1. file = old /\ n \in DOMAIN old
      BY <1>1, <1>3, <1>6, Lookup DEF WithItem, ItemFor, Sound
    <2>2. SoundItem(old[n]) /\ old # <<>>
      BY <1>1, <2>1 DEF Sound
    <2>3. /\ SoundItem(item) /\ Append(old[n].blobs, blob) # <<>>
          /\ blob.data = "whole" /\ (\A k \in DOMAIN old[n].blobs : old[n].blobs[k].data = "whole")
               => \A k \in DOMAIN Append(old[n].blobs, blob) :
                    Append(old[n].blobs, blob)[k].data = "whole"
      BY <2>1, <2>2, BlobAdded
    <2>4. /\ item.id = old[n].id /\ item.alias_ids = old[n].alias_ids
          /\ item.blobs = Append(old[n].blobs, blob)
      BY <2>2 DEF SoundItem, Item
    <2>5. new = [old EXCEPT ![n] = item]
      BY <2>1 DEF AddBlob
    <2> HIDE DEF item, new
    <2>6. Clean(old) /\ IsClean(c) => CleanItem(item)
      BY <1>2, <2>1, <2>3, <2>4 DEF Clean, CleanItem
    <2>7. Sound(new) /\ (unclean = 0 /\ IsClean(c) => Clean(new))
      BY <1>1, <2>1, <2>2, <2>3, <2>4, <2>5, <2>6, ItemChanged
    <2> QED  BY <1>4, <2>7, EditKeeps
  <1> QED  BY <1>5, <1>6

LEMMA ImportKeeps ==
  ASSUME IInv, NEW p \in Procs, NEW id \in Ids, NEW blob \in Files, ImportFile(p, id, blob)
  PROVE  IInv'
  <1>1. blob \in Blob /\ blob.target = Unknown
    BY StoreAssumption
  <1> QED  BY <1>1, FailKeeps, AddBlobKeeps DEF ImportFile

LEMMA SignKeeps ==
  ASSUME IInv, NEW p \in Procs, NEW id \in Ids, NEW blob \in NewBlobs, Sign(p, id, blob)
  PROVE  IInv'
  <1>1. blob \in Blob
    BY StoreAssumption
  <1> QED  BY <1>1, FailKeeps, AddBlobKeeps DEF Sign

\* Adding an alias, and removing one.
LEMMA AliasEditKeeps ==
  ASSUME IInv, NEW p \in Procs, NEW c, NEW id, Load # {},
         GetItemById(The(Load), id) # {}, NEW aliases \in SUBSET Ids,
         Edit(p, c, [The(Load) EXCEPT ![The(GetItemById(The(Load), id))].alias_ids = aliases]),
         IsClean(c) =>
           aliases \cap RawIds
             \subseteq The(Load)[The(GetItemById(The(Load), id))].alias_ids \cap RawIds
  PROVE  IInv'
  <1> DEFINE old == The(Load)
             n == The(GetItemById(old, id))
             item == [old[n] EXCEPT !.alias_ids = aliases]
             new == [old EXCEPT ![n] = item]
  <1>1. Sound(old) /\ (unclean = 0 => Clean(old))
    BY Loaded DEF IInv
  <1>2. n \in DOMAIN old /\ SoundItem(old[n])
    BY <1>1, Lookup DEF Sound
  <1>3. SoundItem(item)
    BY <1>2, AliasesChanged
  <1>4. item.id = old[n].id /\ item.alias_ids = aliases /\ item.blobs = old[n].blobs
    BY <1>2 DEF SoundItem, Item
  <1>5. IsClean(c) => aliases \cap RawIds \subseteq old[n].alias_ids \cap RawIds
    OBVIOUS
  <1>6. Sound(new) /\ (unclean = 0 /\ IsClean(c) => Clean(new))
    <2> HIDE DEF old, n, item
    <2>1. Clean(old) /\ IsClean(c) => CleanItem(item)
      BY <1>2, <1>4, <1>5 DEF Clean, CleanItem
    <2> QED  BY <1>1, <1>2, <1>3, <1>4, <2>1, ItemChanged
  <1>7. Edit(p, c, new)
    OBVIOUS
  <1> QED  BY <1>6, <1>7, EditKeeps

LEMMA AddAliasKeeps ==
  ASSUME IInv, NEW p \in Procs, NEW id \in Ids, NEW alias \in Ids, AddAlias(p, id, alias)
  PROVE  IInv'
  <1> DEFINE n == The(GetItemById(The(Load), id))
             aliases == The(Load)[n].alias_ids \cup {alias}
  <1>1. SUFFICES ASSUME ~Fail(p) PROVE IInv'
    BY FailKeeps
  <1>2. /\ Load # {} /\ GetItemById(The(Load), id) # {}
        /\ Edit(p, Command("add-alias", id, alias),
                [The(Load) EXCEPT ![n].alias_ids = aliases])
    BY <1>1 DEF AddAlias, AddAliasId
  <1>3. aliases \in SUBSET Ids
    BY <1>2, Loaded, Lookup DEF IInv, Sound, SoundItem, Item
  <1>4. IsClean(Command("add-alias", id, alias)) => alias \notin RawIds
    BY DEF IsClean, Command
  <1> QED  BY <1>2, <1>3, <1>4, AliasEditKeeps

LEMMA RemoveAliasKeeps ==
  ASSUME IInv, NEW p \in Procs, NEW id \in Ids, NEW alias \in Ids, RemoveAlias(p, id, alias)
  PROVE  IInv'
  <1> DEFINE n == The(GetItemById(The(Load), id))
             aliases == The(Load)[n].alias_ids \ {alias}
  <1>1. SUFFICES ASSUME ~Fail(p) PROVE IInv'
    BY FailKeeps
  <1>2. /\ Load # {} /\ GetItemById(The(Load), id) # {}
        /\ Edit(p, Command("remove-alias", id, alias),
                [The(Load) EXCEPT ![n].alias_ids = aliases])
    BY <1>1 DEF RemoveAlias, RemoveAliasId
  <1>3. aliases \in SUBSET Ids
    BY <1>2, Loaded, Lookup DEF IInv, Sound, SoundItem, Item
  <1> QED  BY <1>2, <1>3, AliasEditKeeps

LEMMA NextInv == IInv /\ [Next]_vars => IInv'
  <1> SUFFICES ASSUME IInv, [Next]_vars PROVE IInv'
    OBVIOUS
  <1>1. ASSUME NEW p \in Procs, NEW id \in Ids, NEW blob \in Files, ImportFile(p, id, blob)
        PROVE  IInv'
    BY <1>1, ImportKeeps
  <1>2. ASSUME NEW p \in Procs, NEW id \in Ids, NEW blob \in NewBlobs, Sign(p, id, blob)
        PROVE  IInv'
    BY <1>2, SignKeeps
  <1>3. ASSUME NEW p \in Procs, NEW id \in Ids, NEW alias \in Ids, AddAlias(p, id, alias)
        PROVE  IInv'
    BY <1>3, AddAliasKeeps
  <1>4. ASSUME NEW p \in Procs, NEW id \in Ids, NEW alias \in Ids, RemoveAlias(p, id, alias)
        PROVE  IInv'
    BY <1>4, RemoveAliasKeeps
  <1>5. ASSUME NEW p \in Procs, Write(p) PROVE IInv'
    <2>1. DiskInv'
      BY <1>5 DEF Write, IInv, CopyInv, DiskInv
    <2>2. CopyInv'
      BY <1>5 DEF Write, IInv, CopyInv
    <2> QED  BY <2>1, <2>2 DEF IInv
  <1>6. ASSUME NEW p \in Procs, WriteCutShort(p) PROVE IInv'
    BY <1>6 DEF WriteCutShort, IInv, CopyInv, DiskInv
  <1>7. ASSUME NEW p \in Procs, Kill(p) PROVE IInv'
    BY <1>7 DEF Kill, IInv, CopyInv, DiskInv
  <1>8. CASE UNCHANGED vars
    BY <1>8 DEF vars, IInv, CopyInv, DiskInv
  <1> QED  BY <1>1, <1>2, <1>3, <1>4, <1>5, <1>6, <1>7, <1>8 DEF Next

LEMMA Invariance == Spec => []IInv
  <1> QED  BY InitInv, NextInv, PTL DEF Spec

LEMMA StoredIsSound == IInv => Sound(Stored)
  <1>1. Sound(<<>>)
    BY DEF Sound, DistinctIds
  <1> QED  BY <1>1, Loaded DEF IInv, Stored

\* Whatever clean commands overlap or fail, what one has written the next can read.
THEOREM WrittenFilesAreReadable == Spec => []WrittenIsReadable
  <1>1. IInv => WrittenIsReadable
    BY Loaded DEF IInv, WrittenIsReadable
  <1> QED  BY <1>1, Invariance, PTL

\* Whatever commands overlap or fail, the IDs in the file are distinct.
THEOREM ItemsAreDistinct == Spec => []UniqueIds
  <1>1. IInv => UniqueIds
    BY StoredIsSound DEF Sound, DistinctIds, UniqueIds
  <1> QED  BY <1>1, Invariance, PTL

\* Whatever commands overlap or fail, the blob another was made over is there.
THEOREM TargetsStay == Spec => []TargetsArePresent
  <1>1. IInv => TargetsArePresent
    BY StoredIsSound DEF Sound, SoundItem, TargetThere, TargetsArePresent
  <1> QED  BY <1>1, Invariance, PTL

-----------------------------------------------------------------------------
(* The variables beside the file: who is at work, and with what.            *)

WorkInv ==
  /\ calm \in BOOLEAN
  /\ disk.state \in {"absent", "ok", "damaged"}
  /\ command \in [Procs -> SUBSET C!Command]
  /\ \A p \in Procs : IF pc[p] = "idle" THEN command[p] = {}
                      ELSE \E c \in C!Command : command[p] = {c}
  /\ outcome \in [Procs -> {"none", "ok", "error"}]
  /\ faults \in 0..MaxFaults /\ unclean \in 0..MaxUnclean

LEMMA InitWork == Init => WorkInv
  BY StoreAssumption DEF Init, WorkInv

\* A command that is asked for is one of the catalogue's.
LEMMA CommandIs ==
  ASSUME NEW id \in Ids
  PROVE  /\ \A blob \in Blob : Command("sign", id, blob) \in C!Command
         /\ \A alias \in Ids : /\ Command("add-alias", id, alias) \in C!Command
                               /\ Command("remove-alias", id, alias) \in C!Command
  BY DEF Command, C!Command

LEMMA EditWork ==
  ASSUME IInv, WorkInv, NEW p \in Procs, NEW c \in C!Command, NEW file, Edit(p, c, file)
  PROVE  WorkInv'
  <1>1. unclean' \in 0..MaxUnclean
    BY StoreAssumption DEF WorkInv, Edit
  <1> QED  BY <1>1 DEF IInv, CopyInv, WorkInv, Edit

LEMMA FailWork ==
  ASSUME IInv, WorkInv, NEW p \in Procs, Fail(p)
  PROVE  WorkInv'
  BY DEF IInv, CopyInv, WorkInv, Fail

LEMMA NextWork == IInv /\ WorkInv /\ [Next]_vars => WorkInv'
  <1> SUFFICES ASSUME IInv, WorkInv, [Next]_vars PROVE WorkInv'
    OBVIOUS
  <1>1. ASSUME NEW p \in Procs, NEW id \in Ids, NEW blob \in Files, ImportFile(p, id, blob)
        PROVE  WorkInv'
    <2>1. Command("sign", id, blob) \in C!Command
      BY StoreAssumption, CommandIs
    <2>2. Fail(p) \/ \E file : Edit(p, Command("sign", id, blob), file)
      BY <1>1 DEF ImportFile
    <2> QED  BY <2>1, <2>2, EditWork, FailWork
  <1>2. ASSUME NEW p \in Procs, NEW id \in Ids, NEW blob \in NewBlobs, Sign(p, id, blob)
        PROVE  WorkInv'
    <2>1. Command("sign", id, blob) \in C!Command
      BY StoreAssumption, CommandIs
    <2>2. Fail(p) \/ \E file : Edit(p, Command("sign", id, blob), file)
      BY <1>2 DEF Sign
    <2> QED  BY <2>1, <2>2, EditWork, FailWork
  <1>3. ASSUME NEW p \in Procs, NEW id \in Ids, NEW alias \in Ids, AddAlias(p, id, alias)
        PROVE  WorkInv'
    <2>1. Fail(p) \/ \E file : Edit(p, Command("add-alias", id, alias), file)
      BY <1>3 DEF AddAlias
    <2> QED  BY <2>1, CommandIs, EditWork, FailWork
  <1>4. ASSUME NEW p \in Procs, NEW id \in Ids, NEW alias \in Ids, RemoveAlias(p, id, alias)
        PROVE  WorkInv'
    <2>1. Fail(p) \/ \E file : Edit(p, Command("remove-alias", id, alias), file)
      BY <1>4 DEF RemoveAlias
    <2> QED  BY <2>1, CommandIs, EditWork, FailWork
  <1>5. ASSUME NEW p \in Procs, Write(p) PROVE WorkInv'
    BY <1>5 DEF Write, IInv, CopyInv, WorkInv
  <1>6. ASSUME NEW p \in Procs, WriteCutShort(p) PROVE WorkInv'
    BY <1>6, StoreAssumption DEF WriteCutShort, IInv, CopyInv, WorkInv
  <1>7. ASSUME NEW p \in Procs, Kill(p) PROVE WorkInv'
    BY <1>7, StoreAssumption DEF Kill, IInv, CopyInv, WorkInv
  <1>8. CASE UNCHANGED vars
    BY <1>8 DEF vars, WorkInv
  <1> QED  BY <1>1, <1>2, <1>3, <1>4, <1>5, <1>6, <1>7, <1>8 DEF Next

LEMMA WorkInvariance == Spec => [](IInv /\ WorkInv)
  <1>1. Init => IInv /\ WorkInv
    BY InitInv, InitWork
  <1>2. IInv /\ WorkInv /\ [Next]_vars => (IInv /\ WorkInv)'
    BY NextInv, NextWork
  <1> QED  BY <1>1, <1>2, PTL DEF Spec

\* The variables keep their types.
THEOREM StoreTypes == Spec => []TypeOK
  <1>1. IInv /\ WorkInv => TypeOK
    BY DEF IInv, CopyInv, WorkInv, TypeOK, IsOne
  <1> QED  BY <1>1, WorkInvariance, PTL

\* What can be read once a file was written ...
LEMMA WriteReads ==
  ASSUME IInv, NEW p \in Procs, Write(p)
  PROVE  Load' = IF IsReadable(copy[p]) THEN {KeptFile(copy[p])} ELSE {}
  <1>1. copy[p] \in Seq(Item)
    BY DEF Write, IInv, CopyInv
  <1>2. Load' = Import(Export(copy[p]))
    BY DEF Write, Load
  <1> QED  BY <1>1, <1>2, RoundTrip

\* ... which is all of it if it is clean.
LEMMA WriteStores ==
  ASSUME IInv, unclean = 0, NEW p \in Procs, Write(p)
  PROVE  Stored' = copy[p]
  <1>1. Sound(copy[p]) /\ Clean(copy[p])
    BY DEF Write, IInv, CopyInv
  <1>2. Load' = {copy[p]}
    BY <1>1, WriteReads, CleanIsKept
  <1> QED  BY <1>2, TheOne DEF Stored

\* A command that succeeds with no fault has left in the file what it had to write,
\* of which the next one reads all that JSON can hold: whatever files and IDs were
\* given, nothing is lost but text behind a NUL, or the file as a whole.
THEOREM WhatIsWrittenIsRead == Spec => WrittenIsRead
  <1>1. IInv /\ WorkInv /\ [Next]_vars =>
          [\A p \in Procs : outcome'[p] = "ok" /\ outcome[p] # "ok" /\ faults' = faults =>
             Load' = IF IsReadable(copy[p]) THEN {KeptFile(copy[p])} ELSE {}]_vars
    <2> SUFFICES ASSUME IInv, WorkInv, [Next]_vars, NEW p \in Procs, outcome'[p] = "ok",
                        outcome[p] # "ok", faults' = faults
                 PROVE  Load' = IF IsReadable(copy[p]) THEN {KeptFile(copy[p])} ELSE {}
      OBVIOUS
    <2>1. PICK q \in Procs :
            \/ \E id \in Ids, blob \in Files : ImportFile(q, id, blob)
            \/ \E id \in Ids, blob \in NewBlobs : Sign(q, id, blob)
            \/ \E id, alias \in Ids : AddAlias(q, id, alias) \/ RemoveAlias(q, id, alias)
            \/ Write(q) \/ WriteCutShort(q) \/ Kill(q)
      BY DEF Next, vars
    <2>2. ~WriteCutShort(q) /\ ~Kill(q)
      BY DEF WriteCutShort, Kill, WorkInv
    <2>3. \A c, file : ~Edit(q, c, file)
      BY DEF Edit, WorkInv
    <2>4. ~Fail(q)
      BY DEF Fail, WorkInv
    <2>5. Write(q)
      BY <2>1, <2>2, <2>3, <2>4 DEF ImportFile, Sign, AddAlias, RemoveAlias
    <2>6. p = q
      BY <2>5 DEF Write, WorkInv
    <2> QED  BY <2>5, <2>6, WriteReads
  <1> QED  BY <1>1, WorkInvariance, PTL DEF Spec, WrittenIsRead

-----------------------------------------------------------------------------
(* Calm commands implement those of JcatCatalogue.                          *)

Entry(item)  == [alias_ids |-> item.alias_ids, blobs |-> item.blobs]
IdsOf(file)  == {file[n].id : n \in DOMAIN file}

\* Catalogue, of any file.
CatalogueOf(file) ==
  [id \in IdsOf(file) |-> Entry(file[CHOOSE n \in DOMAIN file : file[n].id = id])]

\* What command c makes of a file.
MadeBy(c, file, new) ==
  \/ /\ c.op = "sign"
     /\ new = AddBlob(WithItem(file, c.id), ItemFor(file, c.id), c.arg)
  \/ /\ c.op = "add-alias"
     /\ GetItemById(file, c.id) # {}
     /\ new = AddAliasId(file, The(GetItemById(file, c.id)), c.arg)
  \/ /\ c.op = "remove-alias"
     /\ GetItemById(file, c.id) # {}
     /\ new = RemoveAliasId(file, The(GetItemById(file, c.id)), c.arg)

\* If commands are calm nothing unclean was given, there is one at most, and the file is still
\* the one it was read from.
CalmInv ==
  calm =>
    /\ unclean = 0
    /\ \A p, q \in Procs : pc[p] = "export" /\ pc[q] = "export" => p = q
    /\ \A p \in Procs :
         pc[p] = "export" =>
           \E c \in C!Command : command[p] = {c} /\ MadeBy(c, Stored, copy[p])

LEMMA InitCalm == Init => CalmInv
  BY DEF Init, CalmInv

\* What a command that goes on has read is what is stored.
LEMMA LoadedIsStored ==
  /\ Load # {} => The(Load) = Stored
  /\ LoadIfExists # {} => The(LoadIfExists) = Stored
  <1>1. disk.state = "absent" => Load = {} /\ LoadIfExists = {<<>>}
    BY DEF Load, LoadIfExists
  <1>2. disk.state # "absent" => LoadIfExists = Load
    BY DEF LoadIfExists
  <1>3. The({<<>>}) = <<>>
    BY TheOne
  <1> QED  BY <1>1, <1>2, <1>3 DEF Stored

LEMMA EditCalm ==
  ASSUME IInv, WorkInv, CalmInv, NEW p \in Procs, NEW c \in C!Command, NEW file,
         MayStart(p), Edit(p, c, file), MadeBy(c, Stored, file)
  PROVE  CalmInv'
  <1> SUFFICES ASSUME calm PROVE CalmInv'
    BY DEF CalmInv, Edit
  <1>1. Stored' = Stored
    BY DEF Edit, Stored, Load
  <1>2. pc' = [pc EXCEPT ![p] = "export"] /\ \A q \in Procs : pc[q] = "idle"
    BY DEF Edit, MayStart
  <1>3. \A q \in Procs : pc'[q] = "export" => q = p
    BY <1>2 DEF IInv, CopyInv
  <1>4. command'[p] = {c} /\ copy'[p] = file
    BY DEF Edit, IInv, CopyInv, WorkInv
  <1>5. MadeBy(c, Stored', copy'[p])
    BY <1>1, <1>4
  <1>6. unclean' = 0
    BY DEF Edit, CalmInv
  <1> QED  BY <1>3, <1>4, <1>5, <1>6 DEF CalmInv, MadeBy

LEMMA FailCalm ==
  ASSUME CalmInv, NEW p \in Procs, Fail(p)
  PROVE  CalmInv'
  <1>1. Stored' = Stored
    BY DEF Fail, Stored, Load
  <1> QED  BY <1>1 DEF Fail, CalmInv, MadeBy

\* A calm command that has ended leaves no other at work.
LEMMA EndCalm ==
  ASSUME CopyInv, CalmInv, NEW p \in Procs, pc[p] = "export", UNCHANGED <<calm, unclean>>,
         pc' = [pc EXCEPT ![p] = "idle"]
  PROVE  CalmInv' /\ (calm => \A q \in Procs : pc'[q] = "idle")
  <1> SUFFICES ASSUME calm PROVE \A q \in Procs : pc'[q] = "idle"
    BY DEF CalmInv
  <1> SUFFICES ASSUME NEW q \in Procs PROVE pc'[q] = "idle"
    OBVIOUS
  <1>1. pc[q] = "export" => q = p
    BY DEF CalmInv
  <1> QED  BY <1>1 DEF CopyInv

LEMMA AddBlobCalm ==
  ASSUME IInv, WorkInv, CalmInv, NEW p \in Procs, NEW id \in Ids, NEW blob \in Blob,
         MayStart(p), LoadIfExists # {},
         Edit(p, Command("sign", id, blob),
              AddBlob(WithItem(The(LoadIfExists), id), ItemFor(The(LoadIfExists), id), blob))
  PROVE  CalmInv'
  <1> DEFINE c == Command("sign", id, blob)
             file == AddBlob(WithItem(Stored, id), ItemFor(Stored, id), blob)
  <1>1. Edit(p, c, file)
    BY LoadedIsStored
  <1>2. c \in C!Command
    BY CommandIs
  <1>3. MadeBy(c, Stored, file)
    BY DEF MadeBy, Command
  <1> HIDE DEF c, file
  <1> QED  BY <1>1, <1>2, <1>3, EditCalm

LEMMA NextCalm == IInv /\ WorkInv /\ CalmInv /\ [Next]_vars => CalmInv'
  <1> SUFFICES ASSUME IInv, WorkInv, CalmInv, [Next]_vars PROVE CalmInv'
    OBVIOUS
  <1>1. ASSUME NEW p \in Procs, NEW id \in Ids, NEW blob \in Files, ImportFile(p, id, blob)
        PROVE  CalmInv'
    <2>1. blob \in Blob
      BY StoreAssumption
    <2> QED  BY <1>1, <2>1, FailCalm, AddBlobCalm DEF ImportFile
  <1>2. ASSUME NEW p \in Procs, NEW id \in Ids, NEW blob \in NewBlobs, Sign(p, id, blob)
        PROVE  CalmInv'
    <2>1. blob \in Blob
      BY StoreAssumption
    <2> QED  BY <1>2, <2>1, FailCalm, AddBlobCalm DEF Sign
  <1>3. ASSUME NEW p \in Procs, NEW id \in Ids, NEW alias \in Ids, AddAlias(p, id, alias)
        PROVE  CalmInv'
    <2> DEFINE c == Command("add-alias", id, alias)
               file == AddAliasId(Stored, The(GetItemById(Stored, id)), alias)
    <2>1. SUFFICES ASSUME ~Fail(p) PROVE CalmInv'
      BY FailCalm
    <2>2. MayStart(p) /\ Edit(p, c, file) /\ GetItemById(Stored, id) # {}
      BY <1>3, <2>1, LoadedIsStored DEF AddAlias
    <2>3. c \in C!Command
      BY CommandIs
    <2>4. MadeBy(c, Stored, file)
      BY <2>2 DEF MadeBy, Command
    <2> HIDE DEF c, file
    <2> QED  BY <2>2, <2>3, <2>4, EditCalm
  <1>4. ASSUME NEW p \in Procs, NEW id \in Ids, NEW alias \in Ids, RemoveAlias(p, id, alias)
        PROVE  CalmInv'
    <2> DEFINE c == Command("remove-alias", id, alias)
               file == RemoveAliasId(Stored, The(GetItemById(Stored, id)), alias)
    <2>1. SUFFICES ASSUME ~Fail(p) PROVE CalmInv'
      BY FailCalm
    <2>2. MayStart(p) /\ Edit(p, c, file) /\ GetItemById(Stored, id) # {}
      BY <1>4, <2>1, LoadedIsStored DEF RemoveAlias
    <2>3. c \in C!Command
      BY CommandIs
    <2>4. MadeBy(c, Stored, file)
      BY <2>2 DEF MadeBy, Command
    <2> HIDE DEF c, file
    <2> QED  BY <2>2, <2>3, <2>4, EditCalm
  <1>5. ASSUME NEW p \in Procs, Write(p) PROVE CalmInv'
    BY <1>5, EndCalm DEF Write, IInv
  <1>6. ASSUME NEW p \in Procs, WriteCutShort(p) PROVE CalmInv'
    BY <1>6, EndCalm DEF WriteCutShort, IInv
  <1>7. ASSUME NEW p \in Procs, Kill(p) PROVE CalmInv'
    BY <1>7, EndCalm DEF Kill, IInv
  <1>8. CASE UNCHANGED vars
    <2>1. Stored' = Stored
      BY <1>8 DEF vars, Stored, Load
    <2> QED  BY <1>8, <2>1 DEF vars, CalmInv, MadeBy
  <1> QED  BY <1>1, <1>2, <1>3, <1>4, <1>5, <1>6, <1>7, <1>8 DEF Next

LEMMA CalmInvariance == Spec => [](IInv /\ WorkInv /\ CalmInv)
  <1>1. Init => IInv /\ WorkInv /\ CalmInv
    BY InitInv, InitWork, InitCalm
  <1>2. IInv /\ WorkInv /\ CalmInv /\ [Next]_vars => (IInv /\ WorkInv /\ CalmInv)'
    BY NextInv, NextWork, NextCalm
  <1> QED  BY <1>1, <1>2, PTL DEF Spec

\* A function is the catalogue of a file if it says of each ID what its item does.
LEMMA CatalogueIs ==
  ASSUME NEW file, DistinctIds(file), NEW f, DOMAIN f = IdsOf(file),
         f = [id \in DOMAIN f |-> f[id]],
         \A n \in DOMAIN file : f[file[n].id] = Entry(file[n])
  PROVE  CatalogueOf(file) = f
  <1>1. ASSUME NEW id \in IdsOf(file)
        PROVE  Entry(file[CHOOSE n \in DOMAIN file : file[n].id = id]) = f[id]
    <2> DEFINE n == CHOOSE m \in DOMAIN file : file[m].id = id
    <2>1. n \in DOMAIN file /\ file[n].id = id
      BY DEF IdsOf
    <2> QED  BY <2>1
  <1> QED  BY <1>1 DEF CatalogueOf

LEMMA CatalogueAt ==
  ASSUME NEW file, DistinctIds(file)
  PROVE  /\ DOMAIN CatalogueOf(file) = IdsOf(file)
         /\ \A n \in DOMAIN file : CatalogueOf(file)[file[n].id] = Entry(file[n])
  <1>1. DOMAIN CatalogueOf(file) = IdsOf(file)
    BY DEF CatalogueOf
  <1>2. ASSUME NEW n \in DOMAIN file
        PROVE  CatalogueOf(file)[file[n].id] = Entry(file[n])
    <2> DEFINE m == CHOOSE k \in DOMAIN file : file[k].id = file[n].id
    <2>1. m \in DOMAIN file /\ file[m].id = file[n].id
      OBVIOUS
    <2>2. m = n
      BY <2>1 DEF DistinctIds
    <2>3. file[n].id \in IdsOf(file)
      BY DEF IdsOf
    <2> QED  BY <2>2, <2>3 DEF CatalogueOf
  <1> QED  BY <1>1, <1>2

\* To replace an item by one with its ID is to replace it in the catalogue.
LEMMA CatalogueReplaced ==
  ASSUME NEW file, DistinctIds(file), NEW n \in DOMAIN file, NEW item,
         item.id = file[n].id, file = [m \in DOMAIN file |-> file[m]]
  PROVE  CatalogueOf([file EXCEPT ![n] = item])
           = [CatalogueOf(file) EXCEPT ![item.id] = Entry(item)]
  <1> DEFINE new == [file EXCEPT ![n] = item]
             cat == CatalogueOf(file)
             now == [cat EXCEPT ![item.id] = Entry(item)]
  <1>1. DOMAIN new = DOMAIN file /\ new[n] = item
        /\ \A m \in DOMAIN file : m # n => new[m] = file[m]
    OBVIOUS
  <1>2. DistinctIds(new)
    <2> HIDE DEF new
    <2> QED  BY <1>1 DEF DistinctIds
  <1>3. IdsOf(file) = IdsOf(new)
    <2> HIDE DEF new
    <2> QED  BY <1>1 DEF IdsOf
  <1>4. ASSUME NEW m \in DOMAIN new PROVE now[new[m].id] = Entry(new[m])
    <2>1. CASE m = n
      <3>1. item.id \in DOMAIN cat
        <4>1. DOMAIN cat = IdsOf(file)
          BY CatalogueAt
        <4> HIDE DEF cat
        <4> QED  BY <4>1 DEF IdsOf
      <3> QED  BY <1>1, <2>1, <3>1
    <2>2. CASE m # n
      <3>1. new[m] = file[m] /\ m \in DOMAIN file
        BY <1>1, <2>2
      <3>2. file[m].id # item.id
        BY <2>2, <3>1 DEF DistinctIds
      <3>3. cat[file[m].id] = Entry(file[m])
        BY <3>1, CatalogueAt
      <3> QED  BY <3>1, <3>2, <3>3
    <2> QED  BY <2>1, <2>2
  <1>5. DOMAIN now = IdsOf(new) /\ now = [id \in DOMAIN now |-> now[id]]
    BY <1>3, CatalogueAt
  <1> HIDE DEF new, now
  <1>6. CatalogueOf(new) = now
    BY <1>2, <1>4, <1>5, CatalogueIs
  <1> QED  BY <1>6 DEF new, now

\* To append an item with a new ID is to add it to the catalogue.
LEMMA CatalogueAppended ==
  ASSUME NEW file \in Seq(Item), DistinctIds(file), NEW item \in Item,
         \A n \in DOMAIN file : file[n].id # item.id
  PROVE  CatalogueOf(Append(file, item))
           = [id \in DOMAIN CatalogueOf(file) \cup {item.id} |->
                IF id = item.id THEN Entry(item) ELSE CatalogueOf(file)[id]]
  <1> DEFINE new == Append(file, item)
             cat == CatalogueOf(file)
             now == [id \in DOMAIN cat \cup {item.id} |->
                       IF id = item.id THEN Entry(item) ELSE cat[id]]
  <1>1. DOMAIN new = DOMAIN file \cup {Len(file) + 1} /\ new[Len(file) + 1] = item
        /\ \A m \in DOMAIN file : new[m] = file[m]
    OBVIOUS
  <1>2. DistinctIds(new)
    <2> HIDE DEF new
    <2> QED  BY <1>1 DEF DistinctIds
  <1>3. IdsOf(file) \cup {item.id} = IdsOf(new)
    <2> HIDE DEF new
    <2> QED  BY <1>1 DEF IdsOf
  <1>4. ASSUME NEW m \in DOMAIN new PROVE now[new[m].id] = Entry(new[m])
    <2>1. CASE m \notin DOMAIN file
      BY <1>1, <2>1
    <2>2. CASE m \in DOMAIN file
      <3>1. new[m] = file[m]
        BY <1>1, <2>2
      <3>2. file[m].id # item.id
        BY <2>2
      <3>3. cat[file[m].id] = Entry(file[m])
        BY <2>2, CatalogueAt
      <3>4. file[m].id \in DOMAIN cat
        BY <2>2, CatalogueAt DEF IdsOf
      <3> QED  BY <3>1, <3>2, <3>3, <3>4
    <2> QED  BY <2>1, <2>2
  <1>5. DOMAIN now = IdsOf(new) /\ now = [id \in DOMAIN now |-> now[id]]
    BY <1>3, CatalogueAt
  <1> HIDE DEF new, now
  <1>6. CatalogueOf(new) = now
    BY <1>2, <1>4, <1>5, CatalogueIs
  <1> QED  BY <1>6 DEF new, now

\* A name is looked up in the file with the result it has in the catalogue.
LEMMA Resolved ==
  ASSUME calm, DistinctIds(Stored), NEW id
  PROVE  /\ GetItemById(Stored, id) = {} => C!Resolve(id) = {}
         /\ GetItemById(Stored, id) # {} =>
              C!Resolve(id) = {Stored[The(GetItemById(Stored, id))].id}
  <1> DEFINE cat == CatalogueOf(Stored)
             exact == ItemsWithId(Stored, id)
             alias == ItemsWithAlias(Stored, id)
             owners == {o \in DOMAIN cat : id \in cat[o].alias_ids}
  <1>1. CalmCatalogue = cat
    BY DEF CalmCatalogue, Catalogue, CatalogueOf, IdsOf, Entry
  <1>2. C!Resolve(id) = IF id \in DOMAIN cat THEN {id}
                        ELSE IF \E o \in owners : owners = {o} THEN owners ELSE {}
    BY <1>1 DEF C!Resolve
  <1>3. DOMAIN cat = IdsOf(Stored)
    BY CatalogueAt
  <1>4. CASE exact # {}
    <2>1. PICK n \in DOMAIN Stored : Stored[n].id = id
      BY <1>4 DEF ItemsWithId
    <2>2. exact = {n}
      BY <2>1 DEF ItemsWithId, DistinctIds
    <2>3. GetItemById(Stored, id) = {n}
      BY <2>2 DEF GetItemById, IsOne
    <2>4. C!Resolve(id) = {id}
      BY <1>2, <1>3, <2>1 DEF IdsOf
    <2> QED  BY <2>1, <2>3, <2>4, TheOne
  <1>5. CASE exact = {}
    <2>1. id \notin DOMAIN cat
      BY <1>3, <1>5 DEF IdsOf, ItemsWithId
    <2>2. \A n \in DOMAIN Stored : cat[Stored[n].id].alias_ids = Stored[n].alias_ids
      <3>1. \A n \in DOMAIN Stored : cat[Stored[n].id] = Entry(Stored[n])
        BY CatalogueAt
      <3> HIDE DEF cat, exact, alias, owners
      <3>2. \A item : Entry(item).alias_ids = item.alias_ids
        BY DEF Entry
      <3> QED  BY <3>1, <3>2
    <2>3. owners = {Stored[n].id : n \in alias}
      BY <1>3, <2>2 DEF IdsOf, ItemsWithAlias
    <2>4. C!Resolve(id) = IF \E o \in owners : owners = {o} THEN owners ELSE {}
      BY <1>2, <2>1
    <2>5. GetItemById(Stored, id) = IF IsOne(alias) THEN alias ELSE {}
      BY <1>5 DEF GetItemById
    <2>6. alias \subseteq DOMAIN Stored
      BY DEF ItemsWithAlias
    <2> HIDE DEF owners, alias, exact, cat
    <2>7. CASE IsOne(alias)
      <3>1. PICK n \in alias : alias = {n}
        BY <2>7 DEF IsOne
      <3>2. owners = {Stored[n].id}
        BY <2>3, <3>1
      <3>3. C!Resolve(id) = {Stored[n].id}
        BY <2>4, <3>2
      <3> QED  BY <2>5, <2>7, <3>1, <3>3, TheOne
    <2>8. CASE ~IsOne(alias)
      <3>1. ASSUME NEW o \in owners, owners = {o} PROVE FALSE
        <4>1. PICK n \in alias : Stored[n].id = o
          BY <2>3
        <4>2. \A m \in alias : Stored[m].id = o
          BY <2>3, <3>1
        <4>3. \A m \in alias : m = n
          BY <2>6, <4>1, <4>2 DEF DistinctIds
        <4> QED  BY <2>8, <4>1, <4>3 DEF IsOne
      <3> QED  BY <2>4, <2>5, <2>8, <3>1
    <2> QED  BY <2>7, <2>8
  <1> QED  BY <1>4, <1>5

\* The edits of the catalogue's commands.
Signed(cat, o, blob)     == [cat EXCEPT ![o].blobs = Append(@, blob)]
Aliased(cat, o, alias)   == [cat EXCEPT ![o].alias_ids = @ \cup {alias}]
Unaliased(cat, o, alias) == [cat EXCEPT ![o].alias_ids = @ \ {alias}]

SignedNew(cat, id, blob) ==
  [o \in DOMAIN cat \cup {id} |->
     IF o = id THEN [alias_ids |-> {}, blobs |-> <<blob>>] ELSE cat[o]]

\* What an edit of an item is in the catalogue.
LEMMA EditsInCatalogue ==
  ASSUME NEW file, Sound(file), NEW n \in DOMAIN file, NEW arg
  PROVE  /\ CatalogueOf(AddBlob(file, n, arg)) = Signed(CatalogueOf(file), file[n].id, arg)
         /\ CatalogueOf(AddAliasId(file, n, arg))
              = Aliased(CatalogueOf(file), file[n].id, arg)
         /\ CatalogueOf(RemoveAliasId(file, n, arg))
              = Unaliased(CatalogueOf(file), file[n].id, arg)
  <1> DEFINE cat == CatalogueOf(file)
             id == file[n].id
             signed == [file[n] EXCEPT !.blobs = Append(@, arg)]
             added == [file[n] EXCEPT !.alias_ids = @ \cup {arg}]
             removed == [file[n] EXCEPT !.alias_ids = @ \ {arg}]
  <1>1. file[n] \in Item /\ DistinctIds(file) /\ file = [m \in DOMAIN file |-> file[m]]
    BY DEF Sound, SoundItem
  <1>2. /\ signed.id = id /\ signed.alias_ids = file[n].alias_ids
        /\ signed.blobs = Append(file[n].blobs, arg)
        /\ added.id = id /\ added.alias_ids = file[n].alias_ids \cup {arg}
        /\ added.blobs = file[n].blobs
        /\ removed.id = id /\ removed.alias_ids = file[n].alias_ids \ {arg}
        /\ removed.blobs = file[n].blobs
    BY <1>1 DEF Item
  <1>3. /\ signed.id = id /\ added.id = id /\ removed.id = id
        /\ Entry(signed) = [Entry(file[n]) EXCEPT !.blobs = Append(@, arg)]
        /\ Entry(added) = [Entry(file[n]) EXCEPT !.alias_ids = @ \cup {arg}]
        /\ Entry(removed) = [Entry(file[n]) EXCEPT !.alias_ids = @ \ {arg}]
    <2> HIDE DEF signed, added, removed
    <2> DEFINE e(a, b) == [alias_ids |-> a, blobs |-> b]
    <2>1. \A a, b, c : [e(a, b) EXCEPT !.blobs = c] = e(a, c)
      OBVIOUS
    <2>2. \A a, b, c : [e(a, b) EXCEPT !.alias_ids = c] = e(c, b)
      OBVIOUS
    <2>3. \A a, b : e(a, b).alias_ids = a /\ e(a, b).blobs = b
      OBVIOUS
    <2>4. \A item : Entry(item) = e(item.alias_ids, item.blobs)
      BY DEF Entry
    <2> HIDE DEF e
    <2>5. Entry(signed) = [Entry(file[n]) EXCEPT !.blobs = Append(@, arg)]
      BY <1>2, <2>1, <2>3, <2>4
    <2>6. Entry(added) = [Entry(file[n]) EXCEPT !.alias_ids = @ \cup {arg}]
      BY <1>2, <2>2, <2>3, <2>4
    <2>7. Entry(removed) = [Entry(file[n]) EXCEPT !.alias_ids = @ \ {arg}]
      BY <1>2, <2>2, <2>3, <2>4
    <2> QED  BY <1>2, <2>5, <2>6, <2>7
  <1>4. cat[id] = Entry(file[n])
    BY <1>1, CatalogueAt
  <1>5. /\ AddBlob(file, n, arg) = [file EXCEPT ![n] = signed]
        /\ AddAliasId(file, n, arg) = [file EXCEPT ![n] = added]
        /\ RemoveAliasId(file, n, arg) = [file EXCEPT ![n] = removed]
    BY DEF AddBlob, AddAliasId, RemoveAliasId
  <1> HIDE DEF signed, added, removed, cat, id
  <1>6. ASSUME NEW item, item.id = id
        PROVE  CatalogueOf([file EXCEPT ![n] = item]) = [cat EXCEPT ![id] = Entry(item)]
    BY <1>1, <1>6, CatalogueReplaced DEF cat, id
  <1>7. CatalogueOf(AddBlob(file, n, arg)) = [cat EXCEPT ![id] = Entry(signed)]
    BY <1>3, <1>5, <1>6
  <1>8. CatalogueOf(AddAliasId(file, n, arg)) = [cat EXCEPT ![id] = Entry(added)]
    BY <1>3, <1>5, <1>6
  <1>9. CatalogueOf(RemoveAliasId(file, n, arg)) = [cat EXCEPT ![id] = Entry(removed)]
    BY <1>3, <1>5, <1>6
  <1>10. /\ [cat EXCEPT ![id] = Entry(signed)] = [cat EXCEPT ![id].blobs = Append(@, arg)]
         /\ [cat EXCEPT ![id] = Entry(added)] = [cat EXCEPT ![id].alias_ids = @ \cup {arg}]
         /\ [cat EXCEPT ![id] = Entry(removed)] = [cat EXCEPT ![id].alias_ids = @ \ {arg}]
    BY <1>3, <1>4
  <1> QED  BY <1>7, <1>8, <1>9, <1>10 DEF cat, id, Signed, Aliased, Unaliased

\* A blob added to a new item, in the catalogue.
LEMMA NewItemInCatalogue ==
  ASSUME NEW file, Sound(file), NEW id \in Ids, NEW blob \in Blob,
         GetItemById(file, id) = {}
  PROVE  CatalogueOf(AddBlob(WithItem(file, id), ItemFor(file, id), blob))
           = SignedNew(CatalogueOf(file), id, blob)
  <1> DEFINE first == [id |-> id, alias_ids |-> {}, blobs |-> <<>>]
             item == [id |-> id, alias_ids |-> {}, blobs |-> <<blob>>]
  <1>1. file \in Seq(Item) /\ DistinctIds(file) /\ \A n \in DOMAIN file : file[n].id # id
    BY Lookup DEF Sound
  <1>2. first \in Item /\ item \in Item
    BY DEF Item
  <1>3. WithItem(file, id) = Append(file, first) /\ ItemFor(file, id) = Len(file) + 1
    BY DEF WithItem, ItemFor, AddItem
  <1>4. Append(file, first)[Len(file) + 1] = first
    BY <1>1
  <1>5. [first EXCEPT !.blobs = Append(@, blob)] = item
    <2>1. Append(<<>>, blob) = <<blob>>
      OBVIOUS
    <2>2. first.blobs = <<>>
      OBVIOUS
    <2>3. [first EXCEPT !.blobs = <<blob>>] = item
      <3>1. [first EXCEPT !.blobs = <<blob>>] \in Item
        BY <1>2 DEF Item
      <3>2. \A x, y \in Item :
              x.id = y.id /\ x.alias_ids = y.alias_ids /\ x.blobs = y.blobs => x = y
        BY DEF Item
      <3> QED  BY <1>2, <3>1, <3>2
    <2> QED  BY <2>1, <2>2, <2>3
  <1>6. AddBlob(WithItem(file, id), ItemFor(file, id), blob)
          = [Append(file, first) EXCEPT ![Len(file) + 1] = item]
    BY <1>3, <1>4, <1>5 DEF AddBlob
  <1>7. item.id = id /\ Entry(item) = [alias_ids |-> {}, blobs |-> <<blob>>]
    BY DEF Entry
  <1> HIDE DEF first, item
  <1>8. AddBlob(WithItem(file, id), ItemFor(file, id), blob) = Append(file, item)
    BY <1>1, <1>2, <1>6, LastReplaced
  <1>9. CatalogueOf(Append(file, item))
          = [o \in DOMAIN CatalogueOf(file) \cup {item.id} |->
               IF o = item.id THEN Entry(item) ELSE CatalogueOf(file)[o]]
    BY <1>1, <1>2, <1>7, CatalogueAppended
  <1> QED  BY <1>7, <1>8, <1>9 DEF SignedNew

LEMMA CalmCatalogueIs == calm => CalmCatalogue = CatalogueOf(Stored)
  BY DEF CalmCatalogue, Catalogue, CatalogueOf, IdsOf, Entry

\* The commands at work, if they are calm.
LEMMA RequestIs ==
  ASSUME WorkInv, CopyInv, CalmInv, calm
  PROVE  /\ \A p \in Procs : pc[p] = "export" => CalmRequest = command[p]
         /\ (\A p \in Procs : pc[p] = "idle") => CalmRequest = {}
  <1>1. CalmRequest = UNION {command[p] : p \in Procs}
    BY DEF CalmRequest
  <1>2. \A p \in Procs : pc[p] # "export" => command[p] = {}
    BY DEF WorkInv, CopyInv
  <1>3. ASSUME NEW p \in Procs, pc[p] = "export" PROVE CalmRequest = command[p]
    <2>1. \A q \in Procs : q # p => command[q] = {}
      BY <1>2, <1>3 DEF CalmInv
    <2> QED  BY <1>1, <2>1
  <1>4. ASSUME \A p \in Procs : pc[p] = "idle" PROVE CalmRequest = {}
    BY <1>1, <1>2, <1>4
  <1> QED  BY <1>3, <1>4

\* Writing the file is the one step in which the catalogue does what was asked.
LEMMA WritePerforms ==
  ASSUME IInv, WorkInv, CalmInv, WorkInv', CopyInv', CalmInv', calm,
         NEW p \in Procs, Write(p)
  PROVE  \E c \in CalmRequest : C!Perform(c)
  <1>1. PICK c \in C!Command : command[p] = {c} /\ MadeBy(c, Stored, copy[p])
    BY DEF CalmInv, Write
  <1>2. CalmRequest = {c}
    BY <1>1, RequestIs DEF IInv, Write
  <1>3. CalmRequest' = {}
    <2>1. calm' /\ \A q \in Procs : pc'[q] = "idle"
      BY EndCalm DEF Write, IInv
    <2>2. \A q \in Procs : command'[q] = {}
      BY <2>1 DEF WorkInv
    <2> QED  BY <2>1, <2>2 DEF CalmRequest
  <1> DEFINE cat == CatalogueOf(Stored)
             found == GetItemById(Stored, c.id)
             n == The(found)
  <1>4. Sound(Stored) /\ DistinctIds(Stored)
    BY StoredIsSound DEF Sound
  <1>5. CalmCatalogue = cat
    BY CalmCatalogueIs
  <1>6. CalmCatalogue' = CatalogueOf(copy[p])
    <2>1. CalmCatalogue' = CatalogueOf(Stored)'
      BY DEF CalmCatalogue, Catalogue, CatalogueOf, IdsOf, Entry, Write
    <2>2. CatalogueOf(Stored)' = CatalogueOf(Stored')
      BY DEF CatalogueOf, IdsOf, Entry
    <2>3. unclean = 0
      BY DEF CalmInv
    <2> QED  BY <2>1, <2>2, <2>3, WriteStores
  <1>7. found = {} => C!Resolve(c.id) = {}
    BY <1>4, Resolved
  <1>8. found # {} => C!Resolve(c.id) = {Stored[n].id} /\ n \in DOMAIN Stored
    BY <1>4, Resolved, Lookup
  <1> HIDE DEF cat, found, n
  <1>9. ASSUME c.op = "sign" PROVE C!Sign(c.id, c.arg)
    <2>1. c.id \in Ids /\ c.arg \in Blob
      BY <1>9 DEF C!Command
    <2>2. copy[p] = AddBlob(WithItem(Stored, c.id), ItemFor(Stored, c.id), c.arg)
      BY <1>1, <1>9 DEF MadeBy
    <2>3. CASE found = {}
      <3>1. CatalogueOf(copy[p]) = SignedNew(cat, c.id, c.arg)
        BY <1>4, <2>1, <2>2, <2>3, NewItemInCatalogue DEF cat, found
      <3> QED  BY <1>5, <1>6, <1>7, <2>3, <3>1 DEF C!Sign, SignedNew
    <2>4. CASE found # {}
      <3>1. copy[p] = AddBlob(Stored, n, c.arg)
        BY <2>2, <2>4 DEF WithItem, ItemFor, found, n
      <3>2. CatalogueOf(copy[p]) = Signed(cat, Stored[n].id, c.arg)
        BY <1>4, <1>8, <2>4, <3>1, EditsInCatalogue DEF cat
      <3> QED  BY <1>5, <1>6, <1>8, <2>4, <3>2 DEF C!Sign, Signed
    <2> QED  BY <2>3, <2>4
  <1>10. ASSUME c.op = "add-alias" PROVE C!AddAlias(c.id, c.arg)
    <2>1. found # {} /\ copy[p] = AddAliasId(Stored, n, c.arg)
      BY <1>1, <1>10 DEF MadeBy, found, n
    <2>2. CatalogueOf(copy[p]) = Aliased(cat, Stored[n].id, c.arg)
      BY <1>4, <1>8, <2>1, EditsInCatalogue DEF cat
    <2> QED  BY <1>5, <1>6, <1>8, <2>1, <2>2 DEF C!AddAlias, Aliased
  <1>11. ASSUME c.op = "remove-alias" PROVE C!RemoveAlias(c.id, c.arg)
    <2>1. found # {} /\ copy[p] = RemoveAliasId(Stored, n, c.arg)
      BY <1>1, <1>11 DEF MadeBy, found, n
    <2>2. CatalogueOf(copy[p]) = Unaliased(cat, Stored[n].id, c.arg)
      BY <1>4, <1>8, <2>1, EditsInCatalogue DEF cat
    <2> QED  BY <1>5, <1>6, <1>8, <2>1, <2>2 DEF C!RemoveAlias, Unaliased
  <1>12. c.op \in {"sign", "add-alias", "remove-alias"}
    BY <1>1 DEF MadeBy
  <1> QED  BY <1>2, <1>3, <1>9, <1>10, <1>11, <1>12 DEF C!Perform

LEMMA InitRefines == Init => C!Init
  <1> SUFFICES ASSUME Init PROVE C!Init
    OBVIOUS
  <1>1. Stored = <<>> /\ DOMAIN Stored = {}
    BY DEF Init, Stored, Load
  <1>2. CalmRequest = {}
    BY DEF Init, CalmRequest
  <1>3. Catalogue = [id \in {} |-> <<>>]
    BY <1>1 DEF Catalogue
  <1>4. CalmCatalogue = [id \in {} |-> <<>>]
    BY <1>3 DEF CalmCatalogue
  <1> QED  BY <1>2, <1>4 DEF C!Init

\* Steps of commands that are not calm, and those that change nothing, are none.
LEMMA StutterRefines ==
  ASSUME UNCHANGED calm, calm => UNCHANGED <<disk, command>>
  PROVE  UNCHANGED <<CalmCatalogue, CalmRequest>>
  <1>1. CASE ~calm
    BY <1>1 DEF CalmCatalogue, CalmRequest
  <1>2. CASE calm
    BY <1>2 DEF CalmCatalogue, CalmRequest, Catalogue, Stored, Load
  <1> QED  BY <1>1, <1>2

LEMMA EditRefines ==
  ASSUME IInv, WorkInv, CalmInv, CopyInv', WorkInv', CalmInv',
         NEW p \in Procs, NEW c \in C!Command, NEW file, MayStart(p), Edit(p, c, file)
  PROVE  C!Ask \/ UNCHANGED <<CalmCatalogue, CalmRequest>>
  <1>1. CASE ~calm
    BY <1>1, StutterRefines DEF Edit
  <1>2. CASE calm
    <2>1. CalmRequest = {}
      BY <1>2, RequestIs DEF MayStart, IInv
    <2>2. command' = [command EXCEPT ![p] = {c}] /\ \A q \in Procs : command[q] = {}
      BY <1>2 DEF Edit, MayStart, WorkInv
    <2>3. CalmRequest' = {c}
      <3>1. command'[p] = {c} /\ \A q \in Procs : q # p => command'[q] = {}
        BY <2>2 DEF WorkInv
      <3> QED  BY <1>2, <3>1 DEF CalmRequest, Edit
    <2>4. UNCHANGED CalmCatalogue
      BY DEF Edit, CalmCatalogue, Catalogue, Stored, Load
    <2> QED  BY <2>1, <2>3, <2>4 DEF C!Ask
  <1> QED  BY <1>1, <1>2

LEMMA KillRefines ==
  ASSUME IInv, WorkInv, CalmInv, CopyInv', WorkInv', CalmInv', NEW p \in Procs, Kill(p)
  PROVE  C!GiveUp \/ UNCHANGED <<CalmCatalogue, CalmRequest>>
  <1>1. CASE ~calm
    BY <1>1, StutterRefines DEF Kill
  <1>2. CASE calm
    <2>1. \A q \in Procs : pc'[q] = "idle"
      BY <1>2, EndCalm DEF Kill, IInv
    <2>2. \A q \in Procs : command'[q] = {}
      BY <2>1 DEF WorkInv
    <2>3. CalmRequest' = {}
      BY <2>2 DEF CalmRequest
    <2>4. Load' = Load
      BY DEF Kill, Load
    <2>5. UNCHANGED CalmCatalogue
      BY <2>4 DEF Kill, CalmCatalogue, Catalogue, Stored
    <2> QED  BY <2>3, <2>5 DEF C!GiveUp
  <1> QED  BY <1>1, <1>2

LEMMA NextRefines ==
  ASSUME IInv, WorkInv, CalmInv, [Next]_vars
  PROVE  [C!Next]_<<CalmCatalogue, CalmRequest>>
  <1>1. IInv' /\ WorkInv' /\ CalmInv' /\ CopyInv'
    BY NextInv, NextWork, NextCalm DEF IInv
  <1>2. ASSUME NEW p \in Procs, Fail(p)
        PROVE  UNCHANGED <<CalmCatalogue, CalmRequest>>
    BY <1>2, StutterRefines DEF Fail
  <1>3. ASSUME NEW p \in Procs, NEW id \in Ids, NEW blob \in Files, ImportFile(p, id, blob)
        PROVE  C!Ask \/ UNCHANGED <<CalmCatalogue, CalmRequest>>
    <2>1. Command("sign", id, blob) \in C!Command
      BY StoreAssumption, CommandIs
    <2>2. Fail(p) \/ (MayStart(p) /\ \E file : Edit(p, Command("sign", id, blob), file))
      BY <1>3 DEF ImportFile
    <2> QED  BY <1>1, <1>2, <2>1, <2>2, EditRefines
  <1>4. ASSUME NEW p \in Procs, NEW id \in Ids, NEW blob \in NewBlobs, Sign(p, id, blob)
        PROVE  C!Ask \/ UNCHANGED <<CalmCatalogue, CalmRequest>>
    <2>1. Command("sign", id, blob) \in C!Command
      BY StoreAssumption, CommandIs
    <2>2. Fail(p) \/ (MayStart(p) /\ \E file : Edit(p, Command("sign", id, blob), file))
      BY <1>4 DEF Sign
    <2> QED  BY <1>1, <1>2, <2>1, <2>2, EditRefines
  <1>5. ASSUME NEW p \in Procs, NEW id \in Ids, NEW alias \in Ids, AddAlias(p, id, alias)
        PROVE  C!Ask \/ UNCHANGED <<CalmCatalogue, CalmRequest>>
    <2>1. \/ Fail(p)
          \/ MayStart(p) /\ \E file : Edit(p, Command("add-alias", id, alias), file)
      BY <1>5 DEF AddAlias
    <2> QED  BY <1>1, <1>2, <2>1, CommandIs, EditRefines
  <1>6. ASSUME NEW p \in Procs, NEW id \in Ids, NEW alias \in Ids, RemoveAlias(p, id, alias)
        PROVE  C!Ask \/ UNCHANGED <<CalmCatalogue, CalmRequest>>
    <2>1. \/ Fail(p)
          \/ MayStart(p) /\ \E file : Edit(p, Command("remove-alias", id, alias), file)
      BY <1>6 DEF RemoveAlias
    <2> QED  BY <1>1, <1>2, <2>1, CommandIs, EditRefines
  <1>7. ASSUME NEW p \in Procs, Write(p)
        PROVE  (\E c \in CalmRequest : C!Perform(c))
                 \/ UNCHANGED <<CalmCatalogue, CalmRequest>>
    BY <1>1, <1>7, WritePerforms, StutterRefines DEF Write
  <1>8. ASSUME NEW p \in Procs, WriteCutShort(p)
        PROVE  UNCHANGED <<CalmCatalogue, CalmRequest>>
    BY <1>8, StutterRefines DEF WriteCutShort
  <1>9. ASSUME NEW p \in Procs, Kill(p)
        PROVE  C!GiveUp \/ UNCHANGED <<CalmCatalogue, CalmRequest>>
    BY <1>1, <1>9, KillRefines
  <1>10. CASE UNCHANGED vars
    BY <1>10, StutterRefines DEF vars
  <1> QED  BY <1>3, <1>4, <1>5, <1>6, <1>7, <1>8, <1>9, <1>10 DEF Next, C!Next

\* Commands that are given clean IDs and files and run one after the other on a disk
\* that has room change the mapping from IDs to items in one step each, as
\* JcatCatalogue says, even if they are killed.
THEOREM CalmIsCatalogue == Spec => RefinesCatalogue
  <1>1. Init => C!Init
    BY InitRefines
  <1>2. IInv /\ WorkInv /\ CalmInv /\ [Next]_vars
          => [C!Next]_<<CalmCatalogue, CalmRequest>>
    BY NextRefines
  <1> QED  BY <1>1, <1>2, CalmInvariance, PTL DEF Spec, RefinesCatalogue, C!Spec
=============================================================================
