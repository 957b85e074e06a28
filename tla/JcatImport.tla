----------------------------- MODULE JcatImport -----------------------------
(***************************************************************************)
(* A JcatFile object in the hands of a program: what the program adds      *)
(* (jcat_item_add_blob, ...), what it imports with jcat_file_import_json,  *)
(* documents written by anybody included, and what it exports.  JcatJson   *)
(* has the same operations for files that only jcat-tool writes, without   *)
(* the bytes, the numbers and the errors that this module is about.        *)
(*                                                                         *)
(* An optional JSON member is a set of at most one value, as in JcatJson.  *)
(* Kinds, flags, targets and versions are numbers below Limit (2^32 in C). *)
(* Data is a sequence of bytes, of which NUL ends a C string and xFF is    *)
(* not UTF-8.  A JSON string that holds data says how it was encoded.      *)
(***************************************************************************)
EXTENDS Integers, SequencesExt

CONSTANTS
  Ids,          \* item IDs, aliases, AppStream IDs
  NoId,         \* the empty string
  Other,        \* a JSON value of another type than what is asked for, null included
  NotJson,      \* a document json-glib does not parse
  Limit,        \* above every JcatBlobKind, JcatBlobFlags and guint32
  NullIfEmpty,  \* whether GLib keeps no buffer for empty data
  NewBlobs,     \* the blobs the program makes, without a time
  Documents,    \* the documents it is given
  MaxItems, MaxBlobs, MaxTime   \* bounds on items, blobs of an item, the clock

\* Of the bytes that are neither of these, one stands for all.
Byte == {"a", "NUL", "xFF"}

\* Of a JcatFile.  Aliases are distinct, which add_alias_id sees to.
Distinct(seq) == \A m, n \in DOMAIN seq : seq[m] = seq[n] => m = n
Optional(S)   == {one \in SUBSET S : \A x, y \in one : x = y}

Blob == [kind : 0..Limit - 1, flags : 0..Limit - 1, target : 0..Limit - 1,
         timestamp : Nat, appstream_id : Optional(Ids \cup {NoId}), data : Seq(Byte)]
Item == [id : Ids, alias_ids : {ids \in Seq(Ids \cup {NoId}) : Distinct(ids)},
         blobs : Seq(Blob)]
File == [version : (0..Limit - 1) \X (0..Limit - 1), items : Seq(Item)]

\* Of a document.  The text of a string has no NUL, which json-glib cuts it at.
Json(S) == Optional(S \cup {Other})

JsonId     == Ids \cup {NoId}
JsonString == [encoding : {"text"}, bytes : Seq(Byte \ {"NUL", "xFF"})]
                \cup [encoding : {"base64"}, bytes : Seq(Byte)]
JsonBlob   == [Kind : Json(Int), Flags : Json(Int), Target : Json(Int), Timestamp : Json(Int),
               AppstreamId : Json(JsonId), Data : Json(JsonString)]
JsonItem   == [Id : Json(JsonId), AliasIds : Json(Seq(JsonId \cup {Other})),
               Blobs : Json(Seq(JsonBlob \cup {Other}))]
JsonFile   == [JcatVersionMajor : Json(Int), JcatVersionMinor : Json(Int),
               Items : Json(Seq(JsonItem \cup {Other}))]

ASSUME ImportAssumption ==
  /\ Limit \in Nat \ {0, 1} /\ NullIfEmpty \in BOOLEAN
  /\ MaxItems \in Nat /\ MaxBlobs \in Nat /\ MaxTime \in Nat \ {0}
  /\ NoId \notin Ids /\ Other \notin Int \cup JsonId \cup JsonString \cup JsonBlob \cup JsonItem
  /\ Other \notin Seq(JsonId) \cup Seq(JsonBlob) \cup Seq(JsonItem)
  /\ NotJson \notin JsonFile /\ Documents \subseteq JsonFile \cup {NotJson}
  /\ \A blob \in NewBlobs : blob \in Blob /\ blob.timestamp = 0

VARIABLES
  file,    \* the JcatFile: its version and its items
  now,     \* the wall clock, in seconds
  given,   \* the document the last step has imported into file, a set of at most one
  ok       \* what the last import returned

vars == <<file, now, given, ok>>

Cut(number) == number % Limit
The(one) == CHOOSE x \in one : TRUE

NewFile == [version |-> <<0, 1>>, items |-> <<>>]

Init ==
  /\ file = NewFile
  /\ now = 1
  /\ given = {}
  /\ ok = TRUE

-----------------------------------------------------------------------------
(* jcat_blob_import.  A value of another type reads as the number 0, but is  *)
(* no string (json-glib).                                                    *)

Number(value) == IF value = Other THEN 0 ELSE value
Numbers(member) == {Number(value) : value \in member}

IsUtf8(flags) == flags % 2 = 1

\* What base64 decoding makes of other text, or text of base64, is not followed up.
Misread == <<"a", "a">>

Decode(flags, string) ==
  IF IsUtf8(flags) <=> string.encoding = "text" THEN string.bytes ELSE Misread

(* A mutation of BlobIsValid: the target may be negative. *)
BlobIsValidButTarget(json) ==
  /\ json # Other
  /\ json.Kind # {} /\ json.Data # {} /\ json.Flags # {}
  /\ \A n \in Numbers(json.Kind) \cup Numbers(json.Flags) \cup Numbers(json.Timestamp) : n >= 0
  /\ Other \notin json.AppstreamId \cup json.Data

BlobIsValid(json) ==
  /\ json # Other
  /\ json.Kind # {} /\ json.Data # {} /\ json.Flags # {}
  /\ \A n \in Numbers(json.Kind) \cup Numbers(json.Flags)
              \cup Numbers(json.Timestamp) \cup Numbers(json.Target) : n >= 0
  /\ Other \notin json.AppstreamId \cup json.Data

\* A blob that has no Timestamp keeps the one jcat_blob_init has given it.
ImportBlob(json, time) ==
  LET flags == Cut(Number(The(json.Flags)))
  IN  [kind |-> Cut(Number(The(json.Kind))), flags |-> flags,
       target |-> IF json.Target = {} THEN 0 ELSE Cut(Number(The(json.Target))),
       timestamp |-> IF json.Timestamp = {} THEN time ELSE Number(The(json.Timestamp)),
       appstream_id |-> json.AppstreamId,
       data |-> Decode(flags, The(json.Data))]

-----------------------------------------------------------------------------
(* jcat_item_import *)

\* jcat_item_add_alias_id
AddAliasId(aliases, id) == IF Contains(aliases, id) THEN aliases ELSE Append(aliases, id)

AddAliasIds(ids) ==
  LET added[n \in 0..Len(ids)] == IF n = 0 THEN <<>> ELSE AddAliasId(added[n - 1], ids[n])
  IN  added[Len(ids)]

ItemIsValid(json) ==
  /\ json # Other
  /\ json.Id # {} /\ json.Id \cap {Other, NoId} = {}
  /\ json.Blobs # {} /\ Other \notin json.Blobs
  /\ \A n \in DOMAIN The(json.Blobs) : BlobIsValid(The(json.Blobs)[n])
  /\ Other \notin json.AliasIds
  /\ \A aliases \in json.AliasIds : ~Contains(aliases, Other)

ImportItem(json, time) ==
  [id |-> The(json.Id),
   alias_ids |-> IF json.AliasIds = {} THEN <<>> ELSE AddAliasIds(The(json.AliasIds)),
   blobs |-> [n \in DOMAIN The(json.Blobs) |-> ImportBlob(The(json.Blobs)[n], time)]]

-----------------------------------------------------------------------------
(* jcat_file_import_parser, into the file f: the items before the first one  *)
(* that is not valid are added.                                              *)

HasHead(json) ==
  json.JcatVersionMajor # {} /\ json.JcatVersionMinor # {} /\ json.Items # {}

ValidItems(elements) ==
  LET bad == {n \in DOMAIN elements : ~ItemIsValid(elements[n])}
  IN  IF bad = {} THEN elements ELSE SubSeq(elements, 1, Min(bad) - 1)

(* A mutation of Import: an import that fails half way starts the file anew. *)
ImportClears(json, f, time) ==
  IF json = NotJson \/ ~HasHead(json) THEN [ok |-> FALSE, file |-> f]
  ELSE LET version == <<Cut(Number(The(json.JcatVersionMajor))),
                        Cut(Number(The(json.JcatVersionMinor)))>>
           elements == The(json.Items)
       IN  IF elements = Other
           THEN [ok |-> FALSE, file |-> [f EXCEPT !.version = version]]
           ELSE LET valid == ValidItems(elements)
                    items == [n \in DOMAIN valid |-> ImportItem(valid[n], time)]
                IN  [ok |-> valid = elements,
                     file |-> [version |-> version,
                               items |-> IF valid = elements THEN f.items \o items ELSE items]]

Import(json, f, time) ==
  IF json = NotJson \/ ~HasHead(json) THEN [ok |-> FALSE, file |-> f]
  ELSE LET version == <<Cut(Number(The(json.JcatVersionMajor))),
                        Cut(Number(The(json.JcatVersionMinor)))>>
           elements == The(json.Items)
       IN  IF elements = Other
           THEN [ok |-> FALSE, file |-> [f EXCEPT !.version = version]]
           ELSE LET valid == ValidItems(elements)
                IN  [ok |-> valid = elements,
                     file |-> [version |-> version,
                               items |-> f.items \o
                                 [n \in DOMAIN valid |-> ImportItem(valid[n], time)]]]

-----------------------------------------------------------------------------
(* jcat_file_export_builder, jcat_item_export, jcat_blob_export *)

\* g_strndup, of text that may have a NUL in it.
CutAtNul(bytes) ==
  LET nuls == {n \in DOMAIN bytes : bytes[n] = "NUL"}
  IN  IF nuls = {} THEN bytes ELSE SubSeq(bytes, 1, Min(nuls) - 1)

\* jcat_blob_get_data_as_string; a NULL of it becomes null.
Encode(blob) ==
  IF ~IsUtf8(blob.flags) THEN [encoding |-> "base64", bytes |-> blob.data]
  ELSE IF blob.data = <<>> /\ NullIfEmpty THEN Other
  ELSE [encoding |-> "text", bytes |-> CutAtNul(blob.data)]

(* A mutation of ExportBlob: the target is not written. *)
ExportBlobWithoutTarget(blob, no_timestamp) ==
  [Kind |-> {blob.kind}, Target |-> {}, Flags |-> {blob.flags},
   AppstreamId |-> blob.appstream_id,
   Timestamp |-> IF blob.timestamp > 0 /\ ~no_timestamp THEN {blob.timestamp} ELSE {},
   Data |-> {Encode(blob)}]

ExportBlob(blob, no_timestamp) ==
  [Kind |-> {blob.kind},
   Target |-> IF blob.target = 0 THEN {} ELSE {blob.target},
   Flags |-> {blob.flags},
   AppstreamId |-> blob.appstream_id,
   Timestamp |-> IF blob.timestamp > 0 /\ ~no_timestamp THEN {blob.timestamp} ELSE {},
   Data |-> {Encode(blob)}]

Member(seq) == IF seq = <<>> THEN {} ELSE {seq}

ExportItem(item, no_timestamp) ==
  [Id |-> {item.id}, AliasIds |-> Member(item.alias_ids),
   Blobs |-> Member([n \in DOMAIN item.blobs |-> ExportBlob(item.blobs[n], no_timestamp)])]

\* Text that is not UTF-8 is written as it is, and then the document is not JSON.
TextIsUtf8(blob) == IsUtf8(blob.flags) => ~Contains(CutAtNul(blob.data), "xFF")

Export(f, no_timestamp) ==
  IF \E n \in DOMAIN f.items : \E k \in DOMAIN f.items[n].blobs :
       ~TextIsUtf8(f.items[n].blobs[k])
  THEN NotJson
  ELSE [JcatVersionMajor |-> {f.version[1]}, JcatVersionMinor |-> {f.version[2]},
        Items |-> Member([n \in DOMAIN f.items |-> ExportItem(f.items[n], no_timestamp)])]

-----------------------------------------------------------------------------
(* The program. *)

Fits(f) ==
  Len(f.items) <= MaxItems /\ \A n \in DOMAIN f.items : Len(f.items[n].blobs) <= MaxBlobs

\* jcat_file_import_json, jcat_file_import_stream
ImportJson(json) ==
  LET result == Import(json, file, now)
  IN  /\ Fits(result.file)
      /\ file' = result.file
      /\ ok' = result.ok
  /\ given' = {json}
  /\ UNCHANGED now

\* The file is exported, and another program, or this one later, imports it.
Reload(no_timestamp) ==
  LET result == Import(Export(file, no_timestamp), NewFile, now)
  IN  /\ result.ok
      /\ file' = result.file
  /\ given' = {}
  /\ ok' = TRUE
  /\ UNCHANGED now

\* The object is dropped for a new one.
Forget ==
  /\ file' = NewFile
  /\ given' = {}
  /\ ok' = TRUE
  /\ UNCHANGED now

Edit(items) ==
  /\ file' = [file EXCEPT !.items = items]
  /\ Fits(file')
  /\ given' = {}
  /\ ok' = TRUE
  /\ UNCHANGED now

\* jcat_item_new, jcat_file_add_item
AddItem(id) == Edit(Append(file.items, [id |-> id, alias_ids |-> <<>>, blobs |-> <<>>]))

\* jcat_blob_new_full, jcat_blob_set_target, jcat_blob_set_appstream_id and, unless
\* the time is the present, jcat_blob_set_timestamp
AddBlob(n, blob, time) ==
  Edit([file.items EXCEPT ![n].blobs = Append(@, [blob EXCEPT !.timestamp = time])])

Tick ==
  /\ now < MaxTime
  /\ now' = now + 1
  /\ given' = {}
  /\ UNCHANGED <<file, ok>>

Next ==
  \/ \E json \in Documents : ImportJson(json)
  \/ \E no_timestamp \in BOOLEAN : Reload(no_timestamp)
  \/ Forget \/ Tick
  \/ \E id \in Ids : AddItem(id)
  \/ \E n \in DOMAIN file.items, blob \in NewBlobs, time \in {now, 0} : AddBlob(n, blob, time)

Spec == Init /\ [][Next]_vars

-----------------------------------------------------------------------------
(* Properties. *)

Written(no_timestamp) == Import(Export(file, no_timestamp), NewFile, now)

BlobIsReadable(blob) ==
  TextIsUtf8(blob) /\ (IsUtf8(blob.flags) /\ NullIfEmpty => blob.data # <<>>)

\* The JSON form cannot tell an empty list from none, nor hold text that is not.
IsReadable(f) ==
  /\ f.items # <<>>
  /\ \A n \in DOMAIN f.items :
       f.items[n].blobs # <<>> /\ \A k \in DOMAIN f.items[n].blobs :
                                     BlobIsReadable(f.items[n].blobs[k])

\* What is left of a blob: text up to its first NUL; a time that was not there is
\* the time of the import.
Kept(blob, no_timestamp) ==
  [blob EXCEPT !.data = IF IsUtf8(blob.flags) THEN CutAtNul(@) ELSE @,
               !.timestamp = IF @ = 0 \/ no_timestamp THEN now ELSE @]

KeptItem(item, no_timestamp) ==
  [item EXCEPT !.blobs = [k \in DOMAIN @ |-> Kept(@[k], no_timestamp)]]

\* Through JSON and back: the files that can be read again are exactly those, and
\* nothing else is lost of them, wherever their blobs came from.
RoundTrip ==
  \A no_timestamp \in BOOLEAN :
    LET written == Written(no_timestamp)
    IN  /\ written.ok <=> IsReadable(file)
        /\ written.ok =>
             written.file = [file EXCEPT !.items =
                               [n \in DOMAIN @ |-> KeptItem(@[n], no_timestamp)]]

\* An import adds to the file and never touches what was there, even if it fails;
\* it succeeds exactly if the document has a head and every item of it was added.
ImportAppends ==
  [][given' # {} =>
       /\ IsPrefix(file.items, file'.items)
       /\ \A json \in given' \ {NotJson} : \A items \in json.Items \ {Other} :
            ok' <=> HasHead(json) /\ Len(file'.items) = Len(file.items) + Len(items)]_vars

\* Numbers that fit in their fields are kept as they are, known or not, and no
\* negative number gets in.  (Larger ones are cut, see README.md.)
NumbersAreKept ==
  [][\A json \in given' : json # NotJson /\ ok' =>
       \A n \in DOMAIN The(json.Items) : \A k \in DOMAIN The(The(json.Items)[n].Blobs) :
         LET from == The(The(json.Items)[n].Blobs)[k]
             blob == file'.items[Len(file.items) + n].blobs[k]
             Same(member, field) ==
               \A number \in member \ {Other} :
                 number >= 0 /\ (number < Limit => field = number)
         IN  Same(from.Kind, blob.kind) /\ Same(from.Flags, blob.flags)
             /\ Same(from.Target, blob.target) /\ Same(from.Timestamp, blob.timestamp)]_vars

-----------------------------------------------------------------------------
(* JcatJson, which JcatStore uses, is this without the numbers, the time and the *)
(* bytes: it says the same of every file.                                        *)

F == INSTANCE JcatJson
       WITH Kinds <- 1..(Limit - 1), Unknown <- 0, Ids <- Ids \cup {NoId}, RawIds <- {}

DataOf(blob) ==
  LET text == CutAtNul(blob.data)
  IN  IF ~IsUtf8(blob.flags) THEN "whole"
      ELSE IF blob.data = <<>> /\ NullIfEmpty THEN "null"
      ELSE IF text = <<>> THEN "empty"
      ELSE IF Contains(text, "xFF") THEN "raw"
      ELSE IF text = blob.data THEN "whole" ELSE "nul"

Abstract(f) ==
  [n \in DOMAIN f.items |->
     [id |-> f.items[n].id, alias_ids |-> ToSet(f.items[n].alias_ids),
      blobs |-> [k \in DOMAIN f.items[n].blobs |->
                   LET blob == f.items[n].blobs[k]
                   IN  [kind |-> blob.kind, target |-> blob.target, data |-> DataOf(blob)]]]]

AgreesWithJcatJson ==
  F!Import(F!Export(Abstract(file))) =
    IF Written(FALSE).ok THEN {Abstract(Written(FALSE).file)} ELSE {}
=============================================================================
