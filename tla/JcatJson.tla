------------------------------ MODULE JcatJson ------------------------------
(***************************************************************************)
(* The JSON form of a Jcat file (jcat_file_export_builder and              *)
(* jcat_file_import_parser with what they call).                           *)
(*                                                                         *)
(* An optional JSON member is a set: empty if the member is absent, else   *)
(* holding its one value.  So is the result of an import, empty if it      *)
(* fails.  The Data member is "null" for the JSON value null.              *)
(***************************************************************************)
EXTENDS JcatFile

CONSTANTS
  NoId,         \* the empty string, as an ID or an alias
  RawIds,       \* the IDs that are not UTF-8, as a command line may hold them
  NullIfEmpty   \* whether GLib keeps no buffer for empty data

ASSUME JsonAssumption == NoId \notin RawIds /\ NullIfEmpty \in BOOLEAN

(* An empty list is not exported as such: its member is left out.  Items and *)
(* Blobs are then missed by the import, AliasIds is not.                     *)

Member(seq) == IF seq = <<>> THEN {} ELSE {seq}

\* jcat_blob_get_data_as_string copies text up to its first NUL.
ExportBlob(blob) ==
  [kind |-> blob.kind, target |-> blob.target,
   data |-> IF blob.data = "nul" THEN "whole" ELSE blob.data]

ExportItem(item) ==
  [Id |-> item.id,
   AliasIds |-> IF item.alias_ids = {} THEN {} ELSE {item.alias_ids},
   Blobs |-> Member([k \in DOMAIN item.blobs |-> ExportBlob(item.blobs[k])])]

Export(file) == [Items |-> Member([n \in DOMAIN file |-> ExportItem(file[n])])]

\* A string that is not UTF-8 is written as it is, and then the document is not
\* JSON.  jcat_item_import wants an ID and a list of blobs, jcat_blob_import data.
ItemIsValid(json) ==
  /\ json.Id \notin RawIds \cup {NoId}
  /\ \A aliases \in json.AliasIds : aliases \cap RawIds = {}
  /\ json.Blobs # {}
  /\ \A k \in DOMAIN The(json.Blobs) : The(json.Blobs)[k].data \notin {"raw", "null"}

\* g_bytes_new
ImportBlob(json) ==
  [kind |-> json.kind, target |-> json.target,
   data |-> IF json.data = "empty" /\ NullIfEmpty THEN "null" ELSE json.data]

ImportBlobs(json) == [k \in DOMAIN The(json.Blobs) |-> ImportBlob(The(json.Blobs)[k])]

(* A mutation of ImportItem: the aliases are not read. *)
ImportItemOnly(json) == [id |-> json.Id, alias_ids |-> {}, blobs |-> ImportBlobs(json)]

ImportItem(json) ==
  [id |-> json.Id,
   alias_ids |-> IF json.AliasIds = {} THEN {} ELSE The(json.AliasIds),
   blobs |-> ImportBlobs(json)]

\* Into a new JcatFile.
Import(json) ==
  IF json.Items = {} \/ \E n \in DOMAIN The(json.Items) : ~ItemIsValid(The(json.Items)[n])
  THEN {}
  ELSE {[n \in DOMAIN The(json.Items) |-> ImportItem(The(json.Items)[n])]}
=============================================================================
