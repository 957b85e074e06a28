------------------------------ MODULE JcatFile ------------------------------
(***************************************************************************)
(* A Jcat file (JcatFile, jcat-file.c) as the sequence of its items, with  *)
(* the operations jcat-tool uses on it.                                    *)
(*                                                                         *)
(* The result of a lookup is a set, empty for NULL.  An item's aliases are *)
(* a set, since add_alias_id keeps them distinct; of a blob we keep what   *)
(* it is, what it was made over, and of its data what decides whether the  *)
(* JSON form can hold it.                                                  *)
(***************************************************************************)
EXTENDS Naturals, Sequences

CONSTANTS
  Ids,      \* item IDs and aliases
  Kinds,    \* blob kinds
  Unknown   \* JCAT_BLOB_KIND_UNKNOWN

ASSUME FileAssumption == Unknown \notin Kinds

\* Data that is not flagged IS_UTF8, or is text without a NUL, is "whole".  Of the
\* other text, "nul" has a NUL behind its first byte; "raw" is not UTF-8 before its
\* first NUL; "empty" has nothing before it; "null" is empty, in a GBytes that has
\* no buffer.
Data == {"whole", "nul", "raw", "empty", "null"}

Blob == [kind : Kinds, target : Kinds \cup {Unknown}, data : Data]
Item == [id : Ids, alias_ids : SUBSET Ids, blobs : Seq(Blob)]

The(one) == CHOOSE x \in one : TRUE
IsOne(S) == \E x \in S : S = {x}

ItemsWithId(file, id)    == {n \in DOMAIN file : file[n].id = id}
ItemsWithAlias(file, id) == {n \in DOMAIN file : id \in file[n].alias_ids}

(* Mutations of GetItemById. *)

\* Only aliases are tried.
GetItemByAlias(file, id) ==
  LET alias == ItemsWithAlias(file, id) IN IF IsOne(alias) THEN alias ELSE {}

\* Aliases are tried first.
GetItemByAliasFirst(file, id) ==
  LET exact == ItemsWithId(file, id)
      alias == ItemsWithAlias(file, id)
  IN  IF alias # {} THEN IF IsOne(alias) THEN alias ELSE {}
                    ELSE IF IsOne(exact) THEN exact ELSE {}

\* jcat_file_get_item_by_id: the only item with the ID; if no item has it, the
\* only item with that alias.
GetItemById(file, id) ==
  LET exact == ItemsWithId(file, id)
      alias == ItemsWithAlias(file, id)
  IN  IF exact # {} THEN IF IsOne(exact) THEN exact ELSE {}
                    ELSE IF IsOne(alias) THEN alias ELSE {}

\* jcat_item_new, then jcat_file_add_item
AddItem(file, id) ==
  Append(file, [id |-> id, alias_ids |-> {}, blobs |-> <<>>])

\* jcat_item_add_blob, jcat_item_add_alias_id, jcat_item_remove_alias_id
AddBlob(file, n, blob)       == [file EXCEPT ![n].blobs = Append(@, blob)]
AddAliasId(file, n, id)      == [file EXCEPT ![n].alias_ids = @ \cup {id}]
RemoveAliasId(file, n, id)   == [file EXCEPT ![n].alias_ids = @ \ {id}]

\* jcat_item_get_blob_by_kind succeeds.
HasOneBlob(item, kind) ==
  IsOne({n \in DOMAIN item.blobs : item.blobs[n].kind = kind})
=============================================================================
