------------------------------ MODULE JcatStore ------------------------------
(***************************************************************************)
(* The commands of jcat-tool that change a .jcat file, run by several      *)
(* processes on one file: import, self-sign and sign add a blob, add-alias *)
(* and remove-alias change an item's aliases (jcat-tool.c).  Each command  *)
(* reads the file, edits its copy and replaces the file by it; there is no *)
(* lock, and no test that the file is still the one that was read.         *)
(*                                                                         *)
(* The file is replaced through a temporary one, renamed when its stream   *)
(* is closed (g_file_replace).  The stream is closed by its last unref,    *)
(* whose errors nobody sees.                                               *)
(***************************************************************************)
EXTENDS JcatJson, SequencesExt

CONSTANTS
  Procs,      \* the processes
  NewBlobs,   \* the checksums and signatures the commands are asked to make
  Files,      \* the blobs import makes of the files it is given
  MaxItems,   \* bound on the items of a file
  MaxParts,   \* bound on the blobs and aliases of all its items
  MaxUnclean, \* bound on the commands that are given something that is not clean
  MaxFaults   \* bound on the commands that are killed or find no space

ASSUME StoreAssumption ==
  /\ NewBlobs \subseteq Blob /\ \A blob \in NewBlobs : blob.data = "whole"
  /\ Files \subseteq Blob /\ \A blob \in Files : blob.target = Unknown
  /\ {MaxItems, MaxParts, MaxUnclean, MaxFaults} \subseteq Nat

VARIABLES
  calm,      \* whether commands are run one after the other, are given what is clean
             \* and find room on the disk, which nothing makes sure of
  unclean,   \* how many commands have been given, to store it, an ID that is empty or
             \* not UTF-8, or a file that is not the text import takes it for
  disk,      \* the .jcat file: whether it is there, and the JSON in it
  pc,        \* per process: "idle" or "export"
  command,   \* per process: what it was asked to do, if it is doing it
  copy,      \* per process: the edited file it is about to write, if it is
  outcome,   \* per process: what its last command returned
  faults     \* how many commands were killed or found no space

vars == <<calm, unclean, disk, pc, command, copy, outcome, faults>>

Command(op, id, arg) == [op |-> op, id |-> id, arg |-> arg]

NoJson == [Items |-> {}]

Init ==
  /\ calm \in BOOLEAN /\ unclean = 0
  /\ disk = [state |-> "absent", json |-> NoJson]
  /\ pc = [p \in Procs |-> "idle"]
  /\ command = [p \in Procs |-> {}]
  /\ copy = [p \in Procs |-> <<>>]
  /\ outcome = [p \in Procs |-> "none"]
  /\ faults = 0

MayStart(p) ==
  /\ pc[p] = "idle"
  /\ calm => \A q \in Procs : pc[q] = "idle"

\* jcat_file_import_file into a new JcatFile; what a full disk cut short is not
\* a gzip stream of JSON.
Load == IF disk.state = "ok" THEN Import(disk.json) ELSE {}

\* The commands that add a blob do not need the file to exist.
LoadIfExists == IF disk.state = "absent" THEN {<<>>} ELSE Load

Fail(p) ==
  /\ outcome' = [outcome EXCEPT ![p] = "error"]
  /\ UNCHANGED <<calm, unclean, disk, pc, command, copy, faults>>

\* JSON can hold what the command is to store: IDs that are UTF-8 and not empty, and
\* text, where import takes a file for text.
IsClean(c) ==
  CASE c.op = "sign"         -> c.id \notin RawIds \cup {NoId} /\ c.arg.data = "whole"
    [] c.op = "add-alias"    -> c.arg \notin RawIds \cup {NoId}
    [] c.op = "remove-alias" -> TRUE

Edit(p, c, file) ==
  /\ Len(file) <= MaxItems
  /\ Cardinality(UNION {{n} \X (file[n].alias_ids \cup DOMAIN file[n].blobs)
                          : n \in DOMAIN file}) <= MaxParts
  /\ IF IsClean(c) THEN UNCHANGED unclean
                  ELSE ~calm /\ unclean < MaxUnclean /\ unclean' = unclean + 1
  /\ command' = [command EXCEPT ![p] = {c}]
  /\ copy' = [copy EXCEPT ![p] = file]
  /\ pc' = [pc EXCEPT ![p] = "export"]
  /\ outcome' = [outcome EXCEPT ![p] = "none"]
  /\ UNCHANGED <<calm, disk, faults>>

\* The item is looked up, and added if the lookup fails for whatever reason.
WithItem(file, id) ==
  IF GetItemById(file, id) = {} THEN AddItem(file, id) ELSE file

ItemFor(file, id) ==
  IF GetItemById(file, id) = {} THEN Len(file) + 1 ELSE The(GetItemById(file, id))

\* jcat_tool_import, whose file says by its name alone whether it is text.
ImportFile(p, id, blob) ==
  /\ MayStart(p)
  /\ \/ Fail(p)                                   \* the file cannot be read
     \/ /\ LoadIfExists # {}
        /\ LET file == WithItem(The(LoadIfExists), id)
           IN  Edit(p, Command("sign", id, blob),
                    AddBlob(file, ItemFor(The(LoadIfExists), id), blob))

(* Mutation of Sign: the target need not be there when it is signed. *)
SignAnyTarget(p, id, blob) ==
  /\ MayStart(p)
  /\ \/ Fail(p)
     \/ /\ LoadIfExists # {}
        /\ blob.target = Unknown => id # NoId
        /\ LET file == WithItem(The(LoadIfExists), id)
           IN  Edit(p, Command("sign", id, blob),
                    AddBlob(file, ItemFor(The(LoadIfExists), id), blob))

\* jcat_tool_self_sign and jcat_tool_sign.  The data to sign is the file the ID
\* names or, with --target, the one blob of that kind in the item.
Sign(p, id, blob) ==
  /\ MayStart(p)
  /\ \/ Fail(p)                                   \* nor can the file, or a key
     \/ /\ LoadIfExists # {}
        /\ LET file == WithItem(The(LoadIfExists), id)
               n == ItemFor(The(LoadIfExists), id)
           IN  /\ IF blob.target = Unknown THEN id # NoId
                                           ELSE HasOneBlob(file[n], blob.target)
               /\ Edit(p, Command("sign", id, blob), AddBlob(file, n, blob))

\* jcat_tool_add_alias
AddAlias(p, id, alias) ==
  /\ MayStart(p)
  /\ IF Load = {} \/ GetItemById(The(Load), id) = {} THEN Fail(p)
     ELSE Edit(p, Command("add-alias", id, alias),
               AddAliasId(The(Load), The(GetItemById(The(Load), id)), alias))

\* jcat_tool_remove_alias
RemoveAlias(p, id, alias) ==
  /\ MayStart(p)
  /\ IF Load = {} \/ GetItemById(The(Load), id) = {} THEN Fail(p)
     ELSE Edit(p, Command("remove-alias", id, alias),
               RemoveAliasId(The(Load), The(GetItemById(The(Load), id)), alias))

(* A mutation of Write: the items are cleared when they have been exported. *)
WriteEmpty(p) ==
  /\ pc[p] = "export"
  /\ disk' = [state |-> "ok", json |-> Export(<<>>)]
  /\ pc' = [pc EXCEPT ![p] = "idle"]
  /\ outcome' = [outcome EXCEPT ![p] = "ok"]
  /\ command' = [command EXCEPT ![p] = {}]
  /\ copy' = [copy EXCEPT ![p] = <<>>]
  /\ UNCHANGED <<calm, unclean, faults>>

\* jcat_file_export_file
Write(p) ==
  /\ pc[p] = "export"
  /\ disk' = [state |-> "ok", json |-> Export(copy[p])]
  /\ pc' = [pc EXCEPT ![p] = "idle"]
  /\ outcome' = [outcome EXCEPT ![p] = "ok"]
  /\ command' = [command EXCEPT ![p] = {}]
  /\ copy' = [copy EXCEPT ![p] = <<>>]
  /\ UNCHANGED <<calm, unclean, faults>>

\* The same, with no space left: what was written of the temporary file replaces
\* the old one.  The zlib converter holds back what it has not compressed yet: if
\* that is all of it, nothing fails before the stream is closed.
WriteCutShort(p) ==
  /\ pc[p] = "export"
  /\ ~calm /\ faults < MaxFaults
  /\ faults' = faults + 1
  /\ disk' = [state |-> "damaged", json |-> NoJson]
  /\ pc' = [pc EXCEPT ![p] = "idle"]
  /\ \E answer \in {"ok", "error"} : outcome' = [outcome EXCEPT ![p] = answer]
  /\ command' = [command EXCEPT ![p] = {}]
  /\ copy' = [copy EXCEPT ![p] = <<>>]
  /\ UNCHANGED <<calm, unclean>>

\* The process is killed.  The file that was there is left alone; one that was
\* not is written in place, without a temporary one.
Kill(p) ==
  /\ pc[p] = "export"
  /\ faults < MaxFaults
  /\ faults' = faults + 1
  /\ pc' = [pc EXCEPT ![p] = "idle"]
  /\ outcome' = [outcome EXCEPT ![p] = "error"]
  /\ \/ UNCHANGED disk
     \/ disk.state = "absent" /\ disk' = [state |-> "damaged", json |-> NoJson]
  /\ command' = [command EXCEPT ![p] = {}]
  /\ copy' = [copy EXCEPT ![p] = <<>>]
  /\ UNCHANGED <<calm, unclean>>

Next ==
  \E p \in Procs :
    \/ \E id \in Ids, blob \in Files : ImportFile(p, id, blob)
    \/ \E id \in Ids, blob \in NewBlobs : Sign(p, id, blob)
    \/ \E id, alias \in Ids : AddAlias(p, id, alias) \/ RemoveAlias(p, id, alias)
    \/ Write(p) \/ WriteCutShort(p) \/ Kill(p)

\* A command that was started goes on.
Fairness == \A p \in Procs : WF_vars(Write(p) \/ WriteCutShort(p))

Spec == Init /\ [][Next]_vars /\ Fairness

-----------------------------------------------------------------------------
(* Properties. *)

\* The variables keep their types.
TypeOK ==
  /\ calm \in BOOLEAN /\ unclean \in 0..MaxUnclean
  /\ disk.state \in {"absent", "ok", "damaged"}
  /\ pc \in [Procs -> {"idle", "export"}]
  /\ \A p \in Procs : IF pc[p] = "idle" THEN command[p] = {} ELSE IsOne(command[p])
  /\ copy \in [Procs -> Seq(Item)]
  /\ outcome \in [Procs -> {"none", "ok", "error"}]
  /\ faults \in 0..MaxFaults

\* The items in the file, none if there is no readable file.
Stored == IF Load = {} THEN <<>> ELSE The(Load)

\* While commands are given clean IDs and files, what one has written the next one
\* can read: none leaves a file or an item empty, which JSON could not express.
\* (Others do write, and call a success, what nothing can read again.)
WrittenIsReadable == unclean = 0 /\ disk.state = "ok" => Load # {}

\* What JSON can hold.
IsReadable(file) ==
  /\ file # <<>>
  /\ \A n \in DOMAIN file :
       /\ file[n].id \notin RawIds \cup {NoId} /\ file[n].alias_ids \cap RawIds = {}
       /\ file[n].blobs # <<>>
       /\ \A k \in DOMAIN file[n].blobs : file[n].blobs[k].data \notin {"raw", "null"}

\* What is left of it.
Kept(data) ==
  CASE data = "nul" -> "whole"
    [] data = "empty" -> IF NullIfEmpty THEN "null" ELSE "empty"
    [] OTHER -> data

KeptBlob(blob) == [kind |-> blob.kind, target |-> blob.target, data |-> Kept(blob.data)]
KeptItem(item) ==
  [id |-> item.id, alias_ids |-> item.alias_ids,
   blobs |-> [k \in DOMAIN item.blobs |-> KeptBlob(item.blobs[k])]]
KeptFile(file) == [n \in DOMAIN file |-> KeptItem(file[n])]

\* Whatever commands are given, what one has written is what the next one reads,
\* unless the disk was full: an ID or a text that JSON cannot hold makes the whole
\* file unreadable, text is cut at a NUL, and nothing else is lost on the way.
WrittenIsRead ==
  [][\A p \in Procs :
       outcome'[p] = "ok" /\ outcome[p] # "ok" /\ faults' = faults =>
         Load' = IF IsReadable(copy[p]) THEN {KeptFile(copy[p])} ELSE {}]_vars

\* No two items of a file that only jcat-tool has changed have the same ID,
\* although a failed lookup, whatever it failed for, adds an item.
UniqueIds ==
  \A m, n \in DOMAIN Stored : Stored[m].id = Stored[n].id => m = n

\* Every blob that was made over another blob of its item has one there.
TargetsArePresent ==
  \A n \in DOMAIN Stored : \A k \in DOMAIN Stored[n].blobs :
    LET target == Stored[n].blobs[k].target
    IN  target # Unknown =>
          \E m \in DOMAIN Stored[n].blobs : m # k /\ Stored[n].blobs[m].kind = target

\* Calm commands, which are given nothing but clean IDs and files, implement those
\* of JcatCatalogue: looking an item up through its aliases, adding it or a blob to
\* it and the way through JSON and back amount to one step on a mapping from IDs.
Catalogue ==
  [id \in {Stored[n].id : n \in DOMAIN Stored} |->
     LET item == Stored[CHOOSE n \in DOMAIN Stored : Stored[n].id = id]
     IN  [alias_ids |-> item.alias_ids, blobs |-> item.blobs]]

CalmCatalogue == IF calm THEN Catalogue ELSE [id \in {} |-> <<>>]
CalmRequest   == IF calm THEN UNION {command[p] : p \in Procs} ELSE {}

C == INSTANCE JcatCatalogue WITH cat <- CalmCatalogue, request <- CalmRequest

RefinesCatalogue == C!Spec

\* jcat-file.c, jcat_file_export_file: "Returns: %TRUE for success".  A command
\* that has just returned success has left a file that can be read.
DocSuccessIsStored ==
  [][\A p \in Procs : outcome'[p] = "ok" /\ outcome[p] # "ok" => disk'.state = "ok"]_vars

=============================================================================
