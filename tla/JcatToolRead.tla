---------------------------- MODULE JcatToolRead ----------------------------
(***************************************************************************)
(* The commands of jcat-tool that read a Jcat file and walk over the blobs *)
(* of its items (jcat-tool.c): "verify FILENAME [SOURCE]" and "export      *)
(* FILENAME".  One step is one item, one blob, or one file written.        *)
(*                                                                         *)
(* The names of files under --prefix are IDs and aliases, or those an      *)
(* exported blob is given: item ID, AppStream ID and kind.                 *)
(***************************************************************************)
EXTENDS JcatItem, SequencesExt

CONSTANTS
  Ids,           \* item IDs and aliases
  AppstreamIds,  \* the AppStream IDs of blobs
  NoAppstream,   \* a blob has none
  Unreadable,    \* in the place of the contents of a file that cannot be read
  Commands       \* what the tool may be asked to do

ToolItem ==
  [id : Ids, alias_ids : Seq(Ids),
   blobs : Seq([kind : Kinds, target : Kinds, utf8 : BOOLEAN, data : BlobData,
                appstream_id : AppstreamIds \cup {NoAppstream}])]

\* The command with --kind (Unknown if there is none), --only-pq and SOURCE (a set
\* of at most one; export has none), the Jcat file, if it can be imported, the files
\* there are under --prefix, and the keys the engines trust.
Command ==
  {c \in [command : {"verify", "export"}, kind : Kinds, flags : SUBSET {"ONLY_PQ"},
          source : {{}} \cup {{id} : id \in Ids}, imported : BOOLEAN, items : Seq(ToolItem),
          present : UNION {[names -> BlobData \cup {Unreadable}] : names \in SUBSET Ids},
          trusted : SUBSET Keys] :
     c.command = "export" => c.source = {}}

ASSUME CommandAssumption == Commands \subseteq Command

VARIABLES
  args,     \* the command, fixed
  queue,    \* the items still to be walked over, the one at hand first
  blob,     \* the blob of it that is next; 0 as long as it has no source
  source,   \* the data of its source, once loaded
  ret,      \* ret, of jcat_tool_verify_item and of jcat_tool_verify
  report,   \* the lines printed: item, blob and PASSED, FAILED or SKIPPED
  written,  \* the exported files: a function from their names
  outcome   \* "begin", "running", then "success", "error" or "crashed"

vars == <<args, queue, blob, source, ret, report, written, outcome>>

Init ==
  /\ args \in Commands
  /\ queue = <<>>
  /\ blob = 0
  /\ source = Unreadable
  /\ ret = [item |-> TRUE, file |-> TRUE]
  /\ report = {}
  /\ written = <<>>
  /\ outcome = "begin"

Finish(o) ==
  /\ outcome' = o
  /\ UNCHANGED <<args, queue, blob, source, ret, report, written>>

-----------------------------------------------------------------------------
(* Both commands import the file, then walk over all items, verify with a   *)
(* SOURCE over the one item of that name.                                   *)

F == INSTANCE JcatFile WITH Kinds <- Kinds \ {Unknown}

Lookup(c, id) ==
  F!GetItemById([n \in DOMAIN c.items |->
                   [id |-> c.items[n].id, alias_ids |-> ToSet(c.items[n].alias_ids)]], id)

\* The items the command is about.
Chosen(c) ==
  IF c.source = {} THEN DOMAIN c.items
  ELSE UNION {Lookup(c, id) : id \in c.source}

Begin ==
  /\ outcome = "begin"
  /\ IF ~args.imported \/ (args.source # {} /\ Chosen(args) = {})
     THEN Finish("error")
     ELSE /\ queue' = IF args.source = {} THEN [n \in DOMAIN args.items |-> n]
                      ELSE <<F!The(Chosen(args))>>
          /\ blob' = IF args.command = "verify" THEN 0 ELSE 1
          /\ outcome' = "running"
          /\ UNCHANGED <<args, source, ret, report, written>>

Runs(command) == outcome = "running" /\ args.command = command /\ queue # <<>>

Item == args.items[Head(queue)]
AtHand == Item.blobs[blob]
AtBlob == blob \in DOMAIN Item.blobs

\* --kind
Considered(c, b) == c.kind \in {Unknown, b.kind}

Skip ==
  /\ outcome = "running" /\ queue # <<>> /\ AtBlob
  /\ ~Considered(args, AtHand)
  /\ blob' = blob + 1
  /\ UNCHANGED <<args, queue, source, ret, report, written, outcome>>

End ==
  /\ outcome = "running" /\ queue = <<>>
  /\ Finish(IF ret.file THEN "success" ELSE "error")

-----------------------------------------------------------------------------
(* jcat_tool_verify_item *)

\* The names of the item under which there is a file; the first of them counts.
Found(c, item) ==
  SelectSeq(<<item.id>> \o item.alias_ids, LAMBDA n : n \in DOMAIN c.present)

Source(c, item) ==
  IF Found(c, item) = <<>> THEN Unreadable ELSE c.present[Head(Found(c, item))]

Resolves(item, b) == b.target = Unknown \/ HasBlobByKind(item.blobs, b.target)

\* jcat_context_verify_blob, all kinds being allowed.
VerifyBlob(c, item, b, data) ==
  LET over == IF b.target = Unknown THEN data ELSE GetBlobByKind(item.blobs, b.target).data
  IN  IF b.kind \in CsumKinds THEN SelfVerify(b.kind, over, b)
      ELSE PubkeyVerify(c, b.kind, over, b)

(* A mutation of Line: a blob is skipped whatever the error. *)
LineOfAnyError(c, item, b, data) ==
  IF b.kind \in CsumKinds \cup SigKinds /\ VerifyBlob(c, item, b, data)
  THEN "PASSED" ELSE "SKIPPED"

\* A missing engine is the one error NOT_FOUND.
Line(c, item, b, data) ==
  IF b.kind \notin CsumKinds \cup SigKinds THEN "SKIPPED"
  ELSE IF VerifyBlob(c, item, b, data) THEN "PASSED" ELSE "FAILED"

(* A mutation of EndItem: the last item decides. *)
EndItemLast(valid) ==
  /\ queue' = Tail(queue)
  /\ blob' = 0
  /\ ret' = [item |-> TRUE, file |-> valid]
  /\ UNCHANGED <<args, source, report, written, outcome>>

\* jcat_tool_verify goes on with the next item; with a SOURCE there is none.
EndItem(valid) ==
  /\ queue' = Tail(queue)
  /\ blob' = 0
  /\ ret' = [item |-> TRUE, file |-> ret.file /\ valid]
  /\ UNCHANGED <<args, source, report, written, outcome>>

NoSource ==
  /\ Runs("verify") /\ blob = 0
  /\ Source(args, Item) = Unreadable
  /\ EndItem(FALSE)

\* The names joined for the message of the error are not terminated by NULL: what
\* g_strjoinv reads behind them is undefined, and the process may die of it.
ReadsBeyond ==
  /\ Runs("verify") /\ blob = 0
  /\ Found(args, Item) = <<>>
  /\ Finish("crashed")

LoadSource ==
  /\ Runs("verify") /\ blob = 0
  /\ Source(args, Item) # Unreadable
  /\ source' = Source(args, Item)
  /\ blob' = 1
  /\ UNCHANGED <<args, queue, ret, report, written, outcome>>

\* The blobs behind one without its target are not looked at.
TargetMissing ==
  /\ Runs("verify") /\ AtBlob
  /\ Considered(args, AtHand) /\ ~Resolves(Item, AtHand)
  /\ EndItem(FALSE)

Verify ==
  /\ Runs("verify") /\ AtBlob
  /\ Considered(args, AtHand) /\ Resolves(Item, AtHand)
  /\ LET line == Line(args, Item, AtHand, source)
     IN  /\ report' = report \cup {<<Head(queue), blob, line>>}
         /\ ret' = [ret EXCEPT !.item = @ /\ line # "FAILED"]
  /\ blob' = blob + 1
  /\ UNCHANGED <<args, queue, source, written, outcome>>

EndVerify ==
  /\ Runs("verify") /\ blob > Len(Item.blobs)
  /\ EndItem(ret.item)

-----------------------------------------------------------------------------
(* jcat_tool_export *)

\* Joined with "-" and "."; names are taken not to contain either.
FileName(item, b) == <<item.id, b.appstream_id, b.kind>>

Write ==
  /\ Runs("export") /\ AtBlob
  /\ Considered(args, AtHand)
  /\ written' = [name \in DOMAIN written \cup {FileName(Item, AtHand)} |->
                   IF name = FileName(Item, AtHand) THEN AtHand.data ELSE written[name]]
  /\ blob' = blob + 1
  /\ UNCHANGED <<args, queue, source, ret, report, outcome>>

(* A mutation of WriteFails: the other blobs are exported. *)
WriteFailsGoesOn ==
  /\ Runs("export") /\ AtBlob
  /\ Considered(args, AtHand)
  /\ blob' = blob + 1
  /\ UNCHANGED <<args, queue, source, ret, report, written, outcome>>

\* A file that cannot be written ends the command; the earlier ones stay.
WriteFails ==
  /\ Runs("export") /\ AtBlob
  /\ Considered(args, AtHand)
  /\ Finish("error")

EndExport ==
  /\ Runs("export") /\ blob > Len(Item.blobs)
  /\ queue' = Tail(queue)
  /\ blob' = 1
  /\ UNCHANGED <<args, source, ret, report, written, outcome>>

Next ==
  \/ Begin \/ Skip \/ End
  \/ NoSource \/ ReadsBeyond \/ LoadSource \/ TargetMissing \/ Verify \/ EndVerify
  \/ Write \/ WriteFails \/ EndExport

Spec == Init /\ [][Next]_vars /\ WF_vars(Next)

-----------------------------------------------------------------------------
(* Properties. *)

Ended == outcome \in {"success", "error", "crashed"}

\* The blobs of item n the command is about.
Wanted(c, n) == {k \in DOMAIN c.items[n].blobs : Considered(c, c.items[n].blobs[k])}

ItemHolds(c, n) ==
  LET item == c.items[n]
      data == Source(c, item)
  IN  /\ data # Unreadable
      /\ \A k \in Wanted(c, n) :
           /\ Resolves(item, item.blobs[k])
           /\ Line(c, item, item.blobs[k], data) # "FAILED"

\* The exit status of verify, without its loops: success if every item it is about
\* has a source and each of its blobs a target, and no engine refuses any.  No
\* early return and no reuse of ret in the two functions gets it wrong.
VerifyIsExact ==
  Ended /\ args.command = "verify" =>
    (outcome = "success" <=>
       /\ args.imported
       /\ args.source # {} => Chosen(args) # {}
       /\ \A n \in Chosen(args) : ItemHolds(args, n))

\* jcat_context_verify_item of the library, for the same item, source and keys.
V == INSTANCE JcatVerdict
       WITH Requests <- {}, req <- args, verdict <- outcome, vouching <- report

LibraryRequest(c, n) ==
  [op |-> "item", item |-> c.items[n].blobs, target |-> <<>>,
   data |-> Source(c, c.items[n]), flags |-> c.flags, allowed |-> Kinds,
   trusted |-> c.trusted]

\* The tool does not call jcat_context_verify_item, and asks for more: an item it
\* verifies whole, with a blob over the source PASSED, the library accepts.  (The
\* library takes every checksum for one of the source.)
AgreesWithLibrary ==
  outcome = "success" /\ args.command = "verify" /\ args.kind = Unknown =>
    \A n \in Chosen(args) :
      LET blobs == args.items[n].blobs
      IN  /\ \A k \in DOMAIN blobs : blobs[k].kind \in CsumKinds => blobs[k].target = Unknown
          /\ \E k \in DOMAIN blobs :
               blobs[k].target = Unknown /\ <<n, k, "PASSED">> \in report
          => V!Accepts(LibraryRequest(args, n))

\* After a successful export there is a file of the name of every blob it is
\* about, and its contents are those of a blob of that name, however many have it.
ExportIsComplete ==
  outcome = "success" /\ args.command = "export" =>
    \A n \in DOMAIN args.items : \A k \in Wanted(args, n) :
      LET name == FileName(args.items[n], args.items[n].blobs[k])
      IN  /\ name \in DOMAIN written
          /\ \E m \in DOMAIN args.items : \E j \in Wanted(args, m) :
               /\ FileName(args.items[m], args.items[m].blobs[j]) = name
               /\ written[name] = args.items[m].blobs[j].data

=============================================================================
