---------------------------- MODULE JcatCatalogue ----------------------------
(***************************************************************************)
(* What the commands of jcat-tool that change a Jcat file promise: the     *)
(* file is a mapping from IDs to items, and a command changes the one item *)
(* it was asked to, in one step, taking away nothing but an alias it was   *)
(* told to remove.                                                         *)
(***************************************************************************)
EXTENDS Sequences

CONSTANTS Ids, Blob

VARIABLES
  cat,      \* a function from the IDs of the items to their contents
  request   \* the command that is at work: a set of at most one

Command == [op : {"sign"}, id : Ids, arg : Blob]
             \cup [op : {"add-alias", "remove-alias"}, id : Ids, arg : Ids]

Init ==
  /\ cat = [id \in {} |-> <<>>]
  /\ request = {}

\* The item a command that is given the name id works on, if there is one: the
\* one with that ID, else the only one with that alias.
Resolve(id) ==
  IF id \in DOMAIN cat THEN {id}
  ELSE LET owners == {o \in DOMAIN cat : id \in cat[o].alias_ids}
       IN  IF \E o \in owners : owners = {o} THEN owners ELSE {}

Ask ==
  /\ request = {}
  /\ \E c \in Command : request' = {c}
  /\ UNCHANGED cat

\* The command is killed.
GiveUp ==
  /\ request' = {}
  /\ UNCHANGED cat

\* The blob is added to the item, or to a new one.
Sign(id, blob) ==
  IF Resolve(id) = {}
  THEN cat' = [o \in DOMAIN cat \cup {id} |->
                 IF o = id THEN [alias_ids |-> {}, blobs |-> <<blob>>] ELSE cat[o]]
  ELSE \E o \in Resolve(id) : cat' = [cat EXCEPT ![o].blobs = Append(@, blob)]

AddAlias(id, alias) ==
  \E o \in Resolve(id) : cat' = [cat EXCEPT ![o].alias_ids = @ \cup {alias}]

RemoveAlias(id, alias) ==
  \E o \in Resolve(id) : cat' = [cat EXCEPT ![o].alias_ids = @ \ {alias}]

Perform(c) ==
  /\ request = {c}
  /\ request' = {}
  /\ \/ c.op = "sign" /\ Sign(c.id, c.arg)
     \/ c.op = "add-alias" /\ AddAlias(c.id, c.arg)
     \/ c.op = "remove-alias" /\ RemoveAlias(c.id, c.arg)

Next == Ask \/ GiveUp \/ \E c \in request : Perform(c)

Spec == Init /\ [][Next]_<<cat, request>>
=============================================================================
