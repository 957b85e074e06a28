------------------------- MODULE JcatToolRead_proofs -------------------------
(***************************************************************************)
(* Proofs about the commands of jcat-tool that only read, for any Jcat     *)
(* file and any files beside it: what the loops over items and blobs have  *)
(* gathered is, at each step, what is true of the part they have passed.   *)
(***************************************************************************)
EXTENDS JcatToolRead, TLAPS

Walked == outcome = "running" /\ queue # <<>>

\* The items and blobs a loop has passed.
ItemsPassed == {n \in Chosen(args) : \A m \in DOMAIN queue : queue[m] # n}
BlobsPassed == {k \in Wanted(args, Head(queue)) : k < blob}

\* The queue holds some of the chosen items, each once.
QueueInv ==
  /\ args \in Command
  /\ args.command = "export" => Chosen(args) = DOMAIN args.items
  /\ queue \in Seq(Chosen(args))
  /\ \A l, m \in DOMAIN queue : queue[l] = queue[m] => l = m
  /\ blob \in Nat
  /\ outcome = "begin" => queue = <<>> /\ report = {} /\ written = <<>>
  /\ outcome \in {"begin", "running", "success", "error", "crashed"}

LEMMA ChosenIsSound ==
  ASSUME NEW c \in Command
  PROVE  /\ Chosen(c) \subseteq DOMAIN c.items
         /\ c.source # {} /\ Chosen(c) # {} => Chosen(c) = {F!The(Chosen(c))}
  <1>1. CASE c.source = {}
    BY <1>1 DEF Chosen
  <1>2. CASE c.source # {}
    <2>1. PICK id \in Ids : c.source = {id}
      BY <1>2 DEF Command
    <2> DEFINE file == [n \in DOMAIN c.items |->
                          [id |-> c.items[n].id, alias_ids |-> ToSet(c.items[n].alias_ids)]]
    <2>2. Chosen(c) = F!GetItemById(file, id)
      BY <2>1 DEF Chosen, Lookup
    <2>3. DOMAIN file = DOMAIN c.items
      OBVIOUS
    <2> HIDE DEF file
    <2>4. F!GetItemById(file, id) \subseteq DOMAIN file
      BY DEF F!GetItemById, F!ItemsWithId, F!ItemsWithAlias
    <2>5. F!GetItemById(file, id) # {} => F!IsOne(F!GetItemById(file, id))
      BY DEF F!GetItemById, F!IsOne
    <2>6. \A x : F!The({x}) = x
      BY DEF F!The
    <2> QED  BY <2>2, <2>3, <2>4, <2>5, <2>6 DEF F!IsOne
  <1> QED  BY <1>1, <1>2

LEMMA TailOfQueue ==
  ASSUME NEW S, NEW q \in Seq(S), q # <<>>,
         \A l, m \in DOMAIN q : q[l] = q[m] => l = m
  PROVE  /\ Tail(q) \in Seq(S)
         /\ \A l, m \in DOMAIN Tail(q) : Tail(q)[l] = Tail(q)[m] => l = m
         /\ Head(q) \in S
         /\ \A n \in S : (\A m \in DOMAIN Tail(q) : Tail(q)[m] # n)
                           <=> (n = Head(q) \/ \A m \in DOMAIN q : q[m] # n)
  <1>1. Len(q) \in Nat /\ Len(q) > 0 /\ DOMAIN q = 1..Len(q) /\ Head(q) = q[1]
    OBVIOUS
  <1>2. Tail(q) \in Seq(S) /\ DOMAIN Tail(q) = 1..(Len(q) - 1)
        /\ \A m \in DOMAIN Tail(q) : Tail(q)[m] = q[m + 1]
    OBVIOUS
  <1>3. \A l, m \in DOMAIN Tail(q) : Tail(q)[l] = Tail(q)[m] => l = m
    <2> SUFFICES ASSUME NEW l \in DOMAIN Tail(q), NEW m \in DOMAIN Tail(q),
                        Tail(q)[l] = Tail(q)[m]
                 PROVE  l = m
      OBVIOUS
    <2>1. l \in Nat /\ m \in Nat /\ l + 1 \in DOMAIN q /\ m + 1 \in DOMAIN q
      BY <1>1, <1>2
    <2>2. q[l + 1] = q[m + 1]
      BY <1>2
    <2>3. l + 1 = m + 1
      BY <2>1, <2>2
    <2> QED  BY <2>1, <2>3
  <1>4. Head(q) \in S
    BY <1>1
  <1>5. ASSUME NEW n \in S, \A m \in DOMAIN Tail(q) : Tail(q)[m] # n,
               NEW m \in DOMAIN q, q[m] = n
        PROVE  n = Head(q)
    <2>1. CASE m = 1
      BY <1>1, <1>5, <2>1
    <2>2. CASE m # 1
      <3>1. m - 1 \in DOMAIN Tail(q) /\ (m - 1) + 1 = m
        BY <1>1, <1>2, <2>2
      <3> QED  BY <1>2, <1>5, <3>1
    <2> QED  BY <2>1, <2>2
  <1>6. ASSUME NEW m \in DOMAIN Tail(q) PROVE Tail(q)[m] # Head(q)
    <2>1. m + 1 \in DOMAIN q /\ 1 \in DOMAIN q /\ m + 1 # 1
      BY <1>1, <1>2
    <2> QED  BY <1>1, <1>2, <2>1
  <1>7. ASSUME NEW n \in S, \A m \in DOMAIN q : q[m] # n, NEW m \in DOMAIN Tail(q)
        PROVE  Tail(q)[m] # n
    <2>1. m + 1 \in DOMAIN q
      BY <1>1, <1>2
    <2> QED  BY <1>2, <1>7, <2>1
  <1> QED  BY <1>2, <1>3, <1>4, <1>5, <1>6, <1>7

\* When an item is done it is the one item more that is passed.
LEMMA NextItem ==
  ASSUME QueueInv, queue # <<>>, queue' = Tail(queue), UNCHANGED args
  PROVE  /\ queue' \in Seq(Chosen(args))
         /\ \A l, m \in DOMAIN queue' : queue'[l] = queue'[m] => l = m
         /\ Head(queue) \in Chosen(args)
         /\ ItemsPassed' = ItemsPassed \cup {Head(queue)}
  <1> DEFINE S == Chosen(args)
  <1>1. /\ queue' \in Seq(S)
        /\ \A l, m \in DOMAIN queue' : queue'[l] = queue'[m] => l = m
        /\ Head(queue) \in S
        /\ \A n \in S : (\A m \in DOMAIN queue' : queue'[m] # n)
                          <=> (n = Head(queue) \/ \A m \in DOMAIN queue : queue[m] # n)
    <2> HIDE DEF S
    <2>1. queue \in Seq(S) /\ \A l, m \in DOMAIN queue : queue[l] = queue[m] => l = m
      BY DEF QueueInv, S
    <2> QED  BY <2>1, TailOfQueue
  <1>2. ItemsPassed' = {n \in S : \A m \in DOMAIN queue' : queue'[m] # n}
    BY DEF ItemsPassed, Chosen, Lookup
  <1>3. ItemsPassed = {n \in S : \A m \in DOMAIN queue : queue[m] # n}
    BY DEF ItemsPassed
  <1> HIDE DEF S
  <1> QED  BY <1>1, <1>2, <1>3 DEF S

LEMMA NextQueue == QueueInv /\ [Next]_vars => QueueInv'
  <1> SUFFICES ASSUME QueueInv, [Next]_vars PROVE QueueInv'
    OBVIOUS
  <1>1. UNCHANGED args
    BY DEF Next, vars, Begin, Skip, End, NoSource, ReadsBeyond, LoadSource, TargetMissing,
           Verify, EndVerify, Write, WriteFails, EndExport, EndItem, Finish
  <1>2. Chosen(args)' = Chosen(args)
    BY <1>1 DEF Chosen, Lookup
  <1>3. ASSUME UNCHANGED queue, blob' \in Nat, outcome # "begin" \/ UNCHANGED <<report, written>>,
               outcome' \in {"running", "success", "error", "crashed"} \/ UNCHANGED outcome
        PROVE  QueueInv'
    BY <1>1, <1>2, <1>3 DEF QueueInv
  <1>4. ASSUME queue # <<>>, queue' = Tail(queue), blob' \in Nat, UNCHANGED outcome
        PROVE  QueueInv'
    BY <1>1, <1>2, <1>4, NextItem DEF QueueInv
  <1>5. CASE Begin
    <2>1. CASE UNCHANGED queue
      BY <1>3, <1>5, <2>1 DEF Begin, Finish, QueueInv
    <2>2. CASE args.source = {} /\ queue' = [n \in DOMAIN args.items |-> n]
      <3>1. args.items \in Seq(ToolItem)
        BY DEF QueueInv, Command
      <3>2. Chosen(args) = DOMAIN args.items
        BY <2>2 DEF Chosen
      <3>3. queue' \in Seq(Chosen(args))
        BY <2>2, <3>1, <3>2
      <3>4. \A l, m \in DOMAIN queue' : queue'[l] = queue'[m] => l = m
        BY <2>2
      <3> QED  BY <1>1, <1>2, <1>5, <3>3, <3>4 DEF QueueInv, Begin, Finish
    <2>3. CASE args.source # {} /\ Chosen(args) # {} /\ queue' = <<F!The(Chosen(args))>>
      <3>1. F!The(Chosen(args)) \in Chosen(args)
        BY <2>3, ChosenIsSound DEF QueueInv
      <3>2. queue' \in Seq(Chosen(args)) /\ DOMAIN queue' = {1}
        BY <2>3, <3>1
      <3> QED  BY <1>1, <1>2, <1>5, <3>2 DEF QueueInv, Begin, Finish
    <2> QED  BY <1>5, <2>1, <2>2, <2>3 DEF Begin, Finish
  <1>6. CASE Skip
    BY <1>3, <1>6 DEF Skip, QueueInv
  <1>7. CASE End \/ ReadsBeyond \/ WriteFails
    BY <1>3, <1>7 DEF End, ReadsBeyond, WriteFails, Finish, QueueInv, Runs
  <1>8. CASE NoSource \/ TargetMissing \/ EndVerify
    BY <1>4, <1>8 DEF NoSource, TargetMissing, EndVerify, EndItem, Runs
  <1>9. CASE LoadSource
    BY <1>3, <1>9 DEF LoadSource
  <1>10. CASE Verify
    BY <1>3, <1>10 DEF Verify, QueueInv, Runs
  <1>11. CASE Write
    BY <1>3, <1>11 DEF Write, QueueInv, Runs
  <1>12. CASE EndExport
    BY <1>4, <1>12 DEF EndExport, Runs
  <1>13. CASE UNCHANGED vars
    BY <1>3, <1>13 DEF vars, QueueInv
  <1> QED  BY <1>5, <1>6, <1>7, <1>8, <1>9, <1>10, <1>11, <1>12, <1>13 DEF Next

LEMMA InitQueue == Init => QueueInv
  <1> SUFFICES ASSUME Init PROVE QueueInv
    OBVIOUS
  <1>1. args \in Command
    BY CommandAssumption DEF Init
  <1>2. args.command = "export" => Chosen(args) = DOMAIN args.items
    BY <1>1 DEF Command, Chosen
  <1> QED  BY <1>1, <1>2 DEF Init, QueueInv

LEMMA QueueInvariance == Spec => []QueueInv
  BY InitQueue, NextQueue, PTL DEF Spec

-----------------------------------------------------------------------------
(* jcat-tool verify.                                                        *)

\* Of the items passed ret.file says whether they hold, of the blobs passed
\* ret.item whether one failed.
VerifyInv ==
  /\ ret \in [item : BOOLEAN, file : BOOLEAN]
  /\ outcome = "begin" => ret.item /\ ret.file
  /\ args.command = "verify" /\ outcome = "running" =>
       /\ args.imported
       /\ args.source # {} => Chosen(args) # {}
       /\ ret.file <=> \A n \in ItemsPassed : ItemHolds(args, n)
       /\ queue # <<>> /\ blob = 0 => ret.item
       /\ queue # <<>> /\ blob # 0 =>
            /\ source = Source(args, Item) /\ source # Unreadable
            /\ \A k \in BlobsPassed : Resolves(Item, Item.blobs[k])
            /\ ret.item <=>
                 \A k \in BlobsPassed : Line(args, Item, Item.blobs[k], source) # "FAILED"
  /\ VerifyIsExact

LEMMA InitVerify == Init => VerifyInv
  BY DEF Init, VerifyInv, VerifyIsExact, Ended

\* An item is over, and valid is what is true of it.
LEMMA ItemIsOver ==
  ASSUME QueueInv, VerifyInv, Runs("verify"), NEW valid \in BOOLEAN, EndItem(valid),
         valid <=> ItemHolds(args, Head(queue))
  PROVE  VerifyInv'
  <1>1. ItemsPassed' = ItemsPassed \cup {Head(queue)}
    BY NextItem DEF EndItem, Runs
  <1>2. UNCHANGED <<args, outcome>> /\ outcome = "running" /\ args.command = "verify"
    BY DEF EndItem, Runs
  <1>3. ret' = [item |-> TRUE, file |-> ret.file /\ valid] /\ blob' = 0
    BY DEF EndItem
  <1>4. ret.file \in BOOLEAN
    BY DEF VerifyInv
  <1>5. ret'.item = TRUE /\ ret'.file = (ret.file /\ valid)
        /\ ret' \in [item : BOOLEAN, file : BOOLEAN]
    BY <1>3, <1>4
  <1>6. ret.file <=> \A n \in ItemsPassed : ItemHolds(args, n)
    BY <1>2 DEF VerifyInv
  <1>7. \A n : ItemHolds(args, n)' <=> ItemHolds(args, n)
    BY <1>2
  <1>8. ret'.file <=> \A n \in ItemsPassed' : ItemHolds(args, n)'
    BY <1>1, <1>5, <1>6, <1>7
  <1>9. args.imported' /\ (args.source # {} => Chosen(args) # {})'
    BY <1>2 DEF VerifyInv
  <1> QED  BY <1>2, <1>3, <1>5, <1>8, <1>9 DEF VerifyInv, VerifyIsExact, Ended

LEMMA BlobsOfItem ==
  ASSUME QueueInv, queue # <<>>
  PROVE  /\ Head(queue) \in Chosen(args) /\ Head(queue) \in DOMAIN args.items
         /\ Len(Item.blobs) \in Nat /\ DOMAIN Item.blobs = 1..Len(Item.blobs)
         /\ AtBlob => blob # 0
         /\ Wanted(args, Head(queue))
              = {k \in DOMAIN Item.blobs : Considered(args, Item.blobs[k])}
  <1>1. Head(queue) \in Chosen(args)
    BY DEF QueueInv
  <1>2. Head(queue) \in DOMAIN args.items
    BY <1>1, ChosenIsSound DEF QueueInv
  <1>3. Item \in ToolItem
    BY <1>2 DEF QueueInv, Command, Item
  <1>4. Len(Item.blobs) \in Nat /\ DOMAIN Item.blobs = 1..Len(Item.blobs)
    BY <1>3 DEF ToolItem
  <1> QED  BY <1>1, <1>2, <1>4 DEF AtBlob, Wanted, Item

\* A blob more is passed; it counts if it is wanted.
LEMMA NextBlob ==
  ASSUME QueueInv, queue # <<>>, AtBlob, UNCHANGED <<args, queue>>, blob' = blob + 1
  PROVE  /\ ItemsPassed' = ItemsPassed
         /\ Item' = Item
         /\ blob' # 0
         /\ BlobsPassed' = IF Considered(args, AtHand) THEN BlobsPassed \cup {blob}
                           ELSE BlobsPassed
  <1>1. blob \in Nat
    BY DEF QueueInv
  <1>2. BlobsPassed' = {k \in Wanted(args, Head(queue)) : k < blob + 1}
    BY DEF BlobsPassed
  <1> DEFINE all == 1..Len(Item.blobs)
             wanted == {k \in all : Considered(args, Item.blobs[k])}
  <1>3. Wanted(args, Head(queue)) = wanted /\ blob \in all /\ Len(Item.blobs) \in Nat
    BY BlobsOfItem DEF AtBlob
  <1>4. \A k \in wanted : k \in Nat /\ (k < blob + 1 <=> k < blob \/ k = blob)
    BY <1>1, <1>3
  <1>5. blob \in wanted <=> Considered(args, AtHand)
    BY <1>3 DEF AtHand
  <1>6. blob' # 0
    BY <1>1
  <1>7. Item' = Item /\ ItemsPassed' = ItemsPassed
    BY DEF Item, ItemsPassed
  <1> HIDE DEF wanted, all
  <1> QED  BY <1>1, <1>2, <1>3, <1>4, <1>5, <1>6, <1>7 DEF BlobsPassed

\* At the first item nothing is passed.
LEMMA NothingPassed ==
  ASSUME QueueInv, Begin, outcome' = "running"
  PROVE  ItemsPassed' = {} /\ args.imported /\ (args.source # {} => Chosen(args) # {})
  <1>1. ~Finish("error")
    BY DEF Finish
  <1>2. args.imported /\ (args.source # {} => Chosen(args) # {}) /\ UNCHANGED args
    BY <1>1 DEF Begin
  <1>3. queue' = IF args.source = {} THEN [n \in DOMAIN args.items |-> n]
                 ELSE <<F!The(Chosen(args))>>
    BY <1>1 DEF Begin
  <1>4. ASSUME NEW n \in Chosen(args) PROVE \E m \in DOMAIN queue' : queue'[m] = n
    <2>1. CASE args.source = {}
      <3>1. n \in DOMAIN args.items
        BY <2>1 DEF Chosen
      <3> QED  BY <1>3, <2>1, <3>1
    <2>2. CASE args.source # {}
      <3>1. Chosen(args) = {F!The(Chosen(args))}
        BY <2>2, ChosenIsSound DEF QueueInv
      <3>2. n = F!The(Chosen(args))
        BY <3>1
      <3>3. queue' = <<n>>
        BY <1>3, <2>2, <3>2
      <3> QED  BY <3>3
    <2> QED  BY <2>1, <2>2
  <1>5. ItemsPassed' = {n \in Chosen(args) : \A m \in DOMAIN queue' : queue'[m] # n}
    BY <1>2 DEF ItemsPassed
  <1> QED  BY <1>2, <1>4, <1>5

LEMMA BeginVerify ==
  ASSUME QueueInv, VerifyInv, Begin
  PROVE  VerifyInv'
  <1>1. UNCHANGED <<args, ret>> /\ ret.item /\ ret.file /\ outcome = "begin"
    BY DEF Begin, Finish, VerifyInv
  <1>2. CASE outcome' = "running"
    <2>1. ItemsPassed' = {} /\ args.imported /\ (args.source # {} => Chosen(args) # {})
      BY <1>2, NothingPassed
    <2>2. args.command = "verify" => blob' = 0
      BY <1>2 DEF Begin, Finish
    <2> QED  BY <1>1, <1>2, <2>1, <2>2 DEF VerifyInv, VerifyIsExact, Ended
  <1>3. CASE outcome' # "running"
    <2>1. outcome' = "error" /\ ~(args.imported /\ (args.source # {} => Chosen(args) # {}))
      BY <1>3 DEF Begin, Finish
    <2> QED  BY <1>1, <2>1 DEF VerifyInv, VerifyIsExact, Ended
  <1> QED  BY <1>2, <1>3

LEMMA SkipVerify ==
  ASSUME QueueInv, VerifyInv, Skip
  PROVE  VerifyInv'
  <1>1. UNCHANGED <<args, queue, source, ret, outcome>> /\ outcome = "running"
        /\ queue # <<>> /\ AtBlob /\ blob' = blob + 1 /\ ~Considered(args, AtHand)
    BY DEF Skip
  <1>2. ItemsPassed' = ItemsPassed /\ Item' = Item /\ blob' # 0 /\ BlobsPassed' = BlobsPassed
    BY <1>1, NextBlob
  <1>3. blob # 0
    BY <1>1, BlobsOfItem
  <1> QED  BY <1>1, <1>2, <1>3 DEF VerifyInv, VerifyIsExact, Ended

LEMMA VerifyOne ==
  ASSUME QueueInv, VerifyInv, Verify
  PROVE  VerifyInv'
  <1> DEFINE line == Line(args, Item, AtHand, source)
  <1>1. UNCHANGED <<args, queue, source, outcome>> /\ outcome = "running"
        /\ args.command = "verify" /\ queue # <<>> /\ AtBlob /\ blob' = blob + 1
        /\ Considered(args, AtHand) /\ Resolves(Item, AtHand)
        /\ ret' = [ret EXCEPT !.item = ret.item /\ line # "FAILED"]
    BY DEF Verify, Runs
  <1>2. ItemsPassed' = ItemsPassed /\ Item' = Item /\ blob' # 0
        /\ BlobsPassed' = BlobsPassed \cup {blob}
    BY <1>1, NextBlob
  <1>3. blob # 0
    BY <1>1, BlobsOfItem
  <1>4. ret'.item = (ret.item /\ line # "FAILED") /\ ret'.file = ret.file
        /\ ret' \in [item : BOOLEAN, file : BOOLEAN]
    BY <1>1 DEF VerifyInv
  <1>5. ret'.item <=> \A k \in BlobsPassed' :
                        Line(args, Item, Item.blobs[k], source) # "FAILED"
    BY <1>1, <1>2, <1>3, <1>4 DEF VerifyInv, AtHand
  <1>6. \A k \in BlobsPassed' : Resolves(Item, Item.blobs[k])
    BY <1>1, <1>2, <1>3 DEF VerifyInv, AtHand
  <1> HIDE DEF line
  <1> QED  BY <1>1, <1>2, <1>3, <1>4, <1>5, <1>6 DEF VerifyInv, VerifyIsExact, Ended

LEMMA EndVerifyIsExact ==
  ASSUME QueueInv, VerifyInv, EndVerify
  PROVE  ret.item <=> ItemHolds(args, Head(queue))
  <1>1. outcome = "running" /\ args.command = "verify" /\ queue # <<>>
        /\ blob > Len(Item.blobs)
    BY DEF EndVerify, Runs
  <1>2. Len(Item.blobs) \in Nat /\ DOMAIN Item.blobs = 1..Len(Item.blobs) /\ blob \in Nat
        /\ Wanted(args, Head(queue))
             = {k \in DOMAIN Item.blobs : Considered(args, Item.blobs[k])}
    BY <1>1, BlobsOfItem DEF QueueInv
  <1>3. \A k \in Wanted(args, Head(queue)) : k < blob
    BY <1>1, <1>2
  <1>4. BlobsPassed = Wanted(args, Head(queue)) /\ blob # 0
    BY <1>1, <1>2, <1>3 DEF BlobsPassed
  <1>5. /\ source = Source(args, Item) /\ source # Unreadable
        /\ \A k \in BlobsPassed : Resolves(Item, Item.blobs[k])
        /\ ret.item <=>
             \A k \in BlobsPassed : Line(args, Item, Item.blobs[k], source) # "FAILED"
    BY <1>1, <1>4 DEF VerifyInv
  <1>6. ItemHolds(args, Head(queue)) <=>
          /\ Source(args, Item) # Unreadable
          /\ \A k \in Wanted(args, Head(queue)) :
               /\ Resolves(Item, Item.blobs[k])
               /\ Line(args, Item, Item.blobs[k], Source(args, Item)) # "FAILED"
    BY DEF ItemHolds, Item
  <1> QED  BY <1>4, <1>5, <1>6

LEMMA NextVerify == QueueInv /\ VerifyInv /\ [Next]_vars => VerifyInv'
  <1> SUFFICES ASSUME QueueInv, VerifyInv, [Next]_vars PROVE VerifyInv'
    OBVIOUS
  <1>1. CASE Begin
    BY <1>1, BeginVerify
  <1>2. CASE Skip
    BY <1>2, SkipVerify
  <1>3. CASE End
    <2>1. ItemsPassed = Chosen(args)
      BY <1>3 DEF End, ItemsPassed
    <2> QED  BY <1>3, <2>1 DEF End, Finish, VerifyInv, VerifyIsExact, Ended
  <1>4. CASE NoSource
    <2>1. ~ItemHolds(args, Head(queue))
      BY <1>4 DEF NoSource, ItemHolds, Item
    <2> QED  BY <1>4, <2>1, ItemIsOver DEF NoSource
  <1>5. CASE ReadsBeyond
    <2>1. ~ItemHolds(args, Head(queue))
      BY <1>5 DEF ReadsBeyond, ItemHolds, Item, Source
    <2>2. Head(queue) \in Chosen(args)
      BY <1>5, BlobsOfItem DEF ReadsBeyond, Runs
    <2> QED  BY <1>5, <2>1, <2>2 DEF ReadsBeyond, Runs, Finish, VerifyInv, VerifyIsExact, Ended
  <1>6. CASE LoadSource
    <2>1. UNCHANGED <<args, queue, ret, outcome>> /\ source' = Source(args, Item)
          /\ source' # Unreadable /\ blob = 0 /\ blob' = 1
          /\ outcome = "running" /\ args.command = "verify" /\ queue # <<>>
      BY <1>6 DEF LoadSource, Runs
    <2>2. ItemsPassed' = ItemsPassed /\ Item' = Item
      BY <2>1 DEF ItemsPassed, Item
    <2>3. BlobsPassed' = {}
      <3>1. Wanted(args, Head(queue)) \subseteq 1..Len(Item.blobs)
            /\ Len(Item.blobs) \in Nat
        BY <2>1, BlobsOfItem
      <3>2. \A k \in Wanted(args, Head(queue)) : ~(k < 1)
        BY <3>1
      <3> QED  BY <2>1, <3>2 DEF BlobsPassed
    <2> QED  BY <2>1, <2>2, <2>3 DEF VerifyInv, VerifyIsExact, Ended
  <1>7. CASE TargetMissing
    <2>1. blob \in Wanted(args, Head(queue)) /\ ~Resolves(Item, Item.blobs[blob])
      BY <1>7, BlobsOfItem DEF TargetMissing, AtBlob, AtHand, Runs
    <2>2. ~ItemHolds(args, Head(queue))
      BY <2>1 DEF ItemHolds, Item
    <2> QED  BY <1>7, <2>2, ItemIsOver DEF TargetMissing
  <1>8. CASE Verify
    BY <1>8, VerifyOne
  <1>9. CASE EndVerify
    <2>1. ret.item \in BOOLEAN
      BY DEF VerifyInv
    <2> QED  BY <1>9, <2>1, EndVerifyIsExact, ItemIsOver DEF EndVerify
  <1>10. CASE Write \/ WriteFails \/ EndExport
    <2>1. UNCHANGED <<args, ret>> /\ args.command # "verify" /\ outcome' # "begin"
      BY <1>10 DEF Write, WriteFails, EndExport, Runs, Finish
    <2> QED  BY <2>1 DEF VerifyInv, VerifyIsExact
  <1>11. CASE UNCHANGED vars
    <2>1. ItemsPassed' = ItemsPassed /\ Item' = Item /\ BlobsPassed' = BlobsPassed
      BY <1>11 DEF vars, ItemsPassed, Item, BlobsPassed
    <2> QED  BY <1>11, <2>1 DEF vars, VerifyInv, VerifyIsExact, Ended
  <1> QED  BY <1>1, <1>2, <1>3, <1>4, <1>5, <1>6, <1>7, <1>8, <1>9, <1>10, <1>11 DEF Next

LEMMA VerifyInvariance == Spec => [](QueueInv /\ VerifyInv)
  <1>1. QueueInv /\ VerifyInv /\ [Next]_vars => (QueueInv /\ VerifyInv)'
    BY NextQueue, NextVerify
  <1> QED  BY <1>1, InitQueue, InitVerify, PTL DEF Spec

\* For any file, with --kind and a source or without, jcat-tool verify succeeds if and
\* only if every item it is about has a source and no blob of it fails.
THEOREM ExitStatusIsExact == Spec => []VerifyIsExact
  <1>1. VerifyInv => VerifyIsExact
    BY DEF VerifyInv
  <1> QED  BY <1>1, VerifyInvariance, PTL

-----------------------------------------------------------------------------
(* What is PASSED, and what the library says of the same item.              *)

\* Only what its engine accepts for the source of its item is PASSED.
PassedInv ==
  \A n, k : <<n, k, "PASSED">> \in report =>
    /\ n \in Chosen(args) /\ k \in DOMAIN args.items[n].blobs
    /\ LET item == args.items[n]
       IN  Line(args, item, item.blobs[k], Source(args, item)) = "PASSED"

LEMMA InitPassed == Init => PassedInv
  BY DEF Init, PassedInv

LEMMA NextPassed == QueueInv /\ VerifyInv /\ PassedInv /\ [Next]_vars => PassedInv'
  <1> SUFFICES ASSUME QueueInv, VerifyInv, PassedInv, [Next]_vars PROVE PassedInv'
    OBVIOUS
  <1>1. CASE UNCHANGED <<args, report>>
    BY <1>1 DEF PassedInv
  <1>2. CASE Verify
    <2> DEFINE line == Line(args, Item, AtHand, source)
    <2>1. UNCHANGED args /\ report' = report \cup {<<Head(queue), blob, line>>}
          /\ AtBlob /\ outcome = "running" /\ args.command = "verify" /\ queue # <<>>
      BY <1>2 DEF Verify, Runs
    <2>2. Head(queue) \in Chosen(args) /\ blob # 0
      BY <2>1, BlobsOfItem
    <2>3. source = Source(args, Item)
      BY <2>1, <2>2 DEF VerifyInv
    <2>4. ASSUME NEW n, NEW k, <<n, k, "PASSED">> \in report'
          PROVE  /\ n \in Chosen(args) /\ k \in DOMAIN args.items[n].blobs
                 /\ Line(args, args.items[n], args.items[n].blobs[k],
                         Source(args, args.items[n])) = "PASSED"
      <3>1. CASE <<n, k, "PASSED">> \in report
        BY <3>1 DEF PassedInv
      <3>2. CASE <<n, k, "PASSED">> = <<Head(queue), blob, line>>
        <4>1. n = Head(queue) /\ k = blob /\ line = "PASSED"
          BY <3>2
        <4> QED  BY <2>1, <2>2, <2>3, <4>1 DEF AtBlob, AtHand, Item
      <3> QED  BY <2>1, <2>4, <3>1, <3>2
    <2> HIDE DEF line
    <2> QED  BY <2>1, <2>4 DEF PassedInv
  <1>3. Verify \/ UNCHANGED <<args, report>>
    BY DEF Next, vars, Begin, Skip, End, NoSource, ReadsBeyond, LoadSource, TargetMissing,
           EndVerify, Write, WriteFails, EndExport, EndItem, Finish
  <1> QED  BY <1>1, <1>2, <1>3

\* An item of which every blob holds and one over the source passes is accepted.
LEMMA HoldingIsAccepted ==
  ASSUME NEW c \in Command, NEW n \in DOMAIN c.items, c.kind = Unknown,
         ItemHolds(c, n),
         \A k \in DOMAIN c.items[n].blobs :
           c.items[n].blobs[k].kind \in CsumKinds => c.items[n].blobs[k].target = Unknown,
         NEW k \in DOMAIN c.items[n].blobs, c.items[n].blobs[k].target = Unknown,
         Line(c, c.items[n], c.items[n].blobs[k], Source(c, c.items[n])) = "PASSED"
  PROVE  V!Accepts(LibraryRequest(c, n))
  <1> DEFINE r == LibraryRequest(c, n)
             item == c.items[n]
             data == Source(c, item)
  <1>1. r.op = "item" /\ r.item = item.blobs /\ r.data = data /\ r.flags = c.flags
        /\ r.allowed = Kinds /\ r.trusted = c.trusted
    BY DEF LibraryRequest
  <1>2. "REQUIRE_CHECKSUM" \notin r.flags /\ "REQUIRE_SIGNATURE" \notin r.flags
    <2>1. c.flags \in SUBSET {"ONLY_PQ"}
      BY DEF Command
    <2> QED  BY <1>1, <2>1
  <1>3. \A m \in DOMAIN item.blobs : Line(c, item, item.blobs[m], data) # "FAILED"
    <2>1. Wanted(c, n) = DOMAIN item.blobs
      BY DEF Wanted, Considered
    <2> QED  BY <2>1 DEF ItemHolds
  <1> HIDE DEF r
  <1>4. ASSUME NEW m \in V!Checksums(r) PROVE V!CsumAgrees(r, m)
    <2>1. m \in DOMAIN item.blobs /\ item.blobs[m].kind \in CsumKinds
      BY <1>1 DEF V!Checksums, V!CsumConsidered
    <2>2. VerifyBlob(c, item, item.blobs[m], data)
      BY <1>3, <2>1 DEF Line
    <2>3. SelfVerify(item.blobs[m].kind, data, item.blobs[m])
      BY <2>1, <2>2 DEF VerifyBlob
    <2> QED  BY <1>1, <2>3 DEF V!CsumAgrees, V!SelfVerify, SelfVerify, V!Digest, Digest
  <1>5. k \in V!Checksums(r) \cup V!Signatures(r)
    <2>1. item.blobs[k].kind \in CsumKinds \cup SigKinds
          /\ VerifyBlob(c, item, item.blobs[k], data)
      BY DEF Line
    <2>2. V!HasEngine(r, item.blobs[k].kind)
      BY <1>1, <2>1 DEF V!HasEngine, Kinds
    <2>3. CASE item.blobs[k].kind \in CsumKinds
      BY <1>1, <2>2, <2>3 DEF V!Checksums, V!CsumConsidered
    <2>4. CASE item.blobs[k].kind \notin CsumKinds
      <3>1. PubkeyVerify(c, item.blobs[k].kind, data, item.blobs[k])
        BY <2>1, <2>4 DEF VerifyBlob
      <3>2. V!PubkeyVerify(r, item.blobs[k].kind, data, item.blobs[k])
        BY <1>1, <3>1 DEF V!PubkeyVerify, PubkeyVerify, V!Signature, Signature
      <3> QED  BY <1>1, <2>1, <2>2, <2>4, <3>2
                  DEF V!Signatures, V!SigConsidered, V!SigVerifies
    <2> QED  BY <2>3, <2>4
  <1> QED  BY <1>2, <1>4, <1>5 DEF V!Accepts, r

\* What jcat-tool verify accepts whole, with a blob over the source PASSED, the
\* library accepts too.
THEOREM LibraryAgrees == Spec => []AgreesWithLibrary
  <1>1. Init => QueueInv /\ VerifyInv /\ PassedInv
    BY InitQueue, InitVerify, InitPassed
  <1>2. QueueInv /\ VerifyInv /\ PassedInv /\ [Next]_vars
          => (QueueInv /\ VerifyInv /\ PassedInv)'
    BY NextQueue, NextVerify, NextPassed
  <1>3. QueueInv /\ VerifyInv /\ PassedInv => AgreesWithLibrary
    <2> SUFFICES ASSUME QueueInv, VerifyInv, PassedInv, outcome = "success",
                        args.command = "verify", args.kind = Unknown, NEW n \in Chosen(args),
                        \A k \in DOMAIN args.items[n].blobs :
                          args.items[n].blobs[k].kind \in CsumKinds =>
                            args.items[n].blobs[k].target = Unknown,
                        NEW k \in DOMAIN args.items[n].blobs,
                        args.items[n].blobs[k].target = Unknown,
                        <<n, k, "PASSED">> \in report
                 PROVE  V!Accepts(LibraryRequest(args, n))
      BY DEF AgreesWithLibrary
    <2>1. n \in DOMAIN args.items /\ args \in Command
      BY ChosenIsSound DEF QueueInv
    <2>2. ItemHolds(args, n)
      BY DEF VerifyInv, VerifyIsExact, Ended
    <2>3. Line(args, args.items[n], args.items[n].blobs[k], Source(args, args.items[n]))
            = "PASSED"
      BY DEF PassedInv
    <2> QED  BY <2>1, <2>2, <2>3, HoldingIsAccepted
  <1> QED  BY <1>1, <1>2, <1>3, PTL DEF Spec

-----------------------------------------------------------------------------
(* jcat-tool export.                                                        *)

NameOf(n, k) == FileName(args.items[n], args.items[n].blobs[k])

IsExport(name, data) ==
  \E m \in DOMAIN args.items : \E j \in Wanted(args, m) :
    NameOf(m, j) = name /\ data = args.items[m].blobs[j].data

\* Each file written is some blob; there is one of the name of each blob passed.
ExportInv ==
  /\ outcome = "success" => queue = <<>>
  /\ args.command = "export" =>
       /\ \A name \in DOMAIN written : IsExport(name, written[name])
       /\ outcome # "begin" /\ outcome # "error" =>
            \A n \in ItemsPassed : \A k \in Wanted(args, n) : NameOf(n, k) \in DOMAIN written
       /\ outcome = "running" /\ queue # <<>> =>
            /\ blob # 0
            /\ \A k \in BlobsPassed : NameOf(Head(queue), k) \in DOMAIN written

LEMMA WantedAreBlobs ==
  ASSUME NEW c \in Command, NEW n \in DOMAIN c.items
  PROVE  Wanted(c, n) \subseteq 1..Len(c.items[n].blobs) /\ Len(c.items[n].blobs) \in Nat
  <1>1. c.items[n] \in ToolItem
    BY DEF Command
  <1>2. DOMAIN c.items[n].blobs = 1..Len(c.items[n].blobs) /\ Len(c.items[n].blobs) \in Nat
    BY <1>1 DEF ToolItem
  <1> QED  BY <1>2 DEF Wanted

LEMMA InitExport == Init => ExportInv
  BY DEF Init, ExportInv

LEMMA WriteExport ==
  ASSUME QueueInv, ExportInv, Write
  PROVE  ExportInv'
  <1> DEFINE name == FileName(Item, AtHand)
             n == Head(queue)
  <1>1. UNCHANGED <<args, queue, outcome>> /\ outcome = "running" /\ args.command = "export"
        /\ queue # <<>> /\ AtBlob /\ Considered(args, AtHand) /\ blob' = blob + 1
        /\ written' = [x \in DOMAIN written \cup {name} |->
                         IF x = name THEN AtHand.data ELSE written[x]]
    BY DEF Write, Runs
  <1>2. DOMAIN written' = DOMAIN written \cup {name} /\ written'[name] = AtHand.data
        /\ \A x \in DOMAIN written : x # name => written'[x] = written[x]
    <2> HIDE DEF name
    <2> QED  BY <1>1
  <1>3. name = NameOf(n, blob) /\ AtHand.data = args.items[n].blobs[blob].data
        /\ n \in DOMAIN args.items /\ blob \in Wanted(args, n)
    BY <1>1, BlobsOfItem DEF NameOf, Item, AtHand, AtBlob
  <1>4. ItemsPassed' = ItemsPassed /\ blob' # 0 /\ BlobsPassed' = BlobsPassed \cup {blob}
    BY <1>1, NextBlob
  <1>5. \A m, k : NameOf(m, k)' = NameOf(m, k)
    BY <1>1 DEF NameOf
  <1>6. \A x, data : IsExport(x, data)' <=> IsExport(x, data)
    BY <1>1, <1>5 DEF IsExport
  <1>7. IsExport(name, AtHand.data)
    BY <1>3 DEF IsExport
  <1> HIDE DEF name
  <1>8. \A x \in DOMAIN written' : IsExport(x, written'[x])
    BY <1>1, <1>2, <1>7 DEF ExportInv
  <1>9. \A k \in BlobsPassed' : NameOf(n, k) \in DOMAIN written'
    BY <1>1, <1>2, <1>3, <1>4 DEF ExportInv
  <1>10. \A m \in ItemsPassed' : \A k \in Wanted(args, m) : NameOf(m, k) \in DOMAIN written'
    BY <1>1, <1>2, <1>4 DEF ExportInv
  <1> QED  BY <1>1, <1>4, <1>5, <1>6, <1>8, <1>9, <1>10 DEF ExportInv

LEMMA EndItemExport ==
  ASSUME QueueInv, ExportInv, EndExport
  PROVE  ExportInv'
  <1>1. UNCHANGED <<args, written, outcome>> /\ outcome = "running" /\ args.command = "export"
        /\ queue # <<>> /\ queue' = Tail(queue) /\ blob' = 1 /\ blob > Len(Item.blobs)
    BY DEF EndExport, Runs
  <1>2. ItemsPassed' = ItemsPassed \cup {Head(queue)}
    BY <1>1, NextItem
  <1>3. BlobsPassed = Wanted(args, Head(queue))
    <2>1. Len(Item.blobs) \in Nat /\ blob \in Nat
          /\ Wanted(args, Head(queue)) \subseteq 1..Len(Item.blobs)
      BY <1>1, BlobsOfItem DEF QueueInv
    <2>2. \A k \in Wanted(args, Head(queue)) : k < blob
      BY <1>1, <2>1
    <2> QED  BY <2>2 DEF BlobsPassed
  <1>4. \A m \in ItemsPassed' : \A k \in Wanted(args, m) : NameOf(m, k) \in DOMAIN written
    BY <1>1, <1>2, <1>3 DEF ExportInv
  <1>5. \A m, k : NameOf(m, k)' = NameOf(m, k)
    BY <1>1 DEF NameOf
  <1>6. \A x, data : IsExport(x, data)' <=> IsExport(x, data)
    BY <1>1, <1>5 DEF IsExport
  <1>7. queue' # <<>> => BlobsPassed' = {}
    <2> SUFFICES ASSUME queue' # <<>>, NEW k \in BlobsPassed' PROVE FALSE
      OBVIOUS
    <2>1. Head(queue') \in Chosen(args)
      <3>1. queue' \in Seq(Chosen(args))
        BY <1>1, NextItem
      <3> QED  BY <3>1
    <2>2. k \in Wanted(args, Head(queue')) /\ k < 1
      BY <1>1 DEF BlobsPassed
    <2>3. Head(queue') \in DOMAIN args.items /\ args \in Command
      BY <2>1, ChosenIsSound DEF QueueInv
    <2>4. k \in 1..Len(args.items[Head(queue')].blobs)
          /\ Len(args.items[Head(queue')].blobs) \in Nat
      BY <2>2, <2>3, WantedAreBlobs
    <2> QED  BY <2>2, <2>4
  <1>8. \A x \in DOMAIN written : IsExport(x, written[x])
    BY <1>1 DEF ExportInv
  <1> QED  BY <1>1, <1>4, <1>5, <1>6, <1>7, <1>8 DEF ExportInv

LEMMA NextExport == QueueInv /\ ExportInv /\ [Next]_vars => ExportInv'
  <1> SUFFICES ASSUME QueueInv, ExportInv, [Next]_vars PROVE ExportInv'
    OBVIOUS
  <1>1. CASE UNCHANGED args /\ args.command # "export" /\ outcome' # "success"
    BY <1>1 DEF ExportInv
  <1>2. CASE UNCHANGED <<args, written>> /\ outcome' = "error"
    BY <1>2 DEF ExportInv, IsExport, NameOf
  <1>3. CASE Begin
    <2>1. CASE outcome' = "running" /\ args.command = "export"
      <3>1. ItemsPassed' = {}
        BY <1>3, <2>1, NothingPassed
      <3>2. UNCHANGED <<args, written>> /\ blob' = 1 /\ written = <<>>
        BY <1>3, <2>1 DEF Begin, Finish, QueueInv
      <3>3. queue' # <<>> => BlobsPassed' = {}
        <4> SUFFICES ASSUME queue' # <<>>, NEW k \in BlobsPassed' PROVE FALSE
          OBVIOUS
        <4>1. k \in Wanted(args, Head(queue')) /\ k < 1
          BY <3>2 DEF BlobsPassed
        <4>2. QueueInv'
          BY NextQueue
        <4>3. Head(queue') \in Chosen(args) /\ args \in Command
          <5>1. queue' \in Seq(Chosen(args)) /\ args \in Command
            BY <3>2, <4>2 DEF QueueInv
          <5> QED  BY <5>1
        <4>4. Head(queue') \in DOMAIN args.items
          BY <4>3, ChosenIsSound
        <4>5. k \in 1..Len(args.items[Head(queue')].blobs)
              /\ Len(args.items[Head(queue')].blobs) \in Nat
          BY <4>1, <4>3, <4>4, WantedAreBlobs
        <4> QED  BY <4>1, <4>5
      <3> QED  BY <2>1, <3>1, <3>2, <3>3 DEF ExportInv
    <2>2. CASE outcome' = "running" /\ args.command # "export"
      BY <1>1, <1>3, <2>2 DEF Begin, Finish
    <2>3. CASE outcome' # "running"
      BY <1>2, <1>3, <2>3 DEF Begin, Finish
    <2> QED  BY <2>1, <2>2, <2>3
  <1>4. CASE Skip
    <2>1. UNCHANGED <<args, queue, written, outcome>> /\ outcome = "running" /\ queue # <<>>
          /\ AtBlob /\ blob' = blob + 1 /\ ~Considered(args, AtHand)
      BY <1>4 DEF Skip
    <2>2. ItemsPassed' = ItemsPassed /\ blob' # 0 /\ BlobsPassed' = BlobsPassed
      BY <2>1, NextBlob
    <2> QED  BY <2>1, <2>2 DEF ExportInv, IsExport, NameOf
  <1>5. CASE End
    <2>1. UNCHANGED <<args, queue, written>> /\ outcome = "running" /\ queue = <<>>
          /\ outcome' \in {"success", "error"}
      BY <1>5 DEF End, Finish
    <2>2. ItemsPassed' = ItemsPassed
      BY <2>1 DEF ItemsPassed
    <2> QED  BY <2>1, <2>2 DEF ExportInv, IsExport, NameOf
  <1>6. CASE NoSource \/ ReadsBeyond \/ LoadSource \/ TargetMissing \/ Verify \/ EndVerify
    <2>1. UNCHANGED args /\ args.command = "verify" /\ outcome' # "success"
      BY <1>6 DEF NoSource, ReadsBeyond, LoadSource, TargetMissing, Verify, EndVerify, Runs,
                  EndItem, Finish
    <2> QED  BY <1>1, <2>1
  <1>7. CASE Write
    BY <1>7, WriteExport
  <1>8. CASE WriteFails
    BY <1>2, <1>8 DEF WriteFails, Finish
  <1>9. CASE EndExport
    BY <1>9, EndItemExport
  <1>10. CASE UNCHANGED vars
    <2>1. ItemsPassed' = ItemsPassed /\ BlobsPassed' = BlobsPassed
      BY <1>10 DEF vars, ItemsPassed, BlobsPassed
    <2> QED  BY <1>10, <2>1 DEF vars, ExportInv, IsExport, NameOf
  <1> QED  BY <1>3, <1>4, <1>5, <1>6, <1>7, <1>8, <1>9, <1>10 DEF Next

\* Whatever the blobs, and however many share a name, a successful export has left a
\* file of the name of each it is about, with the contents of one of that name.
THEOREM ExportLeavesNothingOut == Spec => []ExportIsComplete
  <1>1. Init => QueueInv /\ ExportInv
    BY InitQueue, InitExport
  <1>2. QueueInv /\ ExportInv /\ [Next]_vars => (QueueInv /\ ExportInv)'
    BY NextQueue, NextExport
  <1>3. QueueInv /\ ExportInv => ExportIsComplete
    <2> SUFFICES ASSUME QueueInv, ExportInv, outcome = "success", args.command = "export",
                        NEW n \in DOMAIN args.items, NEW k \in Wanted(args, n)
                 PROVE  /\ NameOf(n, k) \in DOMAIN written
                        /\ IsExport(NameOf(n, k), written[NameOf(n, k)])
      BY DEF ExportIsComplete, NameOf, IsExport
    <2>1. n \in ItemsPassed
      BY DEF QueueInv, ExportInv, ItemsPassed
    <2> QED  BY <2>1 DEF ExportInv
  <1> QED  BY <1>1, <1>2, <1>3, PTL DEF Spec
=============================================================================
