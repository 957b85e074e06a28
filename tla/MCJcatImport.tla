---------------------------- MODULE MCJcatImport ----------------------------
(* Documents for JcatImport: a good one, all that differ from it in one      *)
(* member, and those with a good item before or behind a bad one.  Numbers   *)
(* have 3 bits; 1 is a kind there is, 5 one that is not known yet, and 9 is  *)
(* cut to 1.                                                                 *)
EXTENDS JcatImport

CONSTANTS A, B

MCIds == {A, B}

Text(bytes)   == [encoding |-> "text", bytes |-> bytes]
Base64(bytes) == [encoding |-> "base64", bytes |-> bytes]

GoodBlob ==
  [Kind |-> {1}, Flags |-> {1}, Target |-> {}, Timestamp |-> {1}, AppstreamId |-> {},
   Data |-> {Text(<<"a">>)}]

WithMember(member, values) ==
  {[GoodBlob EXCEPT ![member] = value] : value \in values}

Opt(values) == {{}} \cup {{v} : v \in values}

BlobElements ==
  {Other, GoodBlob}
    \cup WithMember("Kind", Opt({Other, -1, 0, 5, 9}))
    \cup WithMember("Flags", Opt({Other, -1, 0, 2, 9}))
    \cup WithMember("Target", Opt({Other, -1, 1, 5, 8, 9}))
    \cup WithMember("Timestamp", Opt({Other, -1, 0, 9}))
    \cup WithMember("AppstreamId", Opt({Other, A}))
    \cup WithMember("Data", Opt({Other, Text(<<>>), Base64(<<"xFF">>)}))
    \cup {[GoodBlob EXCEPT !.Flags = {2}, !.Data = {Base64(<<"NUL", "xFF">>)}]}

AnItem(id, aliases, blobs) == [Id |-> id, AliasIds |-> aliases, Blobs |-> blobs]

GoodItem == AnItem({A}, {}, {<<GoodBlob>>})
BadItem  == AnItem({B}, {}, {<<GoodBlob, Other>>})

ItemElements ==
  {Other, BadItem, AnItem({}, {}, {<<GoodBlob>>}), AnItem({Other}, {}, {<<GoodBlob>>}),
   AnItem({NoId}, {}, {<<GoodBlob>>}), AnItem({A}, {}, {}), AnItem({A}, {}, {Other}),
   AnItem({A}, {}, {<<>>}), AnItem({A}, {Other}, {<<GoodBlob>>}),
   AnItem({A}, {<<>>}, {<<GoodBlob>>}), AnItem({A}, {<<B, Other>>}, {<<GoodBlob>>}),
   AnItem({A}, {<<B, A, B>>}, {<<GoodBlob>>})}
    \cup {AnItem({B}, {}, {<<blob>>}) : blob \in BlobElements}

ADocument(items) == [JcatVersionMajor |-> {0}, JcatVersionMinor |-> {1}, Items |-> items]

MCDocuments ==
  {NotJson, ADocument({}), ADocument({Other}), ADocument({<<>>}),
   [ADocument({<<GoodItem>>}) EXCEPT !.JcatVersionMajor = {}],
   [ADocument({<<>>}) EXCEPT !.JcatVersionMajor = {}],
   [ADocument({<<GoodItem>>}) EXCEPT !.JcatVersionMinor = {-1}],
   [ADocument({<<GoodItem>>}) EXCEPT !.JcatVersionMajor = {Other}],
   ADocument({<<GoodItem, BadItem>>}), ADocument({<<BadItem, GoodItem>>}),
   ADocument({<<GoodItem, GoodItem>>})}
    \cup {ADocument({<<item>>}) : item \in ItemElements}

MCNewBlobs ==
  [kind : {1}, flags : {0, 1}, target : {0}, timestamp : {0}, appstream_id : {{}},
   data : {<<>>, <<"a">>, <<"xFF">>, <<"a", "NUL", "xFF">>, <<"NUL">>}]
    \cup {[kind |-> 2, flags |-> 0, target |-> 1, timestamp |-> 0, appstream_id |-> {A},
          data |-> <<"a">>]}

\* How the last import ended has no influence on what follows.
View == <<file, now>>
=============================================================================
