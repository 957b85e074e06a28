---------------------------- MODULE MCJcatStore ----------------------------
(* JcatStore with its interchangeable processes and IDs, and without what   *)
(* has no influence on the file: how a command that is over has ended, and, *)
(* once the copy has been edited, what an overlapping command was asked.    *)
EXTENDS JcatStore

CONSTANTS Checksum, Pkcs7

ABlob(kind, target, data) == [kind |-> kind, target |-> target, data |-> data]

\* A signature over a checksum of the file.
MCNewBlobs == {ABlob(Pkcs7, Checksum, "whole")}

\* Such a checksum, and files that are not what their names say.
MCFiles == {ABlob(Checksum, Unknown, data) : data \in Data \ {"null"}}

Symmetry == Permutations(Procs) \cup Permutations(Ids \ (RawIds \cup {NoId}))

View == <<calm, unclean, disk, pc, copy, faults, IF calm THEN command ELSE <<>>>>
=============================================================================
