---------------------------- MODULE MCJcatEngine ----------------------------
(* A small instance of JcatEngine: two engines, the in-memory one and the   *)
(* GnuPG one, a key file for each, two keyring directories.                 *)
EXTENDS JcatEngine

MCEngineOf ==
  [file \in KeyFiles |-> IF file = "GPG-KEY-a" THEN "gpg" ELSE "pkcs7"]
=============================================================================
