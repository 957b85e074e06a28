-------------------------- MODULE MCJcatSignatures --------------------------
(* JcatSignatures with two certificates, one of them post-quantum, and the  *)
(* signatures that tell the engines apart: good ones of either certificate  *)
(* at two times, one without a time, one without a name, one whose          *)
(* certificate is out of its validity period, a bad one.                    *)
EXTENDS JcatSignatures

CONSTANTS Rsa, MlDsa

MCCerts   == {Rsa, MlDsa}
MCPqCerts == {MlDsa}

Signature(cert, time, status, named) ==
  [cert |-> cert, time |-> time, status |-> status, named |-> named]

MCSignatures ==
  { Signature(Rsa,   2, "good",    TRUE),
    Signature(Rsa,   3, "good",    TRUE),
    Signature(Rsa,   3, "good",    FALSE),
    Signature(Rsa,   2, "expired", TRUE),
    Signature(Rsa,   2, "bad",     TRUE),
    Signature(MlDsa, 0, "good",    TRUE),
    Signature(MlDsa, 2, "good",    TRUE),
    Signature(MlDsa, 3, "good",    TRUE) }

\* The last is larger than any time of a signature.
MCUtcOffsets == {-1, 0, 3}

\* A call that has returned does nothing more: a state that no other step leaves
\* is a loop that is stuck, which TLC then reports as a deadlock.
Returned == outcome # "running" /\ UNCHANGED vars

MCSpec == Init /\ [][Next \/ Returned]_vars
=============================================================================
