------------------------ MODULE JcatKeyrings_proofs ------------------------
(***************************************************************************)
(* Proofs about the keyring directory, for any number of processes, of     *)
(* keys and of calls that are cut short, with both engines at work.        *)
(***************************************************************************)
EXTENDS JcatKeyrings, TLAPS

-----------------------------------------------------------------------------
(* The PKCS-7 engine.  What is known at each step is which files there are   *)
(* and, of processes that take turns, whose keys they hold.  That the        *)
(* certificate is never there without its key is what lets the next call     *)
(* take up one that was cut short.                                           *)

\* Known at a step of any process: a key that was there stays.
Pkcs7Holds(p) ==
  /\ p_pc[p] = "read key" => p_secret # None
  /\ p_pc[p] \in {"make dir", "write key", "test cert", "read cert", "write cert", "sign"} =>
       p_privkey[p] # None
  /\ p_pc[p] = "read cert" => p_public # None

\* Known if the processes take turns.
Pkcs7At(p) ==
  /\ p_pc[p] \in {"test dir", "make dir", "write key"} => p_secret = None
  /\ p_pc[p] \in {"test cert", "read cert", "write cert", "sign"} => p_privkey[p] = p_secret
  /\ p_pc[p] = "write cert" => p_public = None
  /\ p_pc[p] = "sign" => p_public # None

Pkcs7Turns ==
  /\ \A p, q \in Procs : p_pc[p] # "idle" /\ p_pc[q] # "idle" => p = q
  /\ p_public # None => p_secret = p_public
  /\ \A key \in p_signed : key = p_public
  /\ \A p \in Procs : Pkcs7At(p)

Pkcs7Inv ==
  /\ Pkcs7!TypeOK
  /\ \A p \in Procs : Pkcs7Holds(p)
  /\ serial => Pkcs7Turns

Pkcs7Acts(p) == Pkcs7!Begin(p) \/ Pkcs7!Step(p) \/ Pkcs7!Abort(p)

\* A generated key is a key.
LEMMA Pkcs7Generates ==
  ASSUME Pkcs7!TypeOK, p_used # Keys
  PROVE  (CHOOSE k \in Keys : k \notin p_used) \in Keys \ {None}
  <1>1. \E k \in Keys : k \notin p_used
    BY DEF Pkcs7!TypeOK
  <1>2. (CHOOSE k \in Keys : k \notin p_used) \in Keys
    BY <1>1
  <1> QED  BY <1>2, KeyringAssumption

\* Every step of the PKCS-7 engine keeps the types of its variables.
LEMMA Pkcs7Types ==
  ASSUME Pkcs7!TypeOK, \A q \in Procs : Pkcs7Holds(q), NEW p \in Procs, Pkcs7Acts(p)
  PROVE  Pkcs7!TypeOK'
  <1> USE DEF Pkcs7!TypeOK, Pkcs7!Goto, Pkcs7!disk, Pkcs7Holds
  <1>1. CASE Pkcs7!Begin(p)
    BY <1>1 DEF Pkcs7!Begin
  <1>2. CASE Pkcs7!TestKey(p)
    BY <1>2 DEF Pkcs7!TestKey
  <1>3. CASE Pkcs7!ReadKey(p)
    BY <1>3 DEF Pkcs7!ReadKey
  <1>4. CASE Pkcs7!NewKey(p)
    BY <1>4, Pkcs7Generates DEF Pkcs7!NewKey
  <1>5. CASE Pkcs7!MakeDir(p)
    BY <1>5 DEF Pkcs7!MakeDir
  <1>6. CASE Pkcs7!WriteKey(p)
    BY <1>6 DEF Pkcs7!WriteKey
  <1>7. CASE Pkcs7!TestCert(p)
    BY <1>7 DEF Pkcs7!TestCert
  <1>8. CASE Pkcs7!ReadCert(p)
    BY <1>8 DEF Pkcs7!ReadCert
  <1>9. CASE Pkcs7!WriteCert(p)
    BY <1>9 DEF Pkcs7!WriteCert
  <1>10. CASE Pkcs7!Sign(p)
    BY <1>10 DEF Pkcs7!Sign
  <1>11. CASE Pkcs7!Abort(p)
    BY <1>11 DEF Pkcs7!Abort
  <1> QED
    BY <1>1, <1>2, <1>3, <1>4, <1>5, <1>6, <1>7, <1>8, <1>9, <1>10, <1>11 DEF Pkcs7Acts,
       Pkcs7!Step

\* Every step of the PKCS-7 engine leads to what is known at the next one.
LEMMA Pkcs7Keeps ==
  ASSUME Pkcs7!TypeOK, \A q \in Procs : Pkcs7Holds(q), NEW p \in Procs, Pkcs7Acts(p)
  PROVE  \A q \in Procs : Pkcs7Holds(q)'
  <1> USE DEF Pkcs7!TypeOK, Pkcs7!Goto, Pkcs7!disk, Pkcs7Holds
  <1>1. CASE Pkcs7!Begin(p)
    BY <1>1 DEF Pkcs7!Begin
  <1>2. CASE Pkcs7!TestKey(p)
    BY <1>2 DEF Pkcs7!TestKey
  <1>3. CASE Pkcs7!ReadKey(p)
    BY <1>3 DEF Pkcs7!ReadKey
  <1>4. CASE Pkcs7!NewKey(p)
    BY <1>4, Pkcs7Generates DEF Pkcs7!NewKey
  <1>5. CASE Pkcs7!MakeDir(p)
    BY <1>5 DEF Pkcs7!MakeDir
  <1>6. CASE Pkcs7!WriteKey(p)
    BY <1>6 DEF Pkcs7!WriteKey
  <1>7. CASE Pkcs7!TestCert(p)
    BY <1>7 DEF Pkcs7!TestCert
  <1>8. CASE Pkcs7!ReadCert(p)
    BY <1>8 DEF Pkcs7!ReadCert
  <1>9. CASE Pkcs7!WriteCert(p)
    BY <1>9 DEF Pkcs7!WriteCert
  <1>10. CASE Pkcs7!Sign(p)
    BY <1>10 DEF Pkcs7!Sign
  <1>11. CASE Pkcs7!Abort(p)
    BY <1>11 DEF Pkcs7!Abort
  <1> QED
    BY <1>1, <1>2, <1>3, <1>4, <1>5, <1>6, <1>7, <1>8, <1>9, <1>10, <1>11 DEF Pkcs7Acts,
       Pkcs7!Step

\* So does every step of a process that has its turn.
LEMMA Pkcs7TakesTurns ==
  ASSUME Pkcs7Inv, serial, NEW p \in Procs, Pkcs7Acts(p)
  PROVE  Pkcs7Turns'
  <1> USE DEF Pkcs7!TypeOK, Pkcs7!Goto, Pkcs7!disk, Pkcs7Holds, Pkcs7Inv, Pkcs7Turns, Pkcs7At
  <1>1. CASE Pkcs7!Begin(p)
    BY <1>1 DEF Pkcs7!Begin
  <1>2. CASE Pkcs7!TestKey(p)
    BY <1>2 DEF Pkcs7!TestKey
  <1>3. CASE Pkcs7!ReadKey(p)
    BY <1>3 DEF Pkcs7!ReadKey
  <1>4. CASE Pkcs7!NewKey(p)
    BY <1>4, Pkcs7Generates DEF Pkcs7!NewKey
  <1>5. CASE Pkcs7!MakeDir(p)
    BY <1>5 DEF Pkcs7!MakeDir
  <1>6. CASE Pkcs7!WriteKey(p)
    BY <1>6 DEF Pkcs7!WriteKey
  <1>7. CASE Pkcs7!TestCert(p)
    BY <1>7 DEF Pkcs7!TestCert
  <1>8. CASE Pkcs7!ReadCert(p)
    BY <1>8 DEF Pkcs7!ReadCert
  <1>9. CASE Pkcs7!WriteCert(p)
    <2> USE <1>9 DEF Pkcs7!WriteCert
    <2>1. \A key \in p_signed' : FALSE
      <3>1. p_public = None /\ p_signed' = p_signed /\ p_signed \subseteq Keys
        OBVIOUS
      <3> QED
        BY <3>1, KeyringAssumption DEF Pkcs7Turns
    <2>2. p_public' = p_secret' /\ p_privkey'[p] = p_secret' /\ p_public' # None
      OBVIOUS
    <2>3. \A q \in Procs \ {p} : p_pc'[q] = "idle"
      OBVIOUS
    <2>4. p_pc'[p] = "sign"
      OBVIOUS
    <2> QED
      BY <2>1, <2>2, <2>3, <2>4
  <1>10. CASE Pkcs7!Sign(p)
    BY <1>10 DEF Pkcs7!Sign
  <1>11. CASE Pkcs7!Abort(p)
    BY <1>11 DEF Pkcs7!Abort
  <1> QED
    BY <1>1, <1>2, <1>3, <1>4, <1>5, <1>6, <1>7, <1>8, <1>9, <1>10, <1>11 DEF Pkcs7Acts,
       Pkcs7!Step

-----------------------------------------------------------------------------
(* The Ed25519 engine.  The public half may be of a pair that was never      *)
(* finished; once there is a secret half, the public one belongs to it.      *)

\* Known at a step of any process.
Ed25519Holds(p) ==
  /\ e_pc[p] = "read public" => e_secret # None
  /\ e_pc[p] = "read secret" => e_secret # None /\ e_pubkey[p] # None
  /\ e_pc[p] \in {"make dir", "write public", "write secret", "sign"} =>
       e_pubkey[p] # None /\ e_privkey[p] # None

\* Known if the processes take turns.
Ed25519At(p) ==
  /\ e_pc[p] \in {"test dir", "make dir", "write public", "write secret"} => e_secret = None
  /\ e_pc[p] \in {"make dir", "write public", "write secret"} => e_pubkey[p] = e_privkey[p]
  /\ e_pc[p] = "write secret" => e_public = e_privkey[p]
  /\ e_pc[p] = "read secret" => e_pubkey[p] = e_public
  /\ e_pc[p] = "sign" => e_secret # None /\ e_pubkey[p] = e_public /\ e_privkey[p] = e_secret

Ed25519Turns ==
  /\ \A p, q \in Procs : e_pc[p] # "idle" /\ e_pc[q] # "idle" => p = q
  /\ e_secret # None => e_public = e_secret
  /\ \A halves \in e_signed : e_secret # None /\ halves = <<e_public, e_public>>
  /\ \A p \in Procs : Ed25519At(p)

Ed25519Inv ==
  /\ Ed25519!TypeOK
  /\ \A p \in Procs : Ed25519Holds(p)
  /\ serial => Ed25519Turns

Ed25519Acts(p) == Ed25519!Begin(p) \/ Ed25519!Step(p) \/ Ed25519!Abort(p)

\* A generated key is a key.
LEMMA Ed25519Generates ==
  ASSUME Ed25519!TypeOK, e_used # Keys
  PROVE  (CHOOSE k \in Keys : k \notin e_used) \in Keys \ {None}
  <1>1. \E k \in Keys : k \notin e_used
    BY DEF Ed25519!TypeOK
  <1>2. (CHOOSE k \in Keys : k \notin e_used) \in Keys
    BY <1>1
  <1> QED  BY <1>2, KeyringAssumption

\* Every step of the Ed25519 engine keeps the types of its variables.
LEMMA Ed25519Types ==
  ASSUME Ed25519!TypeOK, \A q \in Procs : Ed25519Holds(q), NEW p \in Procs, Ed25519Acts(p)
  PROVE  Ed25519!TypeOK'
  <1> USE DEF Ed25519!TypeOK, Ed25519!Goto, Ed25519!disk, Ed25519Holds
  <1>1. CASE Ed25519!Begin(p)
    BY <1>1 DEF Ed25519!Begin
  <1>2. CASE Ed25519!TestSecret(p)
    BY <1>2 DEF Ed25519!TestSecret
  <1>3. CASE Ed25519!NewPair(p)
    BY <1>3, Ed25519Generates DEF Ed25519!NewPair
  <1>4. CASE Ed25519!MakeDir(p)
    BY <1>4 DEF Ed25519!MakeDir
  <1>5. CASE Ed25519!WritePublic(p)
    BY <1>5 DEF Ed25519!WritePublic
  <1>6. CASE Ed25519!WriteSecret(p)
    BY <1>6 DEF Ed25519!WriteSecret
  <1>7. CASE Ed25519!ReadPublic(p)
    BY <1>7 DEF Ed25519!ReadPublic
  <1>8. CASE Ed25519!ReadSecret(p)
    BY <1>8 DEF Ed25519!ReadSecret
  <1>9. CASE Ed25519!Sign(p)
    <2> USE <1>9 DEF Ed25519!Sign
    <2>1. e_pubkey[p] \in Keys /\ e_privkey[p] \in Keys
      OBVIOUS
    <2>2. <<e_pubkey[p], e_privkey[p]>> \in Keys \X Keys
      BY <2>1
    <2>3. e_signed' \subseteq Keys \X Keys
      BY <2>2
    <2> QED
      BY <2>3
  <1>10. CASE Ed25519!Abort(p)
    BY <1>10 DEF Ed25519!Abort
  <1> QED
    BY <1>1, <1>2, <1>3, <1>4, <1>5, <1>6, <1>7, <1>8, <1>9, <1>10 DEF Ed25519Acts, Ed25519!Step

\* Every step of the Ed25519 engine leads to what is known at the next one.
LEMMA Ed25519Keeps ==
  ASSUME Ed25519!TypeOK, \A q \in Procs : Ed25519Holds(q), NEW p \in Procs, Ed25519Acts(p)
  PROVE  \A q \in Procs : Ed25519Holds(q)'
  <1> USE DEF Ed25519!TypeOK, Ed25519!Goto, Ed25519!disk, Ed25519Holds
  <1>1. CASE Ed25519!Begin(p)
    BY <1>1 DEF Ed25519!Begin
  <1>2. CASE Ed25519!TestSecret(p)
    BY <1>2 DEF Ed25519!TestSecret
  <1>3. CASE Ed25519!NewPair(p)
    BY <1>3, Ed25519Generates DEF Ed25519!NewPair
  <1>4. CASE Ed25519!MakeDir(p)
    BY <1>4 DEF Ed25519!MakeDir
  <1>5. CASE Ed25519!WritePublic(p)
    BY <1>5 DEF Ed25519!WritePublic
  <1>6. CASE Ed25519!WriteSecret(p)
    BY <1>6 DEF Ed25519!WriteSecret
  <1>7. CASE Ed25519!ReadPublic(p)
    BY <1>7 DEF Ed25519!ReadPublic
  <1>8. CASE Ed25519!ReadSecret(p)
    BY <1>8 DEF Ed25519!ReadSecret
  <1>9. CASE Ed25519!Sign(p)
    BY <1>9 DEF Ed25519!Sign
  <1>10. CASE Ed25519!Abort(p)
    BY <1>10 DEF Ed25519!Abort
  <1> QED
    BY <1>1, <1>2, <1>3, <1>4, <1>5, <1>6, <1>7, <1>8, <1>9, <1>10 DEF Ed25519Acts, Ed25519!Step

\* So does every step of a process that has its turn.
LEMMA Ed25519TakesTurns ==
  ASSUME Ed25519Inv, serial, NEW p \in Procs, Ed25519Acts(p)
  PROVE  Ed25519Turns'
  <1> USE DEF Ed25519!TypeOK, Ed25519!Goto, Ed25519!disk, Ed25519Holds, Ed25519Inv,
          Ed25519Turns, Ed25519At
  <1>1. CASE Ed25519!Begin(p)
    BY <1>1 DEF Ed25519!Begin
  <1>2. CASE Ed25519!TestSecret(p)
    BY <1>2 DEF Ed25519!TestSecret
  <1>3. CASE Ed25519!NewPair(p)
    BY <1>3, Ed25519Generates DEF Ed25519!NewPair
  <1>4. CASE Ed25519!MakeDir(p)
    BY <1>4 DEF Ed25519!MakeDir
  <1>5. CASE Ed25519!WritePublic(p)
    BY <1>5 DEF Ed25519!WritePublic
  <1>6. CASE Ed25519!WriteSecret(p)
    BY <1>6 DEF Ed25519!WriteSecret
  <1>7. CASE Ed25519!ReadPublic(p)
    BY <1>7 DEF Ed25519!ReadPublic
  <1>8. CASE Ed25519!ReadSecret(p)
    BY <1>8 DEF Ed25519!ReadSecret
  <1>9. CASE Ed25519!Sign(p)
    BY <1>9 DEF Ed25519!Sign
  <1>10. CASE Ed25519!Abort(p)
    BY <1>10 DEF Ed25519!Abort
  <1> QED
    BY <1>1, <1>2, <1>3, <1>4, <1>5, <1>6, <1>7, <1>8, <1>9, <1>10 DEF Ed25519Acts, Ed25519!Step

-----------------------------------------------------------------------------
(* Both engines in one directory.  An engine sees of the other's steps only  *)
(* that the directory may be made and that a call may be cut short.          *)

IInv == Pkcs7Inv /\ Ed25519Inv

Pkcs7Rests   == dir' \in BOOLEAN /\ UNCHANGED <<serial, pkcs7_vars>>
Ed25519Rests == dir' \in BOOLEAN /\ UNCHANGED <<serial, ed25519_vars>>

\* What a step is to the PKCS-7 engine: its own, or one that leaves its files alone.
LEMMA Pkcs7View ==
  ASSUME dir \in BOOLEAN, [Next]_vars
  PROVE  (\E p \in Procs : Pkcs7Acts(p)) \/ Pkcs7Rests
  <1> USE DEF Pkcs7Rests, pkcs7_vars
  <1>1. CASE UNCHANGED vars
    BY <1>1 DEF vars
  <1>2. ASSUME NEW p \in Procs, Ed25519!Begin(p) \/ Ed25519!Step(p) \/ Ed25519!Abort(p),
               UNCHANGED <<engine, pkcs7_vars>>
        PROVE  Pkcs7Rests
    BY <1>2 DEF Ed25519!Begin, Ed25519!Step, Ed25519!Abort, Ed25519!disk, Ed25519!TestSecret,
         Ed25519!NewPair, Ed25519!MakeDir, Ed25519!WritePublic, Ed25519!WriteSecret,
         Ed25519!ReadPublic, Ed25519!ReadSecret, Ed25519!Sign
  <1> QED
    BY <1>1, <1>2 DEF Next, Pkcs7Step, Ed25519Step, Pkcs7Acts

\* What a step is to the Ed25519 engine: its own, or one that leaves its files alone.
LEMMA Ed25519View ==
  ASSUME dir \in BOOLEAN, [Next]_vars
  PROVE  (\E p \in Procs : Ed25519Acts(p)) \/ Ed25519Rests
  <1> USE DEF Ed25519Rests, ed25519_vars
  <1>1. CASE UNCHANGED vars
    BY <1>1 DEF vars
  <1>2. ASSUME NEW p \in Procs, Pkcs7!Begin(p) \/ Pkcs7!Step(p) \/ Pkcs7!Abort(p),
               UNCHANGED <<engine, ed25519_vars>>
        PROVE  Ed25519Rests
    BY <1>2 DEF Pkcs7!Begin, Pkcs7!Step, Pkcs7!Abort, Pkcs7!disk, Pkcs7!TestKey,
         Pkcs7!ReadKey, Pkcs7!NewKey, Pkcs7!MakeDir, Pkcs7!WriteKey, Pkcs7!TestCert,
         Pkcs7!ReadCert, Pkcs7!WriteCert, Pkcs7!Sign
  <1> QED
    BY <1>1, <1>2 DEF Next, Pkcs7Step, Ed25519Step, Ed25519Acts

\* An empty keyring directory satisfies the invariant.
LEMMA InvInit == Init => IInv
  <1> SUFFICES ASSUME Init PROVE IInv
    OBVIOUS
  <1>1. Pkcs7Inv
    BY DEF Init, Pkcs7!Init, Pkcs7Inv, Pkcs7!TypeOK, Pkcs7Holds, Pkcs7Turns, Pkcs7At
  <1>2. Ed25519Inv
    BY DEF Init, Ed25519!Init, Ed25519Inv, Ed25519!TypeOK, Ed25519Holds, Ed25519Turns,
           Ed25519At
  <1> QED  BY <1>1, <1>2 DEF IInv

\* Every step of either engine keeps the invariant of the PKCS-7 one.
LEMMA Pkcs7InvNext == Pkcs7Inv /\ [Next]_vars => Pkcs7Inv'
  <1> SUFFICES ASSUME Pkcs7Inv, [Next]_vars PROVE Pkcs7Inv'
    OBVIOUS
  <1>1. CASE Pkcs7Rests
    BY <1>1 DEF Pkcs7Rests, pkcs7_vars, Pkcs7Inv, Pkcs7!TypeOK, Pkcs7Holds, Pkcs7Turns, Pkcs7At
  <1>2. ASSUME NEW p \in Procs, Pkcs7Acts(p) PROVE Pkcs7Inv'
    <2>1. serial' = serial
      BY <1>2 DEF Pkcs7Acts, Pkcs7!Begin, Pkcs7!Step, Pkcs7!Abort, Pkcs7!disk, Pkcs7!TestKey,
           Pkcs7!ReadKey, Pkcs7!NewKey, Pkcs7!MakeDir, Pkcs7!WriteKey, Pkcs7!TestCert,
           Pkcs7!ReadCert, Pkcs7!WriteCert, Pkcs7!Sign
    <2> QED
      BY <1>2, <2>1, Pkcs7Types, Pkcs7Keeps, Pkcs7TakesTurns DEF Pkcs7Inv
  <1> QED
    BY <1>1, <1>2, Pkcs7View DEF Pkcs7Inv, Pkcs7!TypeOK

\* Every step of either engine keeps the invariant of the Ed25519 one.
LEMMA Ed25519InvNext == Ed25519Inv /\ [Next]_vars => Ed25519Inv'
  <1> SUFFICES ASSUME Ed25519Inv, [Next]_vars PROVE Ed25519Inv'
    OBVIOUS
  <1>1. CASE Ed25519Rests
    BY <1>1 DEF Ed25519Rests, ed25519_vars, Ed25519Inv, Ed25519!TypeOK, Ed25519Holds,
                Ed25519Turns, Ed25519At
  <1>2. ASSUME NEW p \in Procs, Ed25519Acts(p) PROVE Ed25519Inv'
    <2>1. serial' = serial
      BY <1>2 DEF Ed25519Acts, Ed25519!Begin, Ed25519!Step, Ed25519!Abort, Ed25519!disk,
           Ed25519!TestSecret, Ed25519!NewPair, Ed25519!MakeDir, Ed25519!WritePublic,
           Ed25519!WriteSecret, Ed25519!ReadPublic, Ed25519!ReadSecret, Ed25519!Sign
    <2> QED
      BY <1>2, <2>1, Ed25519Types, Ed25519Keeps, Ed25519TakesTurns DEF Ed25519Inv
  <1> QED
    BY <1>1, <1>2, Ed25519View DEF Ed25519Inv, Ed25519!TypeOK

\* The inductive invariant holds throughout.
LEMMA InvHolds == Spec => []IInv
  <1>1. IInv /\ [Next]_vars => IInv'
    BY Pkcs7InvNext, Ed25519InvNext DEF IInv
  <1> QED  BY <1>1, InvInit, PTL DEF Spec

-----------------------------------------------------------------------------
(* Type correctness of both engines' files and variables.                   *)
THEOREM TypeCorrect == Spec => [](Pkcs7!TypeOK /\ Ed25519!TypeOK)
  <1>1. IInv => Pkcs7!TypeOK /\ Ed25519!TypeOK
    BY DEF IInv, Pkcs7Inv, Ed25519Inv
  <1> QED  BY <1>1, InvHolds, PTL

(* Every signature that processes made in turns verifies with what is on the *)
(* disk, however many calls were cut short, and wherever.                    *)
THEOREM SignaturesVerify == Spec => []OwnSignaturesVerify
  <1>1. IInv => OwnSignaturesVerify
    BY DEF IInv, Pkcs7Inv, Ed25519Inv, Pkcs7Turns, Ed25519Turns, OwnSignaturesVerify,
           Pkcs7!OwnSignaturesVerify, Ed25519!OwnSignaturesVerify,
           Pkcs7!SelfVerify, Ed25519!SelfVerify
  <1> QED  BY <1>1, InvHolds, PTL

-----------------------------------------------------------------------------
(* A settled keyring.                                                        *)

\* What a step signs with verifies after it.
Pkcs7Signed   == \A key \in p_signed' \ p_signed : Pkcs7!SelfVerify(key)'
Ed25519Signed == \A halves \in e_signed' \ e_signed : Ed25519!SelfVerify(halves)'

\* A settled PKCS-7 keyring stays so.
LEMMA Pkcs7Stays ==
  ASSUME Pkcs7!TypeOK, Pkcs7!Settled, NEW p \in Procs, Pkcs7Acts(p)
  PROVE  Pkcs7!Settled' /\ Pkcs7Signed
  <1> USE DEF Pkcs7!TypeOK, Pkcs7!Goto, Pkcs7!disk, Pkcs7!Settled, Pkcs7Signed, Pkcs7!SelfVerify
  <1>1. CASE Pkcs7!Begin(p)
    BY <1>1 DEF Pkcs7!Begin
  <1>2. CASE Pkcs7!TestKey(p)
    BY <1>2 DEF Pkcs7!TestKey
  <1>3. CASE Pkcs7!ReadKey(p)
    BY <1>3 DEF Pkcs7!ReadKey
  <1>4. CASE Pkcs7!NewKey(p)
    BY <1>4 DEF Pkcs7!NewKey
  <1>5. CASE Pkcs7!MakeDir(p)
    BY <1>5 DEF Pkcs7!MakeDir
  <1>6. CASE Pkcs7!WriteKey(p)
    BY <1>6 DEF Pkcs7!WriteKey
  <1>7. CASE Pkcs7!TestCert(p)
    BY <1>7 DEF Pkcs7!TestCert
  <1>8. CASE Pkcs7!ReadCert(p)
    BY <1>8 DEF Pkcs7!ReadCert
  <1>9. CASE Pkcs7!WriteCert(p)
    BY <1>9 DEF Pkcs7!WriteCert
  <1>10. CASE Pkcs7!Sign(p)
    BY <1>10 DEF Pkcs7!Sign
  <1>11. CASE Pkcs7!Abort(p)
    BY <1>11 DEF Pkcs7!Abort
  <1> QED
    BY <1>1, <1>2, <1>3, <1>4, <1>5, <1>6, <1>7, <1>8, <1>9, <1>10, <1>11 DEF Pkcs7Acts,
       Pkcs7!Step

\* A settled Ed25519 keyring stays so.
LEMMA Ed25519Stays ==
  ASSUME Ed25519!TypeOK, Ed25519!Settled, NEW p \in Procs, Ed25519Acts(p)
  PROVE  Ed25519!Settled' /\ Ed25519Signed
  <1> USE DEF Ed25519!TypeOK, Ed25519!Goto, Ed25519!disk, Ed25519!Settled, Ed25519Signed,
          Ed25519!SelfVerify
  <1>1. CASE Ed25519!Begin(p)
    BY <1>1 DEF Ed25519!Begin
  <1>2. CASE Ed25519!TestSecret(p)
    BY <1>2 DEF Ed25519!TestSecret
  <1>3. CASE Ed25519!NewPair(p)
    BY <1>3 DEF Ed25519!NewPair
  <1>4. CASE Ed25519!MakeDir(p)
    BY <1>4 DEF Ed25519!MakeDir
  <1>5. CASE Ed25519!WritePublic(p)
    BY <1>5 DEF Ed25519!WritePublic
  <1>6. CASE Ed25519!WriteSecret(p)
    BY <1>6 DEF Ed25519!WriteSecret
  <1>7. CASE Ed25519!ReadPublic(p)
    BY <1>7 DEF Ed25519!ReadPublic
  <1>8. CASE Ed25519!ReadSecret(p)
    BY <1>8 DEF Ed25519!ReadSecret
  <1>9. CASE Ed25519!Sign(p)
    BY <1>9 DEF Ed25519!Sign
  <1>10. CASE Ed25519!Abort(p)
    BY <1>10 DEF Ed25519!Abort
  <1> QED
    BY <1>1, <1>2, <1>3, <1>4, <1>5, <1>6, <1>7, <1>8, <1>9, <1>10 DEF Ed25519Acts, Ed25519!Step

(* Once a key pair is there it stays as it is, and what processes sign at the *)
(* same time, not only in turns, verifies.                                    *)
THEOREM SettledIsSafe == Spec => SettledKeyringIsSafe
  <1>1. IInv /\ [Next]_vars =>
          [Pkcs7!Settled => Pkcs7!Settled' /\ Pkcs7Signed]_(Pkcs7!vars)
    <2> SUFFICES ASSUME IInv, [Next]_vars, Pkcs7!Settled
                 PROVE  Pkcs7!Settled' /\ Pkcs7Signed
      OBVIOUS
    <2>1. CASE Pkcs7Rests
      BY <2>1 DEF Pkcs7Rests, pkcs7_vars, Pkcs7!Settled, Pkcs7Signed
    <2> QED
      BY <2>1, Pkcs7View, Pkcs7Stays DEF IInv, Pkcs7Inv, Pkcs7!TypeOK
  <1>2. IInv /\ [Next]_vars =>
          [Ed25519!Settled => Ed25519!Settled' /\ Ed25519Signed]_(Ed25519!vars)
    <2> SUFFICES ASSUME IInv, [Next]_vars, Ed25519!Settled
                 PROVE  Ed25519!Settled' /\ Ed25519Signed
      OBVIOUS
    <2>1. CASE Ed25519Rests
      BY <2>1 DEF Ed25519Rests, ed25519_vars, Ed25519!Settled, Ed25519Signed
    <2> QED
      BY <2>1, Ed25519View, Ed25519Stays DEF IInv, Ed25519Inv, Ed25519!TypeOK
  <1> QED
    BY <1>1, <1>2, InvHolds, PTL
    DEF Spec, SettledKeyringIsSafe, Pkcs7!SettledKeyringIsSafe, Ed25519!SettledKeyringIsSafe,
        Pkcs7Signed, Ed25519Signed

-----------------------------------------------------------------------------
(* The refinement.  Of processes that take turns, a PKCS-7 key pair is       *)
(* generated by the step that writes the certificate, an Ed25519 one by the  *)
(* step that writes the secret half; all others but Sign stutter.            *)

\* A step of the PKCS-7 engine is one of the key pair, or changes nothing of it.
LEMMA Pkcs7Implements ==
  ASSUME Pkcs7Inv, NEW p \in Procs, Pkcs7Acts(p)
  PROVE  [Pkcs7!P!Next]_(Pkcs7!P!vars)
  <1>1. serial' = serial
    BY DEF Pkcs7Acts, Pkcs7!Begin, Pkcs7!Step, Pkcs7!Abort, Pkcs7!disk, Pkcs7!TestKey,
         Pkcs7!ReadKey, Pkcs7!NewKey, Pkcs7!MakeDir, Pkcs7!WriteKey, Pkcs7!TestCert,
         Pkcs7!ReadCert, Pkcs7!WriteCert, Pkcs7!Sign
  <1>2. CASE ~ serial
    BY <1>1, <1>2 DEF Pkcs7!P!vars
  <1>3. CASE serial
    <2> USE <1>1, <1>3 DEF Pkcs7Inv, Pkcs7!TypeOK, Pkcs7Holds, Pkcs7Turns, Pkcs7At
    <2>1. CASE Pkcs7!WriteCert(p)
      <3>1. p_public = None /\ p_secret = p_privkey[p] /\ p_secret \in Keys /\ p_secret # None
        BY <2>1 DEF Pkcs7!WriteCert
      <3>2. p_public' = p_secret /\ p_secret' = p_secret /\ p_signed' = p_signed
        BY <2>1, <3>1 DEF Pkcs7!WriteCert
      <3>3. Pkcs7!Pair = None /\ Pkcs7!Pair' = p_secret
        BY <3>1, <3>2 DEF Pkcs7!Pair
      <3>4. Pkcs7!P!Generate
        BY <3>1, <3>2, <3>3 DEF Pkcs7!P!Generate
      <3> QED
        BY <3>4 DEF Pkcs7!P!Next
    <2>2. CASE Pkcs7!Sign(p)
      <3>1. p_public # None /\ p_secret = p_public /\ p_privkey[p] = p_secret
        BY <2>2 DEF Pkcs7!Sign
      <3>2. p_signed' = p_signed \cup {p_secret} /\ UNCHANGED <<p_secret, p_public>>
        BY <2>2, <3>1 DEF Pkcs7!Sign, Pkcs7!disk
      <3>3. Pkcs7!Pair = p_secret /\ Pkcs7!Pair' = p_secret
        BY <3>1, <3>2 DEF Pkcs7!Pair
      <3>4. Pkcs7!P!Sign
        BY <3>1, <3>2, <3>3 DEF Pkcs7!P!Sign
      <3> QED
        BY <3>4 DEF Pkcs7!P!Next
    <2>3. CASE Pkcs7!WriteKey(p)
      <3>1. p_public = None /\ p_public' = None /\ p_signed' = p_signed
        BY <2>3 DEF Pkcs7!WriteKey
      <3>2. Pkcs7!Pair = None /\ Pkcs7!Pair' = None
        BY <3>1 DEF Pkcs7!Pair
      <3> QED
        BY <3>1, <3>2 DEF Pkcs7!P!vars
    <2>4. ASSUME ~ Pkcs7!WriteCert(p), ~ Pkcs7!Sign(p), ~ Pkcs7!WriteKey(p)
          PROVE  UNCHANGED Pkcs7!P!vars
      <3>1. UNCHANGED <<p_secret, p_public, p_signed>>
        BY <2>4 DEF Pkcs7Acts, Pkcs7!Begin, Pkcs7!Step, Pkcs7!Abort, Pkcs7!disk, Pkcs7!TestKey,
             Pkcs7!ReadKey, Pkcs7!NewKey, Pkcs7!MakeDir, Pkcs7!TestCert, Pkcs7!ReadCert
      <3> QED
        BY <3>1 DEF Pkcs7!P!vars, Pkcs7!Pair
    <2> QED
      BY <2>1, <2>2, <2>3, <2>4
  <1> QED
    BY <1>2, <1>3 DEF Pkcs7Inv, Pkcs7!TypeOK

SecretHalves(S) == {halves[2] : halves \in S}

\* A signature adds the secret half it was made with to those used so far.
LEMMA AddsSecretHalf ==
  ASSUME NEW S, NEW a, NEW b
  PROVE  SecretHalves(S \cup {<<a, b>>}) = SecretHalves(S) \cup {b}
  <1>1. <<a, b>>[2] = b
    OBVIOUS
  <1>2. ASSUME NEW c
        PROVE  (\E halves \in S \cup {<<a, b>>} : c = halves[2])
                 <=> (\E halves \in S : c = halves[2]) \/ c = b
    BY <1>1
  <1> QED  BY <1>2 DEF SecretHalves

\* A step of the Ed25519 engine is one of the key pair, or changes nothing of it.
LEMMA Ed25519Implements ==
  ASSUME Ed25519Inv, NEW p \in Procs, Ed25519Acts(p)
  PROVE  [Ed25519!P!Next]_(Ed25519!P!vars)
  <1>1. serial' = serial
    BY DEF Ed25519Acts, Ed25519!Begin, Ed25519!Step, Ed25519!Abort, Ed25519!disk,
         Ed25519!TestSecret, Ed25519!NewPair, Ed25519!MakeDir, Ed25519!WritePublic,
         Ed25519!WriteSecret, Ed25519!ReadPublic, Ed25519!ReadSecret, Ed25519!Sign
  <1>2. SecretHalves(e_signed \cup {<<e_pubkey[p], e_secret>>})
          = SecretHalves(e_signed) \cup {e_secret}
    BY AddsSecretHalf
  <1>3. CASE ~ serial
    BY <1>1, <1>3 DEF Ed25519!P!vars
  <1>4. CASE serial
    <2> USE <1>1, <1>4 DEF Ed25519Inv, Ed25519!TypeOK, Ed25519Holds, Ed25519Turns, Ed25519At
    <2>1. CASE Ed25519!WriteSecret(p)
      <3>1. e_secret = None /\ e_secret' \in Keys /\ e_signed' = e_signed
        BY <2>1 DEF Ed25519!WriteSecret
      <3>2. Ed25519!P!Generate
        BY <3>1 DEF Ed25519!P!Generate
      <3> QED
        BY <3>2 DEF Ed25519!P!Next
    <2>2. CASE Ed25519!Sign(p)
      <3>1. e_secret # None /\ e_privkey[p] = e_secret /\ e_secret' = e_secret
        BY <2>2 DEF Ed25519!Sign, Ed25519!disk
      <3>2. e_signed' = e_signed \cup {<<e_pubkey[p], e_secret>>}
        BY <2>2, <3>1 DEF Ed25519!Sign
      <3>3. SecretHalves(e_signed') = SecretHalves(e_signed) \cup {e_secret}
        BY <3>2, <1>2, Zenon
      <3>4. Ed25519!P!Sign
        BY <3>1, <3>3 DEF Ed25519!P!Sign, SecretHalves
      <3> QED
        BY <3>4 DEF Ed25519!P!Next
    <2>3. ASSUME ~ Ed25519!WriteSecret(p), ~ Ed25519!Sign(p)
          PROVE  UNCHANGED Ed25519!P!vars
      <3>1. UNCHANGED <<e_secret, e_signed>>
        BY <2>3 DEF Ed25519Acts, Ed25519!Begin, Ed25519!Step, Ed25519!Abort, Ed25519!disk,
             Ed25519!TestSecret, Ed25519!NewPair, Ed25519!MakeDir, Ed25519!WritePublic,
             Ed25519!ReadPublic, Ed25519!ReadSecret
      <3> QED
        BY <3>1 DEF Ed25519!P!vars
    <2> QED
      BY <2>1, <2>2, <2>3
  <1> QED
    BY <1>3, <1>4 DEF Ed25519Inv, Ed25519!TypeOK

(* The file accesses of processes that take turns implement a key pair that  *)
(* is generated once and never changes, for each engine.                     *)
THEOREM OneKeyPair == Spec => RefinesKeyPair
  <1>1. Init => Pkcs7!P!Init /\ Ed25519!P!Init
    BY DEF Init, Pkcs7!Init, Ed25519!Init, Pkcs7!P!Init, Ed25519!P!Init, Pkcs7!Pair
  <1>2. IInv /\ [Next]_vars => [Pkcs7!P!Next]_(Pkcs7!P!vars)
    <2> SUFFICES ASSUME IInv, [Next]_vars PROVE [Pkcs7!P!Next]_(Pkcs7!P!vars)
      OBVIOUS
    <2>1. CASE Pkcs7Rests
      BY <2>1 DEF Pkcs7Rests, pkcs7_vars, Pkcs7!P!vars, Pkcs7!Pair
    <2> QED
      BY <2>1, Pkcs7View, Pkcs7Implements DEF IInv, Pkcs7Inv, Pkcs7!TypeOK
  <1>3. IInv /\ [Next]_vars => [Ed25519!P!Next]_(Ed25519!P!vars)
    <2> SUFFICES ASSUME IInv, [Next]_vars PROVE [Ed25519!P!Next]_(Ed25519!P!vars)
      OBVIOUS
    <2>1. CASE Ed25519Rests
      BY <2>1 DEF Ed25519Rests, ed25519_vars, Ed25519!P!vars
    <2> QED
      BY <2>1, Ed25519View, Ed25519Implements DEF IInv, Ed25519Inv, Ed25519!TypeOK
  <1> QED
    BY <1>1, <1>2, <1>3, InvHolds, PTL
    DEF Spec, RefinesKeyPair, Pkcs7!RefinesKeyPair, Ed25519!RefinesKeyPair,
        Pkcs7!P!Spec, Ed25519!P!Spec

-----------------------------------------------------------------------------
(* What SigningRecovers rests on, next to fairness: a call ends, and if the  *)
(* processes take turns it ends with a signature.                            *)

\* How many steps a call has left at most.
Pkcs7Left(label) ==
  CASE label = "test key"                     -> 7
    [] label = "test dir"                     -> 6
    [] label = "make dir"                     -> 5
    [] label \in {"write key", "read key"}    -> 4
    [] label = "test cert"                    -> 3
    [] label \in {"write cert", "read cert"}  -> 2
    [] label = "sign"                         -> 1
    [] OTHER                                  -> 0

Ed25519Left(label) ==
  CASE label = "test secret"                       -> 6
    [] label = "test dir"                          -> 5
    [] label = "make dir"                          -> 4
    [] label \in {"write public", "read public"}   -> 3
    [] label \in {"write secret", "read secret"}   -> 2
    [] label = "sign"                              -> 1
    [] OTHER                                       -> 0

\* Every step of a call leaves fewer, whatever the other processes do meanwhile.
CallsEnd ==
  [][\A p \in Procs :
       /\ p_pc[p] # "idle" /\ p_pc'[p] # p_pc[p] => Pkcs7Left(p_pc'[p]) < Pkcs7Left(p_pc[p])
       /\ e_pc[p] # "idle" /\ e_pc'[p] # e_pc[p] =>
            Ed25519Left(e_pc'[p]) < Ed25519Left(e_pc[p])]_vars

\* A call of a process that has its turn ends with a signature, unless it is cut
\* short itself: nothing that earlier calls of either engine have left makes it fail.
CallsSign ==
  [][serial /\ aborts' = aborts =>
       \A p \in Procs :
         /\ p_pc[p] # "idle" /\ p_pc'[p] = "idle" => p_signed' = p_signed \cup {p_privkey[p]}
         /\ e_pc[p] # "idle" /\ e_pc'[p] = "idle" =>
              e_signed' = e_signed \cup {<<e_pubkey[p], e_privkey[p]>>}]_vars

\* The ways through self_sign of the PKCS-7 engine, from one step to the next.
Pkcs7Ways ==
  {"test key"} \X {"test dir", "read key"} \cup {"test dir"} \X {"make dir", "write key"}
  \cup {"make dir"} \X {"write key", "idle"} \cup {"write key", "read key"} \X {"test cert"}
  \cup {"test cert"} \X {"write cert", "read cert"}
  \cup {"write cert", "read cert"} \X {"sign"} \cup {"sign"} \X {"idle"}

Ed25519Ways ==
  {"test secret"} \X {"test dir", "read public"}
  \cup {"test dir"} \X {"make dir", "write public"}
  \cup {"make dir"} \X {"write public", "idle"} \cup {"write public"} \X {"write secret"}
  \cup {"read public"} \X {"read secret", "idle"} \cup {"write secret"} \X {"sign"}
  \cup {"read secret"} \X {"sign", "idle"} \cup {"sign"} \X {"idle"}

LEMMA Pkcs7GoesOn ==
  ASSUME Pkcs7!TypeOK, NEW p \in Procs, Pkcs7!Step(p)
  PROVE  /\ <<p_pc[p], p_pc'[p]>> \in Pkcs7Ways
         /\ \A q \in Procs : q # p => p_pc'[q] = p_pc[q]
  <1> USE DEF Pkcs7!TypeOK, Pkcs7!Goto, Pkcs7Ways
  <1>1. CASE Pkcs7!TestKey(p)
    BY <1>1 DEF Pkcs7!TestKey
  <1>2. CASE Pkcs7!ReadKey(p)
    BY <1>2 DEF Pkcs7!ReadKey
  <1>3. CASE Pkcs7!NewKey(p)
    BY <1>3 DEF Pkcs7!NewKey
  <1>4. CASE Pkcs7!MakeDir(p)
    BY <1>4 DEF Pkcs7!MakeDir
  <1>5. CASE Pkcs7!WriteKey(p)
    BY <1>5 DEF Pkcs7!WriteKey
  <1>6. CASE Pkcs7!TestCert(p)
    BY <1>6 DEF Pkcs7!TestCert
  <1>7. CASE Pkcs7!ReadCert(p)
    BY <1>7 DEF Pkcs7!ReadCert
  <1>8. CASE Pkcs7!WriteCert(p)
    BY <1>8 DEF Pkcs7!WriteCert
  <1>9. CASE Pkcs7!Sign(p)
    BY <1>9 DEF Pkcs7!Sign
  <1> QED
    BY <1>1, <1>2, <1>3, <1>4, <1>5, <1>6, <1>7, <1>8, <1>9 DEF Pkcs7!Step

LEMMA Ed25519GoesOn ==
  ASSUME Ed25519!TypeOK, NEW p \in Procs, Ed25519!Step(p)
  PROVE  /\ <<e_pc[p], e_pc'[p]>> \in Ed25519Ways
         /\ \A q \in Procs : q # p => e_pc'[q] = e_pc[q]
  <1> USE DEF Ed25519!TypeOK, Ed25519!Goto, Ed25519Ways
  <1>1. CASE Ed25519!TestSecret(p)
    BY <1>1 DEF Ed25519!TestSecret
  <1>2. CASE Ed25519!NewPair(p)
    BY <1>2 DEF Ed25519!NewPair
  <1>3. CASE Ed25519!MakeDir(p)
    BY <1>3 DEF Ed25519!MakeDir
  <1>4. CASE Ed25519!WritePublic(p)
    BY <1>4 DEF Ed25519!WritePublic
  <1>5. CASE Ed25519!WriteSecret(p)
    BY <1>5 DEF Ed25519!WriteSecret
  <1>6. CASE Ed25519!ReadPublic(p)
    BY <1>6 DEF Ed25519!ReadPublic
  <1>7. CASE Ed25519!ReadSecret(p)
    BY <1>7 DEF Ed25519!ReadSecret
  <1>8. CASE Ed25519!Sign(p)
    BY <1>8 DEF Ed25519!Sign
  <1> QED
    BY <1>1, <1>2, <1>3, <1>4, <1>5, <1>6, <1>7, <1>8 DEF Ed25519!Step

\* What a step does to the labels of a process.
LEMMA LabelsChange ==
  ASSUME IInv, [Next]_vars, NEW p \in Procs
  PROVE  /\ p_pc[p] # "idle" /\ p_pc'[p] # p_pc[p] =>
              p_pc'[p] = "idle" \/ <<p_pc[p], p_pc'[p]>> \in Pkcs7Ways
         /\ e_pc[p] # "idle" /\ e_pc'[p] # e_pc[p] =>
              e_pc'[p] = "idle" \/ <<e_pc[p], e_pc'[p]>> \in Ed25519Ways
  <1> USE DEF IInv, Pkcs7Inv, Ed25519Inv
  <1>1. p_pc[p] # "idle" /\ p_pc'[p] # p_pc[p] =>
          p_pc'[p] = "idle" \/ <<p_pc[p], p_pc'[p]>> \in Pkcs7Ways
    <2>1. CASE Pkcs7Rests
      BY <2>1 DEF Pkcs7Rests, pkcs7_vars
    <2>2. ASSUME NEW q \in Procs, Pkcs7!Begin(q) \/ Pkcs7!Abort(q)
          PROVE  p_pc[p] # "idle" /\ p_pc'[p] # p_pc[p] => p_pc'[p] = "idle"
      BY <2>2 DEF Pkcs7!Begin, Pkcs7!Abort, Pkcs7!Goto, Pkcs7!TypeOK
    <2>3. ASSUME NEW q \in Procs, Pkcs7!Step(q)
          PROVE  p_pc'[p] # p_pc[p] => <<p_pc[p], p_pc'[p]>> \in Pkcs7Ways
      BY <2>3, Pkcs7GoesOn
    <2> QED  BY <2>1, <2>2, <2>3, Pkcs7View DEF Pkcs7Acts, Pkcs7!TypeOK
  <1>2. e_pc[p] # "idle" /\ e_pc'[p] # e_pc[p] =>
          e_pc'[p] = "idle" \/ <<e_pc[p], e_pc'[p]>> \in Ed25519Ways
    <2>1. CASE Ed25519Rests
      BY <2>1 DEF Ed25519Rests, ed25519_vars
    <2>2. ASSUME NEW q \in Procs, Ed25519!Begin(q) \/ Ed25519!Abort(q)
          PROVE  e_pc[p] # "idle" /\ e_pc'[p] # e_pc[p] => e_pc'[p] = "idle"
      BY <2>2 DEF Ed25519!Begin, Ed25519!Abort, Ed25519!Goto, Ed25519!TypeOK
    <2>3. ASSUME NEW q \in Procs, Ed25519!Step(q)
          PROVE  e_pc'[p] # e_pc[p] => <<e_pc[p], e_pc'[p]>> \in Ed25519Ways
      BY <2>3, Ed25519GoesOn
    <2> QED  BY <2>1, <2>2, <2>3, Ed25519View DEF Ed25519Acts, Ed25519!TypeOK
  <1> QED  BY <1>1, <1>2

\* The numbers of steps, in order.
LEMMA Fewer ==
  /\ 0 < 1 /\ 0 < 2 /\ 0 < 3 /\ 0 < 4 /\ 0 < 5 /\ 0 < 6 /\ 0 < 7
  /\ 1 < 2 /\ 2 < 3 /\ 3 < 4 /\ 3 < 5 /\ 3 < 6 /\ 4 < 5 /\ 4 < 6 /\ 4 < 7 /\ 5 < 6 /\ 6 < 7
  OBVIOUS

LEMMA Pkcs7LeftAt ==
  /\ Pkcs7Left("test key") = 7 /\ Pkcs7Left("test dir") = 6 /\ Pkcs7Left("make dir") = 5
  /\ Pkcs7Left("write key") = 4 /\ Pkcs7Left("read key") = 4 /\ Pkcs7Left("test cert") = 3
  /\ Pkcs7Left("write cert") = 2 /\ Pkcs7Left("read cert") = 2 /\ Pkcs7Left("sign") = 1
  /\ Pkcs7Left("idle") = 0
  BY DEF Pkcs7Left

LEMMA Ed25519LeftAt ==
  /\ Ed25519Left("test secret") = 6 /\ Ed25519Left("test dir") = 5 /\ Ed25519Left("make dir") = 4
  /\ Ed25519Left("write public") = 3 /\ Ed25519Left("read public") = 3
  /\ Ed25519Left("write secret") = 2
  /\ Ed25519Left("read secret") = 2 /\ Ed25519Left("sign") = 1 /\ Ed25519Left("idle") = 0
  BY DEF Ed25519Left

(* self_sign of both engines: whatever other processes do, a call ends after *)
(* seven accesses to the disk or fewer.                                      *)
THEOREM EveryCallEnds == Spec => CallsEnd
  <1>1. \A from, to : <<from, to>> \in Pkcs7Ways => Pkcs7Left(to) < Pkcs7Left(from)
    BY Fewer, Pkcs7LeftAt, Zenon DEF Pkcs7Ways
  <1>2. \A from, to : <<from, to>> \in Ed25519Ways => Ed25519Left(to) < Ed25519Left(from)
    BY Fewer, Ed25519LeftAt, Zenon DEF Ed25519Ways
  <1>3. IInv /\ [Next]_vars =>
          [\A p \in Procs :
             /\ p_pc[p] # "idle" /\ p_pc'[p] # p_pc[p] =>
                  Pkcs7Left(p_pc'[p]) < Pkcs7Left(p_pc[p])
             /\ e_pc[p] # "idle" /\ e_pc'[p] # e_pc[p] =>
                  Ed25519Left(e_pc'[p]) < Ed25519Left(e_pc[p])]_vars
    <2> SUFFICES ASSUME IInv, [Next]_vars, NEW p \in Procs
                 PROVE  /\ p_pc[p] # "idle" /\ p_pc'[p] # p_pc[p] =>
                             Pkcs7Left(p_pc'[p]) < Pkcs7Left(p_pc[p])
                        /\ e_pc[p] # "idle" /\ e_pc'[p] # e_pc[p] =>
                             Ed25519Left(e_pc'[p]) < Ed25519Left(e_pc[p])
      OBVIOUS
    <2>1. p_pc[p] # "idle" /\ p_pc'[p] = "idle" => Pkcs7Left(p_pc'[p]) < Pkcs7Left(p_pc[p])
      BY Fewer, Pkcs7LeftAt, Zenon DEF IInv, Pkcs7Inv, Pkcs7!TypeOK
    <2>2. e_pc[p] # "idle" /\ e_pc'[p] = "idle" =>
            Ed25519Left(e_pc'[p]) < Ed25519Left(e_pc[p])
      BY Fewer, Ed25519LeftAt, Zenon DEF IInv, Ed25519Inv, Ed25519!TypeOK
    <2> QED  BY <1>1, <1>2, <2>1, <2>2, LabelsChange
  <1> QED  BY <1>3, InvHolds, PTL DEF Spec, CallsEnd

\* Of processes that take turns, one call of one engine is under way, and nobody else
\* can make the directory that it is about to make.
OneCall ==
  /\ aborts \in Nat
  /\ serial => /\ \A p, q \in Procs : p_pc[p] # "idle" => e_pc[q] = "idle"
               /\ \A p \in Procs : p_pc[p] = "make dir" \/ e_pc[p] = "make dir" => ~dir

LEMMA OneCallInit == Init => OneCall
  BY DEF Init, Pkcs7!Init, Ed25519!Init, OneCall

LEMMA Pkcs7OneCall ==
  ASSUME IInv, OneCall, NEW p \in Procs, Pkcs7!Step(p), e_pc' = e_pc
  PROVE  OneCall'
  <1>1. aborts' = aborts /\ serial' = serial
    BY DEF Pkcs7!Step, Pkcs7!disk, Pkcs7!TestKey, Pkcs7!ReadKey, Pkcs7!NewKey,
       Pkcs7!MakeDir, Pkcs7!WriteKey,
      Pkcs7!TestCert, Pkcs7!ReadCert, Pkcs7!WriteCert, Pkcs7!Sign
  <1>2. SUFFICES ASSUME serial
                 PROVE  /\ \A q, r \in Procs : p_pc'[q] # "idle" => e_pc'[r] = "idle"
                        /\ \A q \in Procs :
                             p_pc'[q] = "make dir" \/ e_pc'[q] = "make dir" => ~dir'
    BY <1>1 DEF OneCall
  <1>3. p_pc[p] # "idle"
    BY DEF Pkcs7!Step, Pkcs7!TestKey, Pkcs7!ReadKey, Pkcs7!NewKey, Pkcs7!MakeDir, Pkcs7!WriteKey,
      Pkcs7!TestCert, Pkcs7!ReadCert, Pkcs7!WriteCert, Pkcs7!Sign
  <1>4. \A q \in Procs : e_pc'[q] = "idle" /\ (q # p => p_pc'[q] = "idle")
    BY <1>2, <1>3, Pkcs7GoesOn DEF IInv, Pkcs7Inv, Pkcs7Turns, OneCall
  <1>5. p_pc'[p] = "make dir" => ~dir'
    <2>1. p_pc'[p] = "make dir" => Pkcs7!NewKey(p)
      BY DEF IInv, Pkcs7Inv, Pkcs7!TypeOK, Pkcs7!Goto, Pkcs7!Step, Pkcs7!TestKey,
         Pkcs7!ReadKey, Pkcs7!NewKey, Pkcs7!MakeDir, Pkcs7!WriteKey,
      Pkcs7!TestCert, Pkcs7!ReadCert, Pkcs7!WriteCert, Pkcs7!Sign
    <2> QED  BY <2>1 DEF IInv, Pkcs7Inv, Pkcs7!TypeOK, Pkcs7!Goto, Pkcs7!NewKey, Pkcs7!disk
  <1> QED  BY <1>4, <1>5

LEMMA Ed25519OneCall ==
  ASSUME IInv, OneCall, NEW p \in Procs, Ed25519!Step(p), p_pc' = p_pc
  PROVE  OneCall'
  <1>1. aborts' = aborts /\ serial' = serial
    BY DEF Ed25519!Step, Ed25519!disk, Ed25519!TestSecret, Ed25519!NewPair,
       Ed25519!MakeDir, Ed25519!WritePublic,
      Ed25519!WriteSecret, Ed25519!ReadPublic, Ed25519!ReadSecret, Ed25519!Sign
  <1>2. SUFFICES ASSUME serial
                 PROVE  /\ \A q, r \in Procs : p_pc'[q] # "idle" => e_pc'[r] = "idle"
                        /\ \A q \in Procs :
                             p_pc'[q] = "make dir" \/ e_pc'[q] = "make dir" => ~dir'
    BY <1>1 DEF OneCall
  <1>3. e_pc[p] # "idle"
    BY DEF Ed25519!Step, Ed25519!TestSecret, Ed25519!NewPair, Ed25519!MakeDir,
       Ed25519!WritePublic,
      Ed25519!WriteSecret, Ed25519!ReadPublic, Ed25519!ReadSecret, Ed25519!Sign
  <1>4. \A q \in Procs : p_pc'[q] = "idle" /\ (q # p => e_pc'[q] = "idle")
    BY <1>2, <1>3, Ed25519GoesOn DEF IInv, Ed25519Inv, Ed25519Turns, OneCall
  <1>5. e_pc'[p] = "make dir" => ~dir'
    <2>1. e_pc'[p] = "make dir" => Ed25519!NewPair(p)
      BY DEF IInv, Ed25519Inv, Ed25519!TypeOK, Ed25519!Goto, Ed25519!Step,
         Ed25519!TestSecret, Ed25519!NewPair, Ed25519!MakeDir, Ed25519!WritePublic,
      Ed25519!WriteSecret, Ed25519!ReadPublic, Ed25519!ReadSecret, Ed25519!Sign
    <2> QED  BY <2>1 DEF IInv, Ed25519Inv, Ed25519!TypeOK, Ed25519!Goto,
       Ed25519!NewPair, Ed25519!disk
  <1> QED  BY <1>4, <1>5

LEMMA OneCallNext == IInv /\ OneCall /\ [Next]_vars => OneCall'
  <1> SUFFICES ASSUME IInv, OneCall, [Next]_vars PROVE OneCall'
    OBVIOUS
  <1> USE DEF OneCall, IInv, Pkcs7Inv, Ed25519Inv, Pkcs7!TypeOK, Ed25519!TypeOK
  <1>1. ASSUME NEW p \in Procs, MayBegin(p, "pkcs7"), Pkcs7!Begin(p), e_pc' = e_pc
        PROVE  OneCall'
    BY <1>1 DEF MayBegin, Pkcs7!Begin, Pkcs7!Goto, Pkcs7!disk
  <1>2. ASSUME NEW p \in Procs, MayBegin(p, "ed25519"), Ed25519!Begin(p), p_pc' = p_pc
        PROVE  OneCall'
    BY <1>2 DEF MayBegin, Ed25519!Begin, Ed25519!Goto, Ed25519!disk
  <1>3. ASSUME NEW p \in Procs, Pkcs7!Abort(p), e_pc' = e_pc PROVE OneCall'
    <2>1. aborts' \in Nat
      <3>1. aborts \in Nat /\ aborts' = aborts + 1
        BY <1>3 DEF Pkcs7!Abort
      <3> HIDE DEF OneCall, IInv
      <3> QED  BY <3>1
    <2>2. dir' = dir /\ serial' = serial /\ p_pc' = [p_pc EXCEPT ![p] = "idle"]
      BY <1>3 DEF Pkcs7!Abort, Pkcs7!Goto, Pkcs7!disk
    <2> QED  BY <1>3, <2>1, <2>2
  <1>4. ASSUME NEW p \in Procs, Ed25519!Abort(p), p_pc' = p_pc PROVE OneCall'
    <2>1. aborts' \in Nat
      <3>1. aborts \in Nat /\ aborts' = aborts + 1
        BY <1>4 DEF Ed25519!Abort
      <3> HIDE DEF OneCall, IInv
      <3> QED  BY <3>1
    <2>2. dir' = dir /\ serial' = serial /\ e_pc' = [e_pc EXCEPT ![p] = "idle"]
      BY <1>4 DEF Ed25519!Abort, Ed25519!Goto, Ed25519!disk
    <2> QED  BY <1>4, <2>1, <2>2
  <1>5. CASE UNCHANGED vars
    BY <1>5 DEF vars, pkcs7_vars, ed25519_vars
  <1> QED
    BY <1>1, <1>2, <1>3, <1>4, <1>5, Pkcs7OneCall, Ed25519OneCall
    DEF Next, Pkcs7Step, Ed25519Step, pkcs7_vars, ed25519_vars

\* With its turn, a call goes back to "idle" from its last step only.
LEMMA Pkcs7Signs ==
  ASSUME IInv, OneCall, serial, NEW p \in Procs, Pkcs7!Step(p), p_pc'[p] = "idle"
  PROVE  p_signed' = p_signed \cup {p_privkey[p]}
  <1>1. p_pc[p] = "make dir" => ~dir
    BY DEF OneCall
  <1> USE DEF IInv, Pkcs7Inv, Pkcs7!TypeOK, Pkcs7!Goto
  <1>2. ~Pkcs7!MakeDir(p)
    BY <1>1 DEF Pkcs7!MakeDir
  <1>3. Pkcs7!Sign(p)
    BY <1>2 DEF Pkcs7!Step, Pkcs7!TestKey, Pkcs7!ReadKey, Pkcs7!NewKey, Pkcs7!MakeDir,
       Pkcs7!WriteKey,
      Pkcs7!TestCert, Pkcs7!ReadCert, Pkcs7!WriteCert, Pkcs7!Sign
  <1> QED  BY <1>3 DEF Pkcs7!Sign

LEMMA Ed25519Signs ==
  ASSUME IInv, OneCall, serial, NEW p \in Procs, Ed25519!Step(p), e_pc'[p] = "idle"
  PROVE  e_signed' = e_signed \cup {<<e_pubkey[p], e_privkey[p]>>}
  <1>1. e_pc[p] = "make dir" => ~dir
    BY DEF OneCall
  <1>2. /\ e_pc[p] = "read public" => e_public # None
        /\ e_pc[p] = "read secret" => e_secret # None
    BY DEF IInv, Ed25519Inv, Ed25519Holds, Ed25519Turns
  <1> USE DEF IInv, Ed25519Inv, Ed25519!TypeOK, Ed25519!Goto
  <1>3. ~Ed25519!MakeDir(p) /\ ~Ed25519!ReadPublic(p) /\ ~Ed25519!ReadSecret(p)
    BY <1>1, <1>2 DEF Ed25519!MakeDir, Ed25519!ReadPublic, Ed25519!ReadSecret
  <1>4. Ed25519!Sign(p)
    BY <1>3 DEF Ed25519!Step, Ed25519!TestSecret, Ed25519!NewPair, Ed25519!MakeDir,
       Ed25519!WritePublic,
      Ed25519!WriteSecret, Ed25519!ReadPublic, Ed25519!ReadSecret, Ed25519!Sign
  <1> QED  BY <1>4 DEF Ed25519!Sign

(* self_sign of both engines, in processes that take turns: a call that is   *)
(* not cut short signs.  No directory, no half of a pair and no key without  *)
(* its certificate that earlier calls have left makes it fail.               *)
THEOREM EveryCallSigns == Spec => CallsSign
  <1>1. IInv /\ OneCall /\ [Next]_vars =>
          [serial /\ aborts' = aborts =>
             \A p \in Procs :
               /\ p_pc[p] # "idle" /\ p_pc'[p] = "idle" =>
                    p_signed' = p_signed \cup {p_privkey[p]}
               /\ e_pc[p] # "idle" /\ e_pc'[p] = "idle" =>
                    e_signed' = e_signed \cup {<<e_pubkey[p], e_privkey[p]>>}]_vars
    <2> SUFFICES ASSUME IInv, OneCall, [Next]_vars, serial, aborts' = aborts, NEW p \in Procs
                 PROVE  /\ p_pc[p] # "idle" /\ p_pc'[p] = "idle" =>
                             p_signed' = p_signed \cup {p_privkey[p]}
                        /\ e_pc[p] # "idle" /\ e_pc'[p] = "idle" =>
                             e_signed' = e_signed \cup {<<e_pubkey[p], e_privkey[p]>>}
      OBVIOUS
    <2>1. dir \in BOOLEAN /\ Pkcs7!TypeOK /\ Ed25519!TypeOK
      BY DEF IInv, Pkcs7Inv, Ed25519Inv, Pkcs7!TypeOK
    <2>2. \A q \in Procs : ~Pkcs7!Abort(q) /\ ~Ed25519!Abort(q)
      <3>1. aborts \in Nat
        BY DEF OneCall
      <3>2. aborts' # aborts + 1
        BY <3>1
      <3> QED  BY <3>2 DEF Pkcs7!Abort, Ed25519!Abort
    <2>3. ASSUME p_pc[p] # "idle", p_pc'[p] = "idle"
          PROVE  p_signed' = p_signed \cup {p_privkey[p]}
      <3>1. ~Pkcs7Rests
        BY <2>3 DEF Pkcs7Rests, pkcs7_vars
      <3>2. \A q \in Procs : ~Pkcs7!Begin(q)
        BY <2>1, <2>3 DEF Pkcs7!Begin, Pkcs7!Goto, Pkcs7!TypeOK
      <3>3. PICK q \in Procs : Pkcs7!Step(q)
        BY <2>1, <2>2, <3>1, <3>2, Pkcs7View DEF Pkcs7Acts
      <3>4. q = p
        BY <2>1, <2>3, <3>3, Pkcs7GoesOn
      <3> QED  BY <2>3, <3>3, <3>4, Pkcs7Signs
    <2>4. ASSUME e_pc[p] # "idle", e_pc'[p] = "idle"
          PROVE  e_signed' = e_signed \cup {<<e_pubkey[p], e_privkey[p]>>}
      <3>1. ~Ed25519Rests
        BY <2>4 DEF Ed25519Rests, ed25519_vars
      <3>2. \A q \in Procs : ~Ed25519!Begin(q)
        BY <2>1, <2>4 DEF Ed25519!Begin, Ed25519!Goto, Ed25519!TypeOK
      <3>3. PICK q \in Procs : Ed25519!Step(q)
        BY <2>1, <2>2, <3>1, <3>2, Ed25519View DEF Ed25519Acts
      <3>4. q = p
        BY <2>1, <2>4, <3>3, Ed25519GoesOn
      <3> QED  BY <2>4, <3>3, <3>4, Ed25519Signs
    <2> QED  BY <2>3, <2>4
  <1> QED  BY <1>1, OneCallInit, OneCallNext, InvHolds, PTL DEF Spec, CallsSign
=============================================================================
