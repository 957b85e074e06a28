--------------------------- MODULE JcatSign_proofs ---------------------------
(***************************************************************************)
(* Proofs about signatures.  First about what the engines say of any       *)
(* signatures (JcatSignatures); then about what becomes of a signature     *)
(* that an engine has made: of any certificate, pair and flags, made by    *)
(* either build and verified by either (JcatSign).  The invariant of the   *)
(* first part is that of the second half of the latter.                    *)
(***************************************************************************)
EXTENDS JcatSign, TLAPS

Signature == [cert : Certs, named : BOOLEAN, time : Nat, status : {"good", "expired", "bad"}]

InputRecord ==
  [engine : Engines, self : BOOLEAN, keys : Seq(Certs), sigs : Seq(Signature),
   disable_time_checks : BOOLEAN, only_pq : BOOLEAN, utc_offset : UtcOffsets]

InputType ==
  /\ input \in InputRecord /\ no_check_time \in BOOLEAN
  /\ input.engine = Gpg => \A n \in DOMAIN input.sigs : input.sigs[n].time # 0

\* What the loops have passed holds, or for the Ed25519 keys does not.
Passed ==
  /\ next \in Nat /\ (next = 0 => input.engine = Libcrypto)
  /\ input.engine = Gnutls =>
       \A n \in DOMAIN input.sigs : n < next => GnutlsHolds(input, input.sigs[n])
  /\ input.engine = Gpg =>
       \A n \in DOMAIN input.sigs : n < next => GpgHolds(input, input.sigs[n])
  /\ input.engine = Libcrypto /\ next # 0 =>
       /\ input.sigs # <<>>
       /\ \A n \in DOMAIN input.sigs : LibcryptoHolds(input, input.sigs[n])
  /\ input.engine = Ed25519 =>
       \A n \in DOMAIN input.keys : n < next => ~Ed25519Holds(input.keys[n], input.sigs[1])

\* The newest time so far bounds those passed and is one of them, or nothing was
\* reported; the authority is one of them too, of the newest unless that has no name.
Reported ==
  /\ newest \in Nat
  /\ authority \in Certs \cup {NoName}
  /\ input.engine = Ed25519 => newest = 0 /\ authority = NoName
  /\ input.engine # Ed25519 =>
       /\ \A n \in DOMAIN input.sigs : n < next => Time(input, input.sigs[n]) <= newest
       /\ \/ newest = 0
          \/ \E n \in DOMAIN input.sigs : n < next /\ newest = Time(input, input.sigs[n])
       /\ \/ authority = NoName
          \/ \E n \in DOMAIN input.sigs :
               /\ n < next /\ input.sigs[n].cert = authority
               /\ \/ newest = Time(input, input.sigs[n])
                  \/ \E m \in DOMAIN input.sigs :
                       m < next /\ ~input.sigs[m].named /\ newest = Time(input, input.sigs[m])

\* An accepted blob has been read to its end, by the engines that read times.
ReadToEnd ==
  outcome = "accepted" /\ input.engine # Ed25519 =>
    input.sigs # <<>> /\ next > Len(input.sigs)

\* An answer is the right one: what OpenSSL rejects though it holds has a signature
\* without a time or a name.
Answered ==
  /\ outcome \in {"running", "accepted", "rejected"}
  /\ VerdictIsExact
  /\ outcome = "rejected" /\ input.engine = Libcrypto =>
       ~Holds(input) \/ \E n \in DOMAIN input.sigs :
                          input.sigs[n].time = 0 \/ ~input.sigs[n].named

IInv == InputType /\ Passed /\ Reported /\ ReadToEnd /\ Answered

LEMMA EnginesDiffer ==
  /\ Gnutls # Libcrypto /\ Gnutls # Gpg /\ Gnutls # Ed25519
  /\ Libcrypto # Gpg /\ Libcrypto # Ed25519 /\ Gpg # Ed25519
  BY DEF Gnutls, Libcrypto, Gpg, Ed25519

\* Holds, one engine at a time.
LEMMA HoldsByEngine ==
  ASSUME NEW i
  PROVE  /\ i.engine = Gnutls => (Holds(i) <=> i.sigs # <<>>
              /\ \A n \in DOMAIN i.sigs : GnutlsHolds(i, i.sigs[n]))
         /\ i.engine = Libcrypto => (Holds(i) <=> i.sigs # <<>>
              /\ \A n \in DOMAIN i.sigs : LibcryptoHolds(i, i.sigs[n]))
         /\ i.engine = Gpg => (Holds(i) <=> i.sigs # <<>>
              /\ \A n \in DOMAIN i.sigs : GpgHolds(i, i.sigs[n]))
         /\ i.engine = Ed25519 => (Holds(i) <=>
              \E n \in DOMAIN i.keys : Ed25519Holds(i.keys[n], i.sigs[1]))
  <1>1. (\E key \in KeySet(i) : Ed25519Holds(key, i.sigs[1]))
          <=> \E n \in DOMAIN i.keys : Ed25519Holds(i.keys[n], i.sigs[1])
    BY DEF KeySet, ToSet
  <1> QED  BY <1>1, EnginesDiffer DEF Holds, All

LEMMA Bounded ==
  ASSUME NEW S, NEW n \in Nat
  PROVE  BoundedSeq(S, n) \subseteq Seq(S)
  <1>1. \A m \in Nat : [1..m -> S] \subseteq Seq(S)
    OBVIOUS
  <1> QED  BY <1>1 DEF BoundedSeq, SeqOf

LEMMA TimeIsInt == ASSUME NEW i \in InputRecord, NEW s \in Signature PROVE Time(i, s) \in Int
  BY SignaturesAssumption DEF InputRecord, Signature, Time, GnutlsTime

LEMMA InitInv == Init => IInv
  <1> SUFFICES ASSUME Init PROVE IInv
    OBVIOUS
  <1>1. InputType
    <2>1. input \in Input  BY DEF Init
    <2>2. /\ input.engine \in Engines
          /\ input.keys \in BoundedSeq(Certs, MaxKeys)
          /\ input.sigs \in BoundedSeq(Signatures, MaxSignatures)
      BY <2>1 DEF Input
    <2>3. input.keys \in Seq(Certs) /\ input.sigs \in Seq(Signatures)
      BY <2>2, Bounded, SignaturesAssumption
    <2>4. input.sigs \in Seq(Signature)
      <3>1. Signatures \subseteq Signature
        BY SignaturesAssumption DEF Signature
      <3> QED  BY <2>3, <3>1
    <2>5. no_check_time \in BOOLEAN
      BY DEF Init, Start
    <2> QED  BY <2>1, <2>3, <2>4, <2>5 DEF Input, InputType, InputRecord
  <1>2. Passed
    BY <1>1, EnginesDiffer DEF Init, Start, Passed, InputType, InputRecord
  <1>3. Reported
    BY <1>1 DEF Init, Start, Reported, InputType, InputRecord
  <1> QED  BY <1>1, <1>2, <1>3 DEF Init, IInv, ReadToEnd, Answered, VerdictIsExact

\* A loop that passes a signature reports it if it is newer than what was reported.
LEMMA ReportNext ==
  ASSUME InputType, Reported, input.engine # Ed25519, next \in DOMAIN input.sigs,
         input' = input, next' = next + 1,
         IF Time(input, Sig) > newest
         THEN /\ newest' = Time(input, Sig)
              /\ authority' = Sig.cert \/ (~Sig.named /\ authority' = authority)
         ELSE UNCHANGED <<newest, authority>>
  PROVE  Reported'
  <1>1. /\ Sig \in Signature /\ Sig = input.sigs[next]
        /\ \A n \in DOMAIN input.sigs : n \in Nat /\ input.sigs[n] \in Signature
    BY DEF InputType, InputRecord, Sig
  <1>2. \A n \in DOMAIN input.sigs : Time(input, input.sigs[n]) \in Int
    BY <1>1, TimeIsInt DEF InputType
  <1>3. \A n \in DOMAIN input.sigs : n < next' <=> n < next \/ n = next
    BY <1>1
  <1>4. /\ newest \in Nat /\ authority \in Certs \cup {NoName}
        /\ newest' \in Nat /\ authority' \in Certs \cup {NoName} /\ newest <= newest'
    BY <1>1, <1>2 DEF Reported, Signature
  <1>5. \A n \in DOMAIN input.sigs : n < next' => Time(input, input.sigs[n]) <= newest'
    BY <1>1, <1>2, <1>3, <1>4 DEF Reported
  <1>6. \/ newest' = 0
        \/ \E n \in DOMAIN input.sigs : n < next' /\ newest' = Time(input, input.sigs[n])
    BY <1>1, <1>3 DEF Reported
  <1>7. \/ authority' = NoName
        \/ \E n \in DOMAIN input.sigs :
             /\ n < next' /\ input.sigs[n].cert = authority'
             /\ \/ newest' = Time(input, input.sigs[n])
                \/ \E m \in DOMAIN input.sigs :
                     m < next' /\ ~input.sigs[m].named /\ newest' = Time(input, input.sigs[m])
    BY <1>1, <1>3 DEF Reported
  <1> QED  BY <1>4, <1>5, <1>6, <1>7 DEF Reported

\* Once its store is configured, CMS_verify goes by the flags of this call.
LEMMA CmsVerifiesAll ==
  ASSUME ConfigureStore, input.engine = Libcrypto
  PROVE  CmsVerifies(no_check_time') <=> Holds(input)
  BY HoldsByEngine DEF ConfigureStore, CmsVerifies, LibcryptoHolds

LEMMA NextInv == IInv /\ [Next]_vars => IInv'
  <1> SUFFICES ASSUME IInv, [Next]_vars PROVE IInv'
    OBVIOUS
  <1> USE EnginesDiffer DEF IInv
  <1>1. CASE UNCHANGED vars
    BY <1>1 DEF vars, InputType, Passed, Reported, ReadToEnd, Answered, VerdictIsExact
  <1>2. ASSUME NEW o, Answer(o)
        PROVE  InputType' /\ Passed' /\ Reported'
    BY <1>2 DEF Answer, InputType, Passed, Reported
  <1>3. ASSUME input' = input, no_check_time' \in BOOLEAN, outcome' = outcome,
               outcome = "running"
        PROVE  InputType' /\ ReadToEnd' /\ Answered'
    BY <1>3 DEF InputType, ReadToEnd, Answered, VerdictIsExact
  <1>4. ASSUME Answer("rejected"),
               \/ ~Holds(input)
               \/ /\ input.engine = Libcrypto
                  /\ \E n \in DOMAIN input.sigs : input.sigs[n].time = 0 \/ ~input.sigs[n].named
        PROVE  IInv'
    BY <1>2, <1>4 DEF Answer, ReadToEnd, Answered, VerdictIsExact
  <1>5. ASSUME Answer("accepted"), Holds(input),
               input.engine # Ed25519 => input.sigs # <<>> /\ next > Len(input.sigs)
        PROVE  IInv'
    BY <1>2, <1>5 DEF Answer, ReadToEnd, Answered, VerdictIsExact
  <1>6. CASE GnutlsNoSignatures
    BY <1>4, <1>6, HoldsByEngine DEF GnutlsNoSignatures, Runs
  <1>7. CASE GnutlsFails
    BY <1>4, <1>7, HoldsByEngine DEF GnutlsFails, Sig, Runs
  <1>8. CASE GnutlsVerifies
    <2>1. Passed'
      BY <1>8 DEF GnutlsVerifies, Runs, Sig, Passed, InputType, InputRecord
    <2>2. Time(input, Sig) = GnutlsTime(Sig)
      BY <1>8 DEF GnutlsVerifies, Runs, Time
    <2>3. Reported'
      BY <1>8, <2>2, ReportNext DEF GnutlsVerifies, Runs
    <2> QED  BY <1>3, <1>8, <2>1, <2>3 DEF GnutlsVerifies, Runs, InputType
  <1>9. CASE GnutlsAccepts
    <2>1. Holds(input)
      BY <1>9, HoldsByEngine DEF GnutlsAccepts, Runs, Passed, InputType, InputRecord
    <2> QED  BY <1>5, <1>9, <2>1 DEF GnutlsAccepts, Runs
  <1>10. CASE LibcryptoFails \/ LibcryptoReadFails
    <2>1. CASE LibcryptoFails
      <3>1. ~Holds(input)
        BY <2>1, CmsVerifiesAll DEF LibcryptoFails, Runs
      <3>2. /\ input' = input /\ no_check_time' \in BOOLEAN /\ outcome' = "rejected"
            /\ UNCHANGED <<next, newest, authority>> /\ input.engine = Libcrypto
        BY <2>1 DEF LibcryptoFails, ConfigureStore, Runs, InputType, InputRecord
      <3>3. InputType' /\ Passed' /\ Reported'
        BY <3>2 DEF InputType, Passed, Reported
      <3> QED  BY <3>1, <3>2, <3>3 DEF ReadToEnd, Answered, VerdictIsExact
    <2>2. CASE LibcryptoReadFails
      BY <1>4, <2>2 DEF LibcryptoReadFails, Runs, Sig
    <2> QED  BY <1>10, <2>1, <2>2
  <1>20. CASE LibcryptoVerifies
    <2>1. Holds(input)
      BY <1>20, CmsVerifiesAll DEF LibcryptoVerifies, Runs
    <2>2. /\ input' = input /\ no_check_time' \in BOOLEAN /\ next = 0 /\ next' = 1
          /\ UNCHANGED <<newest, authority, outcome>>
          /\ input.engine = Libcrypto /\ outcome = "running"
      BY <1>20 DEF LibcryptoVerifies, ConfigureStore, Runs, InputType, InputRecord
    <2>3. Passed'
      BY <2>1, <2>2, HoldsByEngine DEF Passed
    <2>4. Reported'
      <3>1. \A n \in DOMAIN input.sigs : n \in Nat \ {0}
        BY DEF InputType, InputRecord
      <3>2. \A n \in DOMAIN input.sigs : ~(n < next) /\ ~(n < next')
        BY <2>2, <3>1
      <3> QED  BY <2>2, <3>2 DEF Reported
    <2> QED  BY <1>3, <2>2, <2>3, <2>4
  <1>11. CASE LibcryptoReads
    <2>1. Passed'
      BY <1>11 DEF LibcryptoReads, Runs, Passed, InputType, InputRecord
    <2>2. Time(input, Sig) = Mktime(Sig)
      BY <1>11 DEF LibcryptoReads, Runs, Time, Mktime
    <2>3. Reported'
      BY <1>11, <2>2, ReportNext DEF LibcryptoReads, Runs
    <2> QED  BY <1>3, <1>11, <2>1, <2>3 DEF LibcryptoReads, Runs, InputType
  <1>12. CASE LibcryptoAccepts
    <2>1. next # 0 /\ input.engine = Libcrypto
      BY <1>12 DEF LibcryptoAccepts, Runs, InputType, InputRecord
    <2>2. Holds(input) /\ input.sigs # <<>>
      BY <2>1, HoldsByEngine DEF Passed
    <2> QED  BY <1>5, <1>12, <2>2 DEF LibcryptoAccepts, Runs
  <1>13. CASE GpgFails
    BY <1>4, <1>13, HoldsByEngine DEF GpgFails, Sig, Runs
  <1>14. CASE GpgChecks
    <2>1. Passed'
      BY <1>14 DEF GpgChecks, Runs, Sig, Passed, InputType, InputRecord
    <2>2. Time(input, Sig) = Sig.time
      BY <1>14 DEF GpgChecks, Runs, Time
    <2>3. Reported'
      BY <1>14, <2>2, ReportNext DEF GpgChecks, Runs
    <2> QED  BY <1>3, <1>14, <2>1, <2>3 DEF GpgChecks, Runs, InputType
  <1>15. CASE GpgAccepts
    <2>1. Holds(input)
      BY <1>15, HoldsByEngine DEF GpgAccepts, Runs, Passed, InputType, InputRecord
    <2> QED  BY <1>5, <1>15, <2>1 DEF GpgAccepts, Runs
  <1>16. CASE Ed25519NoKeys
    BY <1>4, <1>16, HoldsByEngine DEF Ed25519NoKeys, Runs
  <1>17. CASE Ed25519Verifies
    BY <1>5, <1>17, HoldsByEngine DEF Ed25519Verifies, Runs
  <1>18. CASE Ed25519TryNext
    <2>1. Passed' /\ Reported'
      BY <1>18 DEF Ed25519TryNext, Runs, Passed, Reported, InputType, InputRecord
    <2> QED  BY <1>3, <1>18, <2>1 DEF Ed25519TryNext, Runs, InputType
  <1>19. CASE Ed25519KeysEnd
    <2>1. ~Holds(input)
      BY <1>19, HoldsByEngine DEF Ed25519KeysEnd, Runs, Passed, InputType, InputRecord
    <2> QED  BY <1>4, <1>19, <2>1 DEF Ed25519KeysEnd, Runs
  <1> QED
    BY <1>1, <1>6, <1>7, <1>8, <1>9, <1>10, <1>11, <1>12, <1>13, <1>14, <1>15, <1>16, <1>17,
       <1>18, <1>19, <1>20 DEF Next

\* No step changes what is verified.
LEMMA InputStays == [Next]_vars => input' = input
  BY DEF Next, GnutlsNoSignatures, GnutlsFails, GnutlsVerifies, GnutlsAccepts, LibcryptoFails,
     LibcryptoVerifies, LibcryptoReadFails, LibcryptoReads, LibcryptoAccepts, GpgFails,
     GpgChecks, GpgAccepts, Ed25519NoKeys, Ed25519Verifies, Ed25519TryNext, Ed25519KeysEnd, Answer, vars

LEMMA Invariance == Spec => []IInv
  <1> QED  BY InitInv, NextInv, PTL DEF Spec

\* An input with laxer flags holds if the input does.
LEMMA Laxer ==
  ASSUME NEW i \in InputRecord, Holds(i)
  PROVE  /\ Holds([i EXCEPT !.disable_time_checks = TRUE])
         /\ Holds([i EXCEPT !.only_pq = FALSE])
  <1> DEFINE j == [i EXCEPT !.disable_time_checks = TRUE]
             k == [i EXCEPT !.only_pq = FALSE]
  <1>1. /\ j.engine = i.engine /\ j.sigs = i.sigs /\ j.keys = i.keys
        /\ j.only_pq = i.only_pq /\ j.disable_time_checks
    BY DEF InputRecord
  <1>2. /\ k.engine = i.engine /\ k.sigs = i.sigs /\ k.keys = i.keys
        /\ ~k.only_pq /\ k.disable_time_checks = i.disable_time_checks
    BY DEF InputRecord
  <1>3. i.engine \in {Gnutls, Libcrypto, Gpg, Ed25519}
    BY SignaturesAssumption DEF InputRecord
  <1> HIDE DEF j, k
  <1>4. \A s : /\ GnutlsHolds(i, s) => GnutlsHolds(j, s) /\ GnutlsHolds(k, s)
               /\ LibcryptoHolds(i, s) => LibcryptoHolds(j, s) /\ LibcryptoHolds(k, s)
               /\ GpgHolds(i, s) => GpgHolds(j, s) /\ GpgHolds(k, s)
    BY <1>1, <1>2 DEF GnutlsHolds, LibcryptoHolds, GpgHolds, TrustList, KeySet, InTime
  <1>5. Holds(j)
    BY <1>1, <1>3, <1>4, HoldsByEngine
  <1>6. Holds(k)
    BY <1>2, <1>3, <1>4, HoldsByEngine
  <1> QED  BY <1>5, <1>6 DEF j, k

-----------------------------------------------------------------------------
(* What the invariant says of a blob that was accepted.                     *)

LEMMA FlagsFromInv == IInv => FlagsOnlyRestrict
  <1> SUFFICES ASSUME IInv, outcome = "accepted"
               PROVE  /\ Holds([input EXCEPT !.disable_time_checks = TRUE])
                      /\ Holds([input EXCEPT !.only_pq = FALSE])
    BY DEF FlagsOnlyRestrict
  <1>1. Holds(input) /\ input \in InputRecord
    BY DEF IInv, Answered, VerdictIsExact, InputType
  <1>2. Holds([input EXCEPT !.disable_time_checks = TRUE])
    BY <1>1, Laxer
  <1>3. Holds([input EXCEPT !.only_pq = FALSE])
    BY <1>1, Laxer
  <1> QED  BY <1>2, <1>3

\* A bound of a set that is in it is its Max.
LEMMA MaxIs ==
  ASSUME NEW S \in SUBSET Int, NEW m \in S, \A x \in S : x <= m
  PROVE  Max(S) = m
  <1>1. \A x \in S : m >= x
    OBVIOUS
  <1>2. \E x \in S : \A y \in S : x >= y
    BY <1>1
  <1>3. Max(S) \in S /\ \A y \in S : Max(S) >= y
    BY <1>2 DEF Max
  <1>4. /\ Max(S) \in Int /\ m \in Int
        /\ Max(S) <= m /\ Max(S) >= m
    BY <1>3
  <1> QED  BY <1>4

LEMMA NewestFromInv == IInv => NewestIsReported
  <1> SUFFICES ASSUME IInv, outcome = "accepted"
               PROVE  newest = IF input.engine = Ed25519 THEN 0
                               ELSE Max({0} \cup {Time(input, s) : s \in ToSet(input.sigs)})
    BY DEF NewestIsReported
  <1>1. CASE input.engine = Ed25519
    BY <1>1 DEF IInv, Reported
  <1>2. CASE input.engine # Ed25519
    <2> DEFINE Times == {0} \cup {Time(input, s) : s \in ToSet(input.sigs)}
    <2>1. /\ input \in InputRecord /\ input.sigs \in Seq(Signature)
          /\ next \in Nat /\ next > Len(input.sigs)
      BY <1>2 DEF IInv, InputType, InputRecord, ReadToEnd, Passed
    <2>2. ToSet(input.sigs) = {input.sigs[n] : n \in DOMAIN input.sigs}
      BY DEF ToSet
    <2>3. \A s \in ToSet(input.sigs) : Time(input, s) \in Int
      BY <2>1, <2>2, TimeIsInt
    <2>4. \A n \in DOMAIN input.sigs : n < next
      BY <2>1
    <2>5. newest \in Times
      BY <1>2, <2>2 DEF IInv, Reported
    <2>6. \A t \in Times : t <= newest
      BY <1>2, <2>2, <2>4 DEF IInv, Reported
    <2>7. Times \in SUBSET Int
      BY <2>3
    <2> HIDE DEF Times
    <2>8. Max(Times) = newest
      BY <2>5, <2>6, <2>7, MaxIs
    <2> QED  BY <1>2, <2>8 DEF Times
  <1> QED  BY <1>1, <1>2

\* An engine that reads times accepts only signatures of keys that are trusted.
LEMMA SignerIsTrusted ==
  ASSUME NEW i \in InputRecord, Holds(i), i.engine # Ed25519
  PROVE  \A n \in DOMAIN i.sigs : i.sigs[n].cert \in KeySet(i)
  <1>1. i.engine \in {Gnutls, Libcrypto, Gpg}
    BY SignaturesAssumption DEF InputRecord
  <1> QED  BY <1>1, HoldsByEngine DEF GnutlsHolds, TrustList, LibcryptoHolds, GpgHolds

LEMMA AuthorityFromInv == IInv => AuthorityIsSigner
  <1> SUFFICES ASSUME IInv, outcome = "accepted", authority # NoName
               PROVE  \E s \in ToSet(input.sigs) :
                        /\ s.cert = authority /\ authority \in KeySet(input)
                        /\ \/ newest = Time(input, s)
                           \/ \E t \in ToSet(input.sigs) : ~t.named /\ newest = Time(input, t)
    BY DEF AuthorityIsSigner
  <1>1. Holds(input) /\ input \in InputRecord /\ input.engine # Ed25519
    BY DEF IInv, Answered, VerdictIsExact, InputType, Reported
  <1>2. PICK n \in DOMAIN input.sigs :
          /\ input.sigs[n].cert = authority
          /\ \/ newest = Time(input, input.sigs[n])
             \/ \E m \in DOMAIN input.sigs :
                  ~input.sigs[m].named /\ newest = Time(input, input.sigs[m])
    BY <1>1 DEF IInv, Reported
  <1>3. authority \in KeySet(input)
    BY <1>1, <1>2, SignerIsTrusted
  <1>4. ToSet(input.sigs) = {input.sigs[m] : m \in DOMAIN input.sigs}
    BY DEF ToSet
  <1> QED  BY <1>2, <1>3, <1>4

-----------------------------------------------------------------------------
(* The theorems. *)

\* What is verified, the position of the loop and what it reports keep their types.
THEOREM TypeCorrect == Spec => []TypeOK
  <1>1. Init => TypeOK
    <2> SUFFICES ASSUME Init PROVE TypeOK
      OBVIOUS
    <2>1. /\ input \in Input
          /\ input.keys \in BoundedSeq(Certs, MaxKeys)
          /\ input.sigs \in BoundedSeq(Signatures, MaxSignatures)
      BY DEF Init, Input
    <2>2. input.keys \in Seq(Certs) /\ input.sigs \in Seq(Signatures)
      BY <2>1, Bounded, SignaturesAssumption
    <2> QED  BY <2>1, <2>2 DEF Init, Start, Input, TypeOK
  <1>2. IInv' /\ TypeOK /\ [Next]_vars => TypeOK'
    <2> SUFFICES ASSUME IInv', TypeOK, [Next]_vars PROVE TypeOK'
      OBVIOUS
    <2>1. input' = input
      BY InputStays
    <2>2. /\ no_check_time' \in BOOLEAN
          /\ next' \in Nat /\ newest' \in Nat /\ authority' \in Certs \cup {NoName}
      BY DEF IInv, InputType, Passed, Reported
    <2>3. outcome' \in {"running", "accepted", "rejected"}
      BY DEF IInv, Answered
    <2> QED  BY <2>1, <2>2, <2>3 DEF TypeOK
  <1> QED  BY <1>1, <1>2, Invariance, PTL DEF Spec

\* The verdict of the loops is that of their definition without loops.
THEOREM ExactVerdict == Spec => []VerdictIsExact
  <1>1. IInv => VerdictIsExact
    BY DEF IInv, Answered
  <1> QED  BY <1>1, Invariance, PTL

\* More flags never accept more.
THEOREM FlagsRestrict == Spec => []FlagsOnlyRestrict
  BY FlagsFromInv, Invariance, PTL

\* The timestamp reported is the newest of all signatures in the blob, in any order.
THEOREM NewestTime == Spec => []NewestIsReported
  BY NewestFromInv, Invariance, PTL

\* The authority reported is a trusted key that made a signature of the blob: the newest
\* one, unless no name can be had of that.
THEOREM TrueAuthority == Spec => []AuthorityIsSigner
  BY AuthorityFromInv, Invariance, PTL

-----------------------------------------------------------------------------
(* Signing, and then verifying what was signed. *)

CertificateRecord == [key : Certs, issuer : Certs, expired : BOOLEAN]

\* A request that can succeed: without its certificate a signature leads to the
\* key itself, which is the issuer then.
RequestType(r) ==
  /\ r.engine \in Engines \ {Gpg}
  /\ r.self \/ r.cert # NotPem => r.cert \in CertificateRecord
  /\ r.key # NotPem => r.key \in Certs
  /\ r.add_cert \/ r.cert.issuer = r.cert.key
  /\ r.self => r.engine # Ed25519 /\ r.cert.issuer = r.cert.key

Requested ==
  /\ \A r \in request : RequestType(r) /\ SameKind(input.engine, r.engine)
  /\ \A r, q \in request : r = q
  /\ \A r \in request : r.self => input.keys = keyring[SelfVerifyFile(input.engine, input.only_pq)]
  /\ request # {} => /\ input \in InputRecord /\ input.engine # Gpg
                     /\ no_check_time \in BOOLEAN

\* What is verified is what has been signed.
Signed == \A r \in request : \E s \in PubkeySigns(r) : input.sigs = <<s>>

SignInv ==
  /\ Requested
  /\ \/ /\ outcome \in {"signing", "unsigned"} /\ request # {}
        /\ next = IF input.engine = Libcrypto THEN 0 ELSE 1
        /\ newest = 0 /\ authority = NoName
     \/ IInv /\ Signed

LEMMA SelfPairTypes ==
  ASSUME NEW engine, NEW pq, NEW p \in SelfPairs(engine, pq)
  PROVE  /\ p[1] \in CertificateRecord /\ p[2] \in Certs
         /\ p[1].issuer = p[1].key
  <1>1. \E key \in SelfKeys : p = <<[key |-> key, issuer |-> key, expired |-> FALSE], key>>
    BY DEF SelfPairs, CreatePrivateKeyGnutls, CreatePrivateKeyLibcrypto,
       ClientCertificateGnutls, ClientCertificateLibcrypto
  <1>2. PICK key \in SelfKeys : p = <<[key |-> key, issuer |-> key, expired |-> FALSE], key>>
    BY <1>1
  <1>3. p[1] = [key |-> key, issuer |-> key, expired |-> FALSE] /\ p[2] = key
    BY <1>2
  <1> QED  BY <1>3, SignAssumption DEF CertificateRecord

LEMMA RequestTypes == \A r \in Request : RequestType(r)
  <1> SUFFICES ASSUME NEW r \in Request PROVE RequestType(r)
    OBVIOUS
  <1>1. CASE r \in [engine : Engines \ {Gpg}, self : {FALSE}, empty : BOOLEAN,
                    openssl35 : BOOLEAN, add_timestamp : BOOLEAN, add_cert : {TRUE},
                    cert : Certificates \cup {NotPem}, key : Certs \cup {NotPem}]
    <2>1. /\ r.engine \in Engines \ {Gpg} /\ r.add_cert /\ ~r.self
          /\ r.cert \in Certificates \cup {NotPem} /\ r.key \in Certs \cup {NotPem}
      BY <1>1
    <2>2. r.cert # NotPem => r.cert \in CertificateRecord
      BY <2>1, SignAssumption DEF CertificateRecord
    <2>3. r.key # NotPem => r.key \in Certs
      BY <2>1
    <2> QED  BY <2>1, <2>2, <2>3 DEF RequestType
  <1>2. ASSUME NEW signer \in Engines \ {Gpg, Ed25519}, r \in SelfRequests(signer)
        PROVE  RequestType(r)
    <2>1. PICK p \in ReadablePairs(signer) :
            r \in [engine : {signer}, self : {TRUE}, empty : BOOLEAN, openssl35 : BOOLEAN,
                   add_timestamp : BOOLEAN, add_cert : BOOLEAN, cert : {p[1]}, key : {p[2]}]
      BY <1>2 DEF SelfRequests
    <2>2. PICK e \in {Gnutls, Libcrypto}, pq \in BOOLEAN : p \in SelfPairs(e, pq)
      BY DEF ReadablePairs
    <2>3. r.engine = signer /\ r.cert = p[1] /\ r.key = p[2]
      BY <2>1
    <2> QED  BY <2>2, <2>3, SelfPairTypes DEF RequestType
  <1> QED  BY <1>1, <1>2 DEF Request

\* The one signature that a request with a certificate can come to, for PKCS#7.
LEMMA Pkcs7Signature ==
  ASSUME NEW r, RequestType(r), r.engine # Ed25519, NEW s \in PubkeySigns(r)
  PROVE  /\ s \in Signature /\ s.cert = Root(r) /\ s.named
         /\ s.status = Status(r)
         /\ s.time = Now \/ (s.time = 0 /\ ~r.add_timestamp
                               /\ (r.engine = Gnutls \/ r.openssl35))
  <1>1. r.engine \in {Gnutls, Libcrypto}
    BY SignaturesAssumption DEF RequestType
  <1>2. CASE r.engine = Gnutls
    <2>1. /\ s = SignatureAt(r, IF r.add_timestamp THEN Now ELSE 0)
          /\ r.cert # NotPem /\ r.key # NotPem
      BY <1>2, EnginesDiffer DEF PubkeySigns, GnutlsSigns, GnutlsLoads
    <2> QED
      BY <1>2, <2>1, SignAssumption, EnginesDiffer
      DEF SignatureAt, Status, Root, RequestType, Signature, CertificateRecord
  <1>3. CASE r.engine = Libcrypto
    <2>1. /\ s = SignatureAt(r, IF r.add_timestamp \/ ~r.openssl35 THEN Now ELSE 0)
          /\ r.cert # NotPem /\ r.key \in Certs
      BY <1>3, EnginesDiffer DEF PubkeySigns, LibcryptoSigns, LibcryptoLoads
    <2> QED
      BY <1>3, <2>1, SignAssumption, EnginesDiffer
      DEF SignatureAt, Status, Root, RequestType, Signature, CertificateRecord
  <1> QED  BY <1>1, <1>2, <1>3

LEMMA Ed25519Signature ==
  ASSUME NEW r, RequestType(r), r.engine = Ed25519, NEW s \in PubkeySigns(r)
  PROVE  /\ s \in Signature /\ s.cert = Root(r)
         /\ Pair(r) => s.status = "good"
  <1>1. s \in Ed25519Signs(r)
    BY EnginesDiffer DEF PubkeySigns
  <1>2. r.key \in Certs /\ r.cert # NotPem
    BY <1>1 DEF Ed25519Signs, RequestType
  <1>3. PICK status \in IF r.key = r.cert.key THEN {"good"} ELSE {"good", "bad"} :
          s = [cert |-> r.key, named |-> TRUE, time |-> 0, status |-> status]
    BY <1>1 DEF Ed25519Signs
  <1> QED  BY <1>2, <1>3 DEF Signature, Root, Pair

LEMMA SignInitInv == SignInit \/ NoRequest => SignInv
  <1>1. CASE SignInit
    <2>1. PICK r \in Request : request = {r}
      BY <1>1 DEF SignInit
    <2>2. RequestType(r)
      BY RequestTypes
    <2>3. /\ keyring \in IF r.self THEN Keyring ELSE {EmptyKeyring}
          /\ input \in [engine : Engines, self : {r.self},
                        keys : IF r.self THEN Range(keyring) ELSE BoundedSeq(Certs, MaxKeys),
                        sigs : {<<>>}, disable_time_checks : BOOLEAN, only_pq : BOOLEAN,
                        utc_offset : UtcOffsets]
          /\ SameKind(input.engine, r.engine) /\ input.engine # Gpg
          /\ r.self => input.keys = keyring[SelfVerifyFile(input.engine, input.only_pq)]
      BY <1>1, <2>1 DEF SignInit
    <2>4. input.keys \in Seq(Certs)
      <3>1. CASE r.self
        <4>1. keyring \in [{CertificateFile(pq) : pq \in BOOLEAN} ->
                            {<<>>} \cup {<<key>> : key \in SelfKeys}]
          BY <2>3, <3>1 DEF Keyring
        <4>2. PICK file \in DOMAIN keyring : input.keys = keyring[file]
          BY <2>3, <3>1 DEF Range
        <4>3. input.keys \in {<<>>} \cup {<<key>> : key \in SelfKeys}
          BY <4>1, <4>2
        <4>4. \A key \in SelfKeys : <<key>> \in Seq(Certs)
          BY SignAssumption
        <4>5. <<>> \in Seq(Certs)
          OBVIOUS
        <4>6. CASE input.keys = <<>>
          BY <4>5, <4>6
        <4>7. CASE input.keys \in {<<key>> : key \in SelfKeys}
          BY <4>4, <4>7
        <4> QED  BY <4>3, <4>6, <4>7
      <3>2. CASE ~r.self
        <4>1. input.keys \in BoundedSeq(Certs, MaxKeys)
          BY <2>3, <3>2
        <4>2. BoundedSeq(Certs, MaxKeys) \subseteq Seq(Certs)
          BY Bounded, SignaturesAssumption
        <4> QED  BY <4>1, <4>2
      <3> QED  BY <3>1, <3>2
    <2>5. r.self \in BOOLEAN
      <3>1. CASE r \in [engine : Engines \ {Gpg}, self : {FALSE}, empty : BOOLEAN,
                        openssl35 : BOOLEAN, add_timestamp : BOOLEAN, add_cert : {TRUE},
                        cert : Certificates \cup {NotPem}, key : Certs \cup {NotPem}]
        BY <3>1
      <3>2. ASSUME NEW signer, r \in SelfRequests(signer) PROVE r.self \in BOOLEAN
        <4>1. PICK p \in ReadablePairs(signer) :
                r \in [engine : {signer}, self : {TRUE}, empty : BOOLEAN, openssl35 : BOOLEAN,
                       add_timestamp : BOOLEAN, add_cert : BOOLEAN, cert : {p[1]},
                       key : {p[2]}]
          BY <3>2 DEF SelfRequests
        <4> QED  BY <4>1
      <3> QED  BY <3>1, <3>2 DEF Request
    <2>6. input \in InputRecord
      <3>1. input.sigs = <<>> /\ <<>> \in Seq(Signature) /\ input.self = r.self
        BY <2>3
      <3> QED  BY <2>3, <2>4, <2>5, <3>1 DEF InputRecord
    <2>7. no_check_time \in BOOLEAN
      BY <1>1 DEF SignInit, Start
    <2>8. Requested
      BY <2>1, <2>2, <2>3, <2>6, <2>7 DEF Requested
    <2> QED  BY <1>1, <2>1, <2>8 DEF SignInit, Start, SignInv
  <1>2. CASE NoRequest
    BY <1>2, InitInv DEF NoRequest, SignInv, Requested, Signed
  <1> QED  BY <1>1, <1>2

LEMMA SignNextInv == SignInv /\ [SignNext]_signVars => SignInv'
  <1> SUFFICES ASSUME SignInv, [SignNext]_signVars PROVE SignInv'
    OBVIOUS
  <1>1. CASE Sign
    <2>1. /\ outcome = "signing" /\ outcome' = "running"
          /\ UNCHANGED <<request, keyring, no_check_time, next, newest, authority>>
      BY <1>1 DEF Sign
    <2>2. PICK r \in request : \E s \in PubkeySigns(r) : input' = [input EXCEPT !.sigs = <<s>>]
      BY <1>1 DEF Sign
    <2> PICK s \in PubkeySigns(r) : input' = [input EXCEPT !.sigs = <<s>>]
      BY <2>2
    <2>3. /\ request = {r} /\ RequestType(r) /\ SameKind(input.engine, r.engine)
          /\ input \in InputRecord /\ input.engine # Gpg /\ no_check_time \in BOOLEAN
          /\ r.self => input.keys = keyring[SelfVerifyFile(input.engine, input.only_pq)]
      BY <2>2 DEF SignInv, Requested
    <2>4. /\ next = IF input.engine = Libcrypto THEN 0 ELSE 1
          /\ newest = 0 /\ authority = NoName
      BY <2>1 DEF SignInv, IInv, Answered
    <2>5. s \in Signature
      BY <2>3, Pkcs7Signature, Ed25519Signature
    <2>6. /\ input' \in InputRecord /\ input'.engine = input.engine /\ input'.sigs = <<s>>
          /\ input'.keys = input.keys /\ input'.only_pq = input.only_pq
      <3>1. <<s>> \in Seq(Signature)
        BY <2>5
      <3> QED  BY <2>3, <3>1 DEF InputRecord
    <2>7. Requested' /\ Signed'
      BY <2>1, <2>3, <2>6 DEF Requested, Signed
    <2>8. InputType' /\ Passed' /\ Reported' /\ ReadToEnd' /\ Answered'
      <3>1. DOMAIN input'.sigs = {1} /\ DOMAIN input'.keys \subseteq Nat \ {0}
        BY <2>6 DEF InputRecord
      <3> QED
        BY <2>1, <2>3, <2>4, <2>6, <3>1
        DEF InputType, Passed, Reported, ReadToEnd, Answered, VerdictIsExact
    <2> QED  BY <2>7, <2>8 DEF SignInv, IInv
  <1>2. CASE SignFails
    <2>1. /\ outcome = "signing" /\ outcome' = "unsigned"
          /\ UNCHANGED <<request, keyring, input, no_check_time, next, newest, authority>>
      BY <1>2 DEF SignFails
    <2> QED  BY <2>1 DEF SignInv, Requested, IInv, Answered
  <1>3. CASE Verifies
    <2>1. outcome = "running" /\ UNCHANGED <<request, keyring, input>>
      BY <1>3, InputStays
      DEF Verifies, Next, GnutlsNoSignatures, GnutlsFails, GnutlsVerifies, GnutlsAccepts,
          LibcryptoFails, LibcryptoVerifies, LibcryptoReadFails, LibcryptoReads,
          LibcryptoAccepts, GpgFails, GpgChecks, GpgAccepts, Ed25519NoKeys, Ed25519Verifies,
          Ed25519TryNext, Ed25519KeysEnd, Runs
    <2>2. IInv /\ Signed
      BY <2>1 DEF SignInv
    <2>3. IInv'
      BY <1>3, <2>2, NextInv DEF Verifies
    <2>4. Requested'
      BY <2>1, <2>3 DEF SignInv, Requested, IInv, InputType
    <2> QED  BY <2>1, <2>2, <2>3, <2>4 DEF SignInv, Signed
  <1>4. CASE UNCHANGED signVars
    <2>1. UNCHANGED vars /\ UNCHANGED <<request, keyring>>
      BY <1>4 DEF signVars
    <2>2. IInv => IInv'
      BY <2>1, NextInv
    <2> QED  BY <2>1, <2>2 DEF vars, SignInv, Requested, Signed
  <1> QED  BY <1>1, <1>2, <1>3, <1>4 DEF SignNext

LEMMA SignInvariance == SignSpec => []SignInv
  BY SignInitInv, SignNextInv, PTL DEF SignSpec

-----------------------------------------------------------------------------
(* What the invariant says of a signature that was verified.                *)

LEMMA OneSignature ==
  ASSUME SignInv, outcome \in {"accepted", "rejected"}, NEW r \in request
  PROVE  /\ IInv /\ RequestType(r) /\ SameKind(input.engine, r.engine)
         /\ input \in InputRecord /\ input.engine # Gpg
         /\ input.engine \in {Gnutls, Libcrypto, Ed25519}
         /\ \E s \in PubkeySigns(r) : input.sigs = <<s>>
         /\ r.self => input.keys = keyring[SelfVerifyFile(input.engine, input.only_pq)]
  <1>1. IInv /\ Signed /\ Requested
    BY DEF SignInv
  <1>2. input.engine \in {Gnutls, Libcrypto, Gpg, Ed25519}
    BY <1>1, SignaturesAssumption DEF IInv, InputType, InputRecord
  <1> QED  BY <1>1, <1>2 DEF Requested, Signed

\* The verdict on a blob with one signature.
LEMMA HoldsForOne ==
  ASSUME NEW i, NEW s, i.sigs = <<s>>
  PROVE  /\ i.engine = Gnutls => (Holds(i) <=> GnutlsHolds(i, s))
         /\ i.engine = Libcrypto => (Holds(i) <=> LibcryptoHolds(i, s))
         /\ i.engine = Ed25519 => (Holds(i) <=> \E key \in KeySet(i) : Ed25519Holds(key, s))
  <1>1. /\ DOMAIN i.sigs = {1} /\ i.sigs[1] = s /\ i.sigs # <<>>
    OBVIOUS
  <1>2. (\E key \in KeySet(i) : Ed25519Holds(key, s))
          <=> \E n \in DOMAIN i.keys : Ed25519Holds(i.keys[n], s)
    BY DEF KeySet, ToSet
  <1> QED  BY <1>1, <1>2, HoldsByEngine

\* self_verify reads the file that self_sign has put its certificate in, if ONLY_PQ is
\* asked for when the key is post-quantum, and not otherwise.
LEMMA RightFile ==
  ASSUME NEW r, RequestType(r), Pair(r), Trusted(r),
         r.self => input.keys = keyring[SelfVerifyFile(input.engine, input.only_pq)],
         ~(/\ r.self /\ Root(r) \in PqCerts
           /\ input.engine = Gnutls => ~input.only_pq),
         ~(input.engine = Gnutls /\ input.only_pq /\ Root(r) \notin PqCerts)
  PROVE  Root(r) \in KeySet(input)
  <1>1. CASE r.self
    <2>1. Root(r) = r.key /\ r.key = r.cert.key
      BY <1>1 DEF RequestType, Root, Pair
    <2>2. (input.engine = Gnutls /\ input.only_pq) <=> r.key \in PqCerts
      BY <1>1, <2>1
    <2>3. SelfVerifyFile(input.engine, input.only_pq) = CertificateFile(r.key \in PqCerts)
      BY <2>2 DEF SelfVerifyFile, CertificateFile
    <2>4. input.keys = <<r.cert.key>>
      BY <1>1, <2>3 DEF Trusted
    <2>5. r.cert.key \in ToSet(<<r.cert.key>>)
      BY DEF ToSet
    <2> QED  BY <2>1, <2>4, <2>5 DEF KeySet
  <1>2. CASE ~r.self
    BY <1>2 DEF Trusted
  <1> QED  BY <1>1, <1>2

\* What a pair has signed is rejected for the reasons SignedVerifies lists only.
THEOREM SignedIsVerified == SignSpec => []SignedVerifies
  <1>1. SignInv => SignedVerifies
    <2> SUFFICES ASSUME SignInv, outcome = "rejected", NEW r \in request, Pair(r),
                        Trusted(r),
                        ~(/\ r.self /\ Root(r) \in PqCerts
                          /\ input.engine = Gnutls => ~input.only_pq)
                 PROVE  \/ r.engine # Ed25519 /\ r.cert.expired /\ ~input.disable_time_checks
                        \/ input.engine = Gnutls /\ input.only_pq /\ Root(r) \notin PqCerts
                        \/ /\ input.engine = Libcrypto /\ ~r.add_timestamp
                           /\ r.engine = Gnutls \/ r.openssl35
      BY DEF SignedVerifies
    <2> SUFFICES ASSUME ~(input.engine = Gnutls /\ input.only_pq /\ Root(r) \notin PqCerts)
                 PROVE  \/ r.engine # Ed25519 /\ r.cert.expired /\ ~input.disable_time_checks
                        \/ input.engine = Gnutls /\ input.only_pq /\ Root(r) \notin PqCerts
                        \/ /\ input.engine = Libcrypto /\ ~r.add_timestamp
                           /\ r.engine = Gnutls \/ r.openssl35
      OBVIOUS
    <2>1. /\ IInv /\ RequestType(r) /\ SameKind(input.engine, r.engine)
          /\ input.engine \in {Gnutls, Libcrypto, Ed25519}
      BY OneSignature
    <2>6. Root(r) \in KeySet(input)
      BY OneSignature, RightFile
    <2>2. PICK s \in PubkeySigns(r) : input.sigs = <<s>>
      BY OneSignature
    <2>3. CASE input.engine = Gnutls
      <3>1. r.engine # Ed25519 /\ s.cert = Root(r) /\ s.status = Status(r)
        BY <2>1, <2>3, EnginesDiffer, Pkcs7Signature DEF SameKind
      <3>2. ~GnutlsHolds(input, s)
        BY <2>1, <2>2, <2>3, EnginesDiffer, HoldsForOne DEF IInv, Answered, VerdictIsExact
      <3> QED  BY <2>3, <2>6, <3>1, <3>2 DEF GnutlsHolds, TrustList, InTime, Status, Pair
    <2>4. CASE input.engine = Libcrypto
      <3>1. /\ r.engine # Ed25519 /\ s.cert = Root(r) /\ s.status = Status(r) /\ s.named
            /\ \/ s.time = Now
               \/ s.time = 0 /\ ~r.add_timestamp /\ (r.engine = Gnutls \/ r.openssl35)
        BY <2>1, <2>4, EnginesDiffer, Pkcs7Signature DEF SameKind
      <3>2. \/ ~Holds(input)
            \/ \E n \in DOMAIN input.sigs : input.sigs[n].time = 0 \/ ~input.sigs[n].named
        BY <2>1, <2>4 DEF IInv, Answered
      <3>3. ~LibcryptoHolds(input, s) \/ s.time = 0 \/ ~s.named
        <4>1. DOMAIN input.sigs = {1} /\ input.sigs[1] = s
          BY <2>2
        <4> QED  BY <2>2, <2>4, <3>2, <4>1, HoldsForOne
      <3>4. CASE s.time = 0
        BY <2>4, <3>1, <3>4, SignAssumption
      <3>5. CASE ~LibcryptoHolds(input, s)
        BY <2>6, <3>1, <3>5 DEF LibcryptoHolds, InTime, Status, Pair
      <3> QED  BY <3>1, <3>3, <3>4, <3>5
    <2>5. CASE input.engine = Ed25519
      <3>1. s.cert = Root(r) /\ s.status = "good"
        BY <2>1, <2>5, Ed25519Signature DEF SameKind
      <3>2. Holds(input)
        BY <2>2, <2>5, <2>6, <3>1, HoldsForOne DEF Ed25519Holds
      <3> QED  BY <2>1, <2>5, <3>2, EnginesDiffer DEF IInv, Answered, VerdictIsExact
    <2> QED  BY <2>1, <2>3, <2>4, <2>5
  <1> QED  BY <1>1, SignInvariance, PTL

\* What verifies was signed with a pair whose issuer is trusted, and has the time it
\* was signed at if that was asked for.
THEOREM OnlyPairsAreVerified == SignSpec => []OnlyPairsVerify
  <1>1. SignInv => OnlyPairsVerify
    <2> SUFFICES ASSUME SignInv, outcome = "accepted", NEW r \in request
                 PROVE  /\ r.engine # Ed25519 => Pair(r)
                        /\ Root(r) \in KeySet(input)
                        /\ r.engine # Ed25519 /\ r.add_timestamp =>
                             newest = IF input.engine = Gnutls THEN Now
                                      ELSE Max({0, Now - input.utc_offset})
      BY DEF OnlyPairsVerify
    <2>1. /\ IInv /\ RequestType(r) /\ SameKind(input.engine, r.engine)
          /\ input.engine \in {Gnutls, Libcrypto, Ed25519} /\ input \in InputRecord
          /\ Holds(input)
      BY OneSignature DEF IInv, Answered, VerdictIsExact
    <2>2. PICK s \in PubkeySigns(r) : input.sigs = <<s>>
      BY OneSignature
    <2>3. CASE input.engine = Ed25519
      <3>1. r.engine = Ed25519 /\ s.cert = Root(r)
        BY <2>1, <2>3, Ed25519Signature DEF SameKind
      <3>2. \E key \in KeySet(input) : Ed25519Holds(key, s)
        BY <2>1, <2>2, <2>3, HoldsForOne
      <3> QED  BY <3>1, <3>2 DEF Ed25519Holds
    <2>4. CASE input.engine \in {Gnutls, Libcrypto}
      <3>1. /\ r.engine # Ed25519 /\ s.cert = Root(r) /\ s.status = Status(r)
            /\ r.add_timestamp => s.time = Now
        BY <2>1, <2>4, EnginesDiffer, Pkcs7Signature DEF SameKind
      <3>2. s.cert \in KeySet(input) /\ s.status # "bad"
        BY <2>1, <2>2, <2>4, EnginesDiffer, HoldsForOne
        DEF GnutlsHolds, LibcryptoHolds, TrustList, InTime
      <3>3. Pair(r)
        BY <3>1, <3>2 DEF Status, Pair
      <3>4. ASSUME r.add_timestamp
            PROVE  newest = IF input.engine = Gnutls THEN Now
                            ELSE Max({0, Now - input.utc_offset})
        <4>1. newest = Max({0} \cup {Time(input, t) : t \in ToSet(input.sigs)})
          BY <2>1, <2>4, EnginesDiffer, NewestFromInv DEF NewestIsReported
        <4>2. ToSet(input.sigs) = {s}
          BY <2>2 DEF ToSet
        <4>3. {0} \cup {Time(input, t) : t \in ToSet(input.sigs)} = {0, Time(input, s)}
          BY <4>2
        <4>4. CASE input.engine = Gnutls
          <5>1. Time(input, s) = Now
            BY <3>1, <3>4, <4>4, SignAssumption, EnginesDiffer DEF Time, GnutlsTime
          <5>2. Max({0, Now}) = Now
            BY SignAssumption, MaxIs
          <5> QED  BY <4>1, <4>3, <4>4, <5>1, <5>2
        <4>5. CASE input.engine = Libcrypto
          <5>1. Time(input, s) = Now - input.utc_offset
            BY <3>1, <3>4, <4>5, EnginesDiffer DEF Time
          <5> QED  BY <4>1, <4>3, <4>5, <5>1, EnginesDiffer
        <4> QED  BY <2>4, <4>4, <4>5
      <3> QED  BY <3>1, <3>2, <3>3, <3>4
    <2> QED  BY <2>1, <2>3, <2>4
  <1> QED  BY <1>1, SignInvariance, PTL

\* Exact verdicts, the newest time and its authority hold of what was signed as well.
THEOREM SignedResults ==
  SignSpec => [](/\ VerdictIsExact /\ NewestIsReported /\ AuthorityIsSigner
                 /\ FlagsOnlyRestrict)
  <1>1. IInv => /\ VerdictIsExact /\ NewestIsReported /\ AuthorityIsSigner
                /\ FlagsOnlyRestrict
    BY NewestFromInv, AuthorityFromInv, FlagsFromInv DEF IInv, Answered
  <1>2. outcome \in {"signing", "unsigned"} =>
          VerdictIsExact /\ NewestIsReported /\ AuthorityIsSigner /\ FlagsOnlyRestrict
    BY DEF VerdictIsExact, NewestIsReported, AuthorityIsSigner, FlagsOnlyRestrict
  <1>3. SignInv => /\ VerdictIsExact /\ NewestIsReported /\ AuthorityIsSigner
                   /\ FlagsOnlyRestrict
    BY <1>1, <1>2 DEF SignInv
  <1> QED  BY <1>3, SignInvariance, PTL
=============================================================================
