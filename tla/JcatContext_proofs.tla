------------------------- MODULE JcatContext_proofs -------------------------
(***************************************************************************)
(* Proofs about the two parts of a context that last from one call to the  *)
(* next.  The lazy set-up of the engines: for every set of engines, key    *)
(* files, raw keys and directories, and any number of restarts.  The       *)
(* allowlist: for every number of kinds and every width of the mask that   *)
(* leaves a bit no kind uses.                                              *)
(***************************************************************************)
EXTENDS JcatEngine, JcatAllowlist, TLAPS

-----------------------------------------------------------------------------
(* The engines. *)

\* While the keys are being loaded, those before call.next are trusted.
LoadProgress ==
  /\ call.pc = "setup" => call.next = 1
  /\ call.pc = "keys" =>
       /\ call.next <= Len(public_keys) + 1
       /\ Added(call.engine, call.next - 1) \subseteq Trusted(call.engine)

\* The GnuPG engine has its gpgme context before it imports a key, and keeps it.
GpgCreated ==
  done_setup[Gpg] \/ (call.pc = "keys" /\ call.engine = Gpg) => ctx.state # "none"

IInv == TypeOK /\ OnlyAddedKeys /\ LoadProgress /\ GpgCreated

Running == call.pc \in {"setup", "keys", "ready"}

Call == [pc : {"setup", "keys", "ready", "failed", "done"}, engine : Engines,
         raw : {{}} \cup {{k} : k \in RawKeys}, next : Nat \ {0}]

LEMMA RunningCall == TypeOK /\ Running => call \in Call
  BY DEF TypeOK, Running, NoCall, Call

\* An engine that is not the GnuPG engine keeps its keys in memory.
LEMMA EngineKinds ==
  /\ Gpg \in Engines /\ Gpg \notin MemEngines
  /\ \A e \in Engines : e # Gpg => e \in MemEngines
  BY EngineAssumption DEF Engines

\* Keys already counted stay counted when one is added.
LEMMA AddedGrows ==
  ASSUME NEW e, NEW file, TypeOK, public_keys' = Append(public_keys, file)
  PROVE  \A n \in 0..Len(public_keys) : Added(e, n)' = Added(e, n)
  <1>1. \A m \in DOMAIN public_keys : m \in DOMAIN public_keys' /\ public_keys'[m] = public_keys[m]
    BY DEF TypeOK
  <1>2. \A m \in DOMAIN public_keys', n \in 0..Len(public_keys) : m <= n => m \in DOMAIN public_keys
    BY DEF TypeOK
  <1> QED  BY <1>1, <1>2 DEF Added

\* The next key, ignored or trusted, is the only one Added gains.
LEMMA AddedNext ==
  ASSUME TypeOK, NEW e, NEW n \in DOMAIN public_keys
  PROVE  Added(e, n) = Added(e, n - 1) \cup
           (IF EngineOf[public_keys[n]] = e THEN {public_keys[n]} ELSE {})
  <1>1. n \in Nat /\ \A k \in DOMAIN public_keys : k <= n <=> (k <= n - 1 \/ k = n)
    BY DEF TypeOK
  <1> QED  BY <1>1 DEF Added

LEMMA InitInv == Init => IInv
  BY EngineAssumption DEF Init, IInv, TypeOK, OnlyAddedKeys, LoadProgress, GpgCreated, NoCtx,
     NoCall, Homes, Engines

\* Type correctness is inductive by itself.
LEMMA NextTypes == TypeOK /\ [Next]_vars => TypeOK'
  <1> SUFFICES ASSUME TypeOK, [Next]_vars PROVE TypeOK'
    OBVIOUS
  <1>1. ASSUME NEW file \in KeyFiles, AddPublicKey(file) PROVE TypeOK'
    BY <1>1 DEF AddPublicKey, TypeOK
  <1>2. ASSUME NEW path \in Paths, SetKeyringPath(path) PROVE TypeOK'
    BY <1>2 DEF SetKeyringPath, TypeOK
  <1>3. ASSUME NEW e \in Engines, NEW raw \in {{}} \cup {{k} : k \in RawKeys}, Begin(e, raw)
        PROVE  TypeOK'
    <2>1. call' \in Call
      BY <1>3 DEF Begin, Call
    <2> QED  BY <1>3, <2>1 DEF Begin, TypeOK, context, Call
  <1>4. CASE Setup
    <2>1. Running
      BY <1>4 DEF Setup, MemSetup, GpgAlreadyCreated, GpgSetup, IgnoreKey, LoadKey,
         LoadKeyFails, SetupDone, Running
    <2>2. call \in Call
      BY <2>1, RunningCall
    <2>3. call' \in Call
      BY <1>4, <2>2 DEF Setup, MemSetup, GpgAlreadyCreated, GpgSetup, IgnoreKey, LoadKey,
         LoadKeyFails, SetupDone, Return, Call
    <2>4. CASE MemSetup \/ GpgAlreadyCreated \/ IgnoreKey \/ LoadKeyFails
      BY <2>3, <2>4 DEF MemSetup, GpgAlreadyCreated, IgnoreKey, LoadKeyFails, TypeOK,
         context, Call
    <2>5. CASE GpgSetup
      <3>1. ctx' \in [state : {"none", "bare", "ready"}, home : Homes]
        BY <2>5 DEF GpgSetup, TypeOK, Homes, context
      <3> QED  BY <2>3, <2>5, <3>1 DEF GpgSetup, TypeOK, context, Call
    <2>6. CASE LoadKey
      <3>1. public_keys[call.next] \in KeyFiles
        BY <2>2, <2>6 DEF LoadKey, TypeOK, Call
      <3>2. gnupg' \in [Homes -> SUBSET KeyFiles]
        BY <2>6, <3>1 DEF LoadKey, TypeOK
      <3>3. pubkeys' \in [MemEngines -> SUBSET (KeyFiles \cup RawKeys)]
        BY <2>6, <3>1 DEF LoadKey, TypeOK
      <3> QED  BY <2>3, <2>6, <3>2, <3>3 DEF LoadKey, TypeOK, context, Call
    <2>7. CASE SetupDone
      BY <2>3, <2>7 DEF SetupDone, TypeOK, context, Call
    <2> QED  BY <1>4, <2>4, <2>5, <2>6, <2>7 DEF Setup
  <1>5. CASE Operate
    <2>1. call \in Call
      BY <1>5, RunningCall DEF Operate, Running
    <2>2. call' \in Call
      BY <1>5, <2>1 DEF Operate, Return, Call
    <2>3. pubkeys' \in [MemEngines -> SUBSET (KeyFiles \cup RawKeys)]
      BY <1>5, <2>1 DEF Operate, TypeOK, Call
    <2> QED  BY <1>5, <2>2, <2>3 DEF Operate, TypeOK, context, Call
  <1>6. CASE Restart
    BY <1>6, EngineAssumption DEF Restart, TypeOK, NoCtx, NoCall, Homes
  <1>7. ASSUME NEW thing \in KeyFiles \cup Paths \cup {GpgBinary}, Break(thing) \/ Repair(thing)
        PROVE  TypeOK'
    BY <1>7 DEF Break, Repair, TypeOK, context
  <1>8. CASE UNCHANGED vars
    BY <1>8 DEF vars, TypeOK
  <1> QED  BY <1>1, <1>2, <1>3, <1>4, <1>5, <1>6, <1>7, <1>8 DEF Next

LEMMA NextOnlyAdded == IInv /\ [Next]_vars => OnlyAddedKeys'
  <1> SUFFICES ASSUME IInv, [Next]_vars, NEW e \in MemEngines
               PROVE  (pubkeys[e] \subseteq Added(e, Len(public_keys)) \cup RawKeys)'
    BY DEF OnlyAddedKeys
  <1> USE DEF IInv
  <1>1. pubkeys[e] \subseteq Added(e, Len(public_keys)) \cup RawKeys
    BY DEF OnlyAddedKeys
  <1>2. ASSUME NEW file \in KeyFiles, AddPublicKey(file)
        PROVE  (pubkeys[e] \subseteq Added(e, Len(public_keys)) \cup RawKeys)'
    <2>1. \A k \in DOMAIN public_keys :
            /\ k \in DOMAIN public_keys' /\ public_keys'[k] = public_keys[k]
            /\ k <= Len(public_keys')
      BY <1>2 DEF AddPublicKey, TypeOK
    <2>2. Added(e, Len(public_keys)) \subseteq Added(e, Len(public_keys))'
      BY <2>1 DEF Added
    <2> QED  BY <1>1, <1>2, <2>2 DEF AddPublicKey
  <1>3. CASE UNCHANGED <<public_keys, pubkeys>>
    BY <1>1, <1>3 DEF Added
  <1>4. CASE LoadKey /\ call.engine = e
    <2>1. call \in Call
      BY <1>4, RunningCall DEF LoadKey, Running
    <2>2. call.next \in DOMAIN public_keys /\ call.next <= Len(public_keys)
      BY <1>4, <2>1 DEF LoadKey, TypeOK, Call
    <2>3. /\ EngineOf[public_keys[call.next]] = e
          /\ pubkeys'[e] = pubkeys[e] \cup {public_keys[call.next]}
          /\ public_keys' = public_keys
      BY <1>4, EngineKinds DEF LoadKey, TypeOK, context
    <2>4. public_keys[call.next] \in Added(e, Len(public_keys))
      BY <2>2, <2>3 DEF Added
    <2> QED  BY <1>1, <2>3, <2>4 DEF Added
  <1>5. CASE LoadKey /\ call.engine # e
    <2>1. pubkeys'[e] = pubkeys[e] /\ public_keys' = public_keys
      BY <1>5 DEF LoadKey, TypeOK, context
    <2> QED  BY <1>1, <2>1 DEF Added
  <1>6. CASE Operate
    <2>1. call \in Call
      BY <1>6, RunningCall DEF Operate, Running
    <2>2. public_keys' = public_keys /\ pubkeys'[e] \subseteq pubkeys[e] \cup RawKeys
      BY <1>6, <2>1 DEF Operate, context, Call
    <2> QED  BY <1>1, <2>2 DEF Added
  <1>7. CASE Restart
    BY <1>7 DEF Restart
  <1> QED
    BY <1>2, <1>3, <1>4, <1>5, <1>6, <1>7
    DEF Next, Setup, SetKeyringPath, Begin, MemSetup, GpgAlreadyCreated, GpgSetup, IgnoreKey,
        LoadKeyFails, SetupDone, Break, Repair, context, vars

LEMMA NextLoadProgress == IInv /\ [Next]_vars => LoadProgress'
  <1> SUFFICES ASSUME IInv, [Next]_vars PROVE LoadProgress'
    OBVIOUS
  <1> USE DEF IInv
  <1>1. CASE MemSetup \/ GpgAlreadyCreated \/ GpgSetup
    <2>1. call \in Call /\ call.next = 1
      BY <1>1, RunningCall
      DEF MemSetup, GpgAlreadyCreated, GpgSetup, Running, LoadProgress
    <2>2. call'.pc # "setup" /\ call'.next = 1
      BY <1>1, <2>1 DEF MemSetup, GpgAlreadyCreated, GpgSetup, Return, Call
    <2>3. public_keys' = public_keys /\ Len(public_keys) \in Nat
      BY <1>1 DEF MemSetup, GpgAlreadyCreated, GpgSetup, context, TypeOK
    <2>4. Added(call.engine, call.next - 1)' = {}
      BY <2>2, <2>3 DEF Added, TypeOK
    <2> QED  BY <2>2, <2>3, <2>4 DEF LoadProgress
  <1>2. CASE IgnoreKey \/ LoadKey
    <2>1. call \in Call
      BY <1>2, RunningCall DEF IgnoreKey, LoadKey, Running
    <2>2. /\ call.pc = "keys" /\ call.next <= Len(public_keys)
          /\ call'.pc = "keys" /\ call'.engine = call.engine
          /\ call'.next = call.next + 1
          /\ public_keys' = public_keys /\ ctx' = ctx
      BY <1>2, <2>1 DEF IgnoreKey, LoadKey, context, Call
    <2>3. call.next \in DOMAIN public_keys /\ Len(public_keys) \in Nat
      BY <2>1, <2>2 DEF TypeOK, Call
    <2>4. Added(call.engine, call.next - 1) \subseteq Trusted(call.engine)
      BY <2>2 DEF LoadProgress
    <2>5. Trusted(call.engine) \subseteq Trusted(call.engine)'
      <3>1. ctx.home \in Homes
        BY DEF TypeOK
      <3> QED  BY <1>2, <2>1, <2>2, <3>1, EngineKinds
               DEF IgnoreKey, LoadKey, Trusted, TypeOK, Call
    <2>6. EngineOf[public_keys[call.next]] = call.engine =>
            public_keys[call.next] \in Trusted(call.engine)'
      <3>1. ctx.home \in Homes
        BY DEF TypeOK
      <3> QED  BY <1>2, <2>1, <2>2, <3>1, EngineKinds
               DEF IgnoreKey, LoadKey, Trusted, TypeOK, Call
    <2>7. Added(call.engine, call.next) \subseteq Trusted(call.engine)'
      BY <2>3, <2>4, <2>5, <2>6, AddedNext
    <2>8. Added(call.engine, call.next - 1)' = Added(call.engine, call.next)
      BY <2>1, <2>2 DEF Added, Call
    <2> QED  BY <2>1, <2>2, <2>3, <2>7, <2>8 DEF LoadProgress, Trusted, Call
  <1>3. CASE call' = call /\ UNCHANGED <<public_keys, pubkeys, ctx, gnupg>>
    BY <1>3 DEF LoadProgress, Added, Trusted
  <1>4. CASE \E e \in Engines, raw \in {{}} \cup {{k} : k \in RawKeys} : Begin(e, raw)
    BY <1>4 DEF Begin, LoadProgress
  <1>5. CASE call'.pc \notin {"setup", "keys"}
    BY <1>5 DEF LoadProgress
  <1>6. CASE \/ \E file \in KeyFiles : AddPublicKey(file)
             \/ \E path \in Paths : SetKeyringPath(path)
    BY <1>6, <1>5 DEF AddPublicKey, SetKeyringPath, Between
  <1>7. CASE LoadKeyFails \/ SetupDone \/ Operate
    <2>1. call \in Call
      BY <1>7, RunningCall DEF LoadKeyFails, SetupDone, Operate, Running
    <2> QED  BY <1>7, <2>1, <1>5 DEF LoadKeyFails, SetupDone, Operate, Return, Call
  <1>8. CASE Restart
    BY <1>8, <1>5 DEF Restart, NoCall
  <1> QED
    BY <1>1, <1>2, <1>3, <1>4, <1>6, <1>7, <1>8
    DEF Next, Setup, Break, Repair, context, vars

LEMMA NextGpgCreated == IInv /\ [Next]_vars => GpgCreated'
  <1> SUFFICES ASSUME IInv, [Next]_vars PROVE GpgCreated'
    OBVIOUS
  <1> USE EngineKinds DEF IInv
  <1>1. CASE GpgSetup
    <2>1. ctx'.state # "none"
      BY <1>1 DEF GpgSetup
    <2> QED  BY <2>1 DEF GpgCreated
  <1>2. CASE GpgAlreadyCreated
    BY <1>2 DEF GpgAlreadyCreated, GpgCreated
  <1>3. CASE MemSetup
    <2>1. call \in Call
      BY <1>3, RunningCall DEF MemSetup, Running
    <2>2. call'.engine # Gpg
      BY <1>3, <2>1 DEF MemSetup, Return, Call
    <2> QED  BY <1>3, <2>2 DEF MemSetup, GpgCreated
  <1>4. CASE IgnoreKey \/ LoadKey
    <2>1. call \in Call
      BY <1>4, RunningCall DEF IgnoreKey, LoadKey, Running
    <2>2. /\ call.pc = "keys" /\ call'.engine = call.engine
          /\ UNCHANGED <<done_setup, ctx>>
      BY <1>4, <2>1 DEF IgnoreKey, LoadKey, Call
    <2> QED  BY <2>2 DEF GpgCreated
  <1>5. CASE LoadKeyFails \/ Operate
    <2>1. call \in Call
      BY <1>5, RunningCall DEF LoadKeyFails, Operate, Running
    <2>2. call'.pc # "keys" /\ UNCHANGED <<done_setup, ctx>>
      BY <1>5, <2>1 DEF LoadKeyFails, Operate, Return, Call
    <2> QED  BY <2>2 DEF GpgCreated
  <1>6. CASE SetupDone
    <2>1. call \in Call
      BY <1>6, RunningCall DEF SetupDone, Running
    <2>2. call.pc = "keys" /\ call'.pc = "ready" /\ ctx' = ctx
      BY <1>6, <2>1 DEF SetupDone, Return, Call
    <2>3. done_setup'[Gpg] => done_setup[Gpg] \/ call.engine = Gpg
      BY <1>6, <2>1 DEF SetupDone, TypeOK
    <2> QED  BY <2>2, <2>3 DEF GpgCreated
  <1>7. CASE \E e \in Engines, raw \in {{}} \cup {{k} : k \in RawKeys} : Begin(e, raw)
    BY <1>7 DEF Begin, GpgCreated
  <1>8. CASE Restart
    BY <1>8 DEF Restart, GpgCreated, NoCall
  <1>9. CASE UNCHANGED <<done_setup, ctx, call>>
    BY <1>9 DEF GpgCreated
  <1> QED
    BY <1>1, <1>2, <1>3, <1>4, <1>5, <1>6, <1>7, <1>8, <1>9
    DEF Next, Setup, AddPublicKey, SetKeyringPath, Break, Repair, vars

LEMMA Invariant == Spec => []IInv
  BY InitInv, NextTypes, NextOnlyAdded, NextLoadProgress, NextGpgCreated, PTL DEF Spec, IInv

-----------------------------------------------------------------------------
(* The theorems. *)

\* The variables of the context, its engines and the disk keep their types.
THEOREM EngineTypes == Spec => []TypeOK
  <1>1. IInv => TypeOK
    BY DEF IInv
  <1> QED  BY <1>1, Invariant, PTL

\* An in-memory engine never trusts a key that is neither one of the context's
\* for it nor a raw key it was given.
THEOREM NoForeignKey == Spec => []OnlyAddedKeys
  <1>1. IInv => OnlyAddedKeys
    BY DEF IInv
  <1> QED  BY <1>1, Invariant, PTL

\* jcat_engine_setup is done only with every key of the context loaded.
THEOREM SetupIsComplete == Spec => SetupLoadsEveryKey
  <1>1. IInv /\ [Next]_vars =>
          [\A e \in Engines :
             done_setup'[e] /\ ~done_setup[e] =>
               Added(e, Len(public_keys)) \subseteq Trusted(e)]_vars
    <2> SUFFICES ASSUME IInv, [Next]_vars, NEW e \in Engines, done_setup'[e], ~done_setup[e]
                 PROVE  Added(e, Len(public_keys)) \subseteq Trusted(e)
      OBVIOUS
    <2> USE DEF IInv
    <2>1. SetupDone
      BY DEF Next, Setup, AddPublicKey, SetKeyringPath, Begin, MemSetup, GpgAlreadyCreated,
         GpgSetup, IgnoreKey, LoadKey, LoadKeyFails, Operate, Restart, Break, Repair,
         context, vars
    <2>2. call \in Call
      BY <2>1, RunningCall DEF SetupDone, Running
    <2>3. call.engine = e
      BY <2>1 DEF SetupDone, TypeOK
    <2>4. call.next - 1 = Len(public_keys)
      BY <2>1, <2>2 DEF SetupDone, LoadProgress, TypeOK, Call
    <2> QED  BY <2>1, <2>3, <2>4 DEF SetupDone, LoadProgress
  <1> QED  BY <1>1, Invariant, PTL DEF Spec, SetupLoadsEveryKey

\* An engine that was set up keeps every key it trusts while the process runs: no
\* later set-up, broken or repeated, takes the GnuPG home from under it.
THEOREM NoKeyIsForgotten == Spec => TrustIsKept
  <1>1. IInv /\ [Next]_vars =>
          [\A e \in Engines :
             done_setup[e] /\ restarts' = restarts => Trusted(e) \subseteq Trusted(e)']_vars
    <2> SUFFICES ASSUME IInv, [Next]_vars, NEW e \in Engines, done_setup[e],
                        restarts' = restarts
                 PROVE  Trusted(e) \subseteq Trusted(e)'
      OBVIOUS
    <2> USE EngineKinds DEF IInv
    <2>1. ~Restart
      BY DEF Restart, TypeOK
    <2>2. e = Gpg => ctx' = ctx
      <3>1. e = Gpg => ctx.state # "none"
        BY DEF GpgCreated
      <3> QED
        BY <2>1, <3>1
        DEF Next, Setup, AddPublicKey, SetKeyringPath, Begin, MemSetup, GpgAlreadyCreated,
            GpgSetup, IgnoreKey, LoadKey, LoadKeyFails, SetupDone, Operate, Break, Repair, vars
    <2>3. e = Gpg => \A h \in Homes : gnupg[h] \subseteq gnupg'[h]
      BY <2>1
      DEF Next, Setup, AddPublicKey, SetKeyringPath, Begin, MemSetup, GpgAlreadyCreated,
          GpgSetup, IgnoreKey, LoadKey, LoadKeyFails, SetupDone, Operate, Break, Repair, vars,
          TypeOK
    <2>4. e # Gpg => pubkeys[e] \subseteq pubkeys'[e]
      BY <2>1
      DEF Next, Setup, AddPublicKey, SetKeyringPath, Begin, MemSetup, GpgAlreadyCreated,
          GpgSetup, IgnoreKey, LoadKey, LoadKeyFails, SetupDone, Operate, Break, Repair, vars,
          TypeOK
    <2> QED  BY <2>2, <2>3, <2>4 DEF Trusted, TypeOK
  <1> QED  BY <1>1, Invariant, PTL DEF Spec, TrustIsKept

-----------------------------------------------------------------------------
(* What SetupRecovers rests on, next to fairness.                            *)

\* How many steps an operation has left at most.
StepsLeft ==
  CASE call.pc = "setup" -> Len(public_keys) + 3
    [] call.pc = "keys"  -> Len(public_keys) + 3 - call.next
    [] call.pc = "ready" -> 1
    [] OTHER             -> 0

LEMMA StepsAreLeft ==
  IInv => /\ StepsLeft \in 0..Len(public_keys) + 3
          /\ Running => StepsLeft > 0
  <1> SUFFICES ASSUME IInv PROVE /\ StepsLeft \in 0..Len(public_keys) + 3
                                 /\ Running => StepsLeft > 0
    OBVIOUS
  <1>1. Len(public_keys) \in Nat
    BY DEF IInv, TypeOK
  <1>2. CASE call.pc = "setup"
    BY <1>1, <1>2 DEF StepsLeft
  <1>3. CASE call.pc = "keys"
    <2>1. call \in Call
      BY <1>3, RunningCall DEF Running, IInv
    <2>2. call.next \in 1..Len(public_keys) + 1
      BY <1>1, <1>3, <2>1 DEF IInv, LoadProgress, Call
    <2>3. StepsLeft = Len(public_keys) + 3 - call.next
      BY <1>3 DEF StepsLeft
    <2> QED  BY <1>1, <2>2, <2>3
  <1>4. CASE call.pc = "ready"
    BY <1>1, <1>4 DEF StepsLeft
  <1>5. CASE ~Running
    BY <1>1, <1>5 DEF StepsLeft, Running
  <1> QED  BY <1>2, <1>3, <1>4, <1>5 DEF Running

\* Every step of an operation leaves fewer, and nothing else but a restart is a step
\* while one is under way; so no operation goes through jcat_engine_setup for ever.
EveryStepCounts ==
  [][/\ Setup \/ Operate => StepsLeft' < StepsLeft
     /\ Running /\ ~(Setup \/ Operate) => StepsLeft' = StepsLeft \/ restarts' > restarts]_vars

\* A failed operation has met something that is broken at the time, and nothing that
\* an earlier one has left behind: a file, a directory or a program of its own.
FailuresHaveACause ==
  [][call'.pc = "failed" /\ call.pc # "failed" =>
       /\ call.pc \in {"setup", "keys"}
       /\ \/ call.engine = Gpg /\ broken \cap {keyring_path, GpgBinary} # {}
          \/ \E n \in DOMAIN public_keys :
               EngineOf[public_keys[n]] = call.engine /\ public_keys[n] \in broken]_vars

LEMMA StepCounts == IInv /\ (Setup \/ Operate) => StepsLeft' < StepsLeft
  <1> SUFFICES ASSUME IInv, Setup \/ Operate PROVE StepsLeft' < StepsLeft
    OBVIOUS
  <1>1. Running
    BY DEF Setup, Operate, MemSetup, GpgAlreadyCreated, GpgSetup, IgnoreKey, LoadKey,
       LoadKeyFails, SetupDone, Running
  <1>2. call \in Call
    BY <1>1, RunningCall DEF IInv
  <1>3. Len(public_keys) \in Nat /\ call.next \in Nat
    BY <1>2 DEF IInv, TypeOK, Call
  <1>4. StepsLeft \in Nat /\ StepsLeft > 0
    BY <1>1, <1>3, StepsAreLeft
  <1>5. ASSUME call'.pc \in {"failed", "done"} PROVE StepsLeft' < StepsLeft
    <2>1. StepsLeft' = 0
      BY <1>5 DEF StepsLeft
    <2> QED  BY <1>4, <2>1
  <1>6. CASE MemSetup \/ GpgAlreadyCreated \/ GpgSetup
    <2>1. call.pc = "setup" /\ call.next = 1 /\ public_keys' = public_keys
      BY <1>6 DEF MemSetup, GpgAlreadyCreated, GpgSetup, IInv, LoadProgress, context
    <2>2. \/ call'.pc = "failed"
          \/ call'.pc = "keys" /\ call'.next = call.next
      BY <1>2, <1>6 DEF MemSetup, GpgAlreadyCreated, GpgSetup, Return, Call
    <2>3. CASE call'.pc = "keys" /\ call'.next = call.next
      <3>1. StepsLeft = Len(public_keys) + 3 /\ StepsLeft' = Len(public_keys) + 3 - 1
        BY <2>1, <2>3 DEF StepsLeft
      <3> QED  BY <1>3, <3>1
    <2> QED  BY <1>5, <2>2, <2>3
  <1>7. CASE IgnoreKey \/ LoadKey
    <2>1. /\ call.pc = "keys" /\ public_keys' = public_keys
          /\ call' = [call EXCEPT !.next = call.next + 1]
      BY <1>7 DEF IgnoreKey, LoadKey, context
    <2>2. call'.pc = "keys" /\ call'.next = call.next + 1
      BY <1>2, <2>1 DEF Call
    <2>3. /\ StepsLeft = Len(public_keys) + 3 - call.next
          /\ StepsLeft' = Len(public_keys) + 3 - (call.next + 1)
      BY <2>1, <2>2 DEF StepsLeft
    <2> QED  BY <1>3, <2>3
  <1>8. CASE LoadKeyFails \/ Operate
    <2>1. call'.pc \in {"failed", "done"}
      BY <1>2, <1>8 DEF LoadKeyFails, Operate, Return, Call
    <2> QED  BY <1>5, <2>1
  <1>9. CASE SetupDone
    <2>1. call.pc = "keys" /\ call'.pc = "ready"
      BY <1>2, <1>9 DEF SetupDone, Return, Call
    <2>2. call.next <= Len(public_keys) + 1
      BY <2>1 DEF IInv, LoadProgress
    <2>3. StepsLeft = Len(public_keys) + 3 - call.next /\ StepsLeft' = 1
      BY <2>1 DEF StepsLeft
    <2> QED  BY <1>3, <2>2, <2>3
  <1> QED  BY <1>6, <1>7, <1>8, <1>9 DEF Setup

\* jcat_engine_setup and what follows it: an operation ends after no more steps than
\* there are keys and three, if its process lives on.
THEOREM OperationsEnd == Spec => [](StepsLeft \in 0..Len(public_keys) + 3) /\ EveryStepCounts
  <1>1. IInv => StepsLeft \in 0..Len(public_keys) + 3
    BY StepsAreLeft
  <1>2. IInv /\ [Next]_vars =>
          [/\ Setup \/ Operate => StepsLeft' < StepsLeft
           /\ Running /\ ~(Setup \/ Operate) =>
                StepsLeft' = StepsLeft \/ restarts' > restarts]_vars
    <2> SUFFICES ASSUME IInv, [Next]_vars, Running, ~(Setup \/ Operate)
                 PROVE  StepsLeft' = StepsLeft \/ restarts' > restarts
      BY StepCounts
    <2>1. CASE Restart
      BY <2>1 DEF Restart, IInv, TypeOK
    <2>2. CASE UNCHANGED <<call, public_keys>>
      BY <2>2 DEF StepsLeft
    <2>3. ~Between
      BY DEF Running, Between
    <2> QED
      BY <2>1, <2>2, <2>3
      DEF Next, AddPublicKey, SetKeyringPath, Begin, Break, Repair, context, vars
  <1> QED  BY <1>1, <1>2, Invariant, PTL DEF Spec, EveryStepCounts

\* What makes jcat_engine_setup fail is what is broken now, never what an earlier
\* set-up that failed has left half done.
THEOREM NothingOldFails == Spec => FailuresHaveACause
  <1>1. IInv /\ [Next]_vars =>
          [call'.pc = "failed" /\ call.pc # "failed" =>
             /\ call.pc \in {"setup", "keys"}
             /\ \/ call.engine = Gpg /\ broken \cap {keyring_path, GpgBinary} # {}
                \/ \E n \in DOMAIN public_keys :
                     EngineOf[public_keys[n]] = call.engine /\ public_keys[n] \in broken]_vars
    <2> SUFFICES ASSUME IInv, [Next]_vars, call'.pc = "failed", call.pc # "failed"
                 PROVE  /\ call.pc \in {"setup", "keys"}
                        /\ \/ call.engine = Gpg /\ broken \cap {keyring_path, GpgBinary} # {}
                           \/ \E n \in DOMAIN public_keys :
                                /\ EngineOf[public_keys[n]] = call.engine
                                /\ public_keys[n] \in broken
      OBVIOUS
    <2>1. GpgSetup \/ LoadKeyFails
      <3>1. ASSUME Running, Setup \/ Operate PROVE GpgSetup \/ LoadKeyFails
        <4>1. call \in Call
          BY <3>1, RunningCall DEF IInv
        <4> QED
          BY <3>1, <4>1 DEF Setup, Operate, MemSetup, GpgAlreadyCreated, IgnoreKey, LoadKey,
             SetupDone, Return, Call
      <3>2. Setup \/ Operate => Running
        BY DEF Setup, Operate, MemSetup, GpgAlreadyCreated, GpgSetup, IgnoreKey, LoadKey,
           LoadKeyFails, SetupDone, Running
      <3> QED
        BY <3>1, <3>2
        DEF Next, AddPublicKey, SetKeyringPath, Begin, Restart, NoCall, Break, Repair, vars
    <2>2. CASE GpgSetup
      <3>1. call \in Call /\ call.pc = "setup" /\ call.engine = Gpg
        BY <2>2, RunningCall DEF GpgSetup, Running, IInv
      <3>2. {keyring_path, GpgBinary} \cap broken # {}
        BY <2>2, <3>1 DEF GpgSetup, Return, Call
      <3> QED  BY <3>1, <3>2
    <2>3. CASE LoadKeyFails
      <3>1. call \in Call /\ call.pc = "keys"
        BY <2>3, RunningCall DEF LoadKeyFails, Running, IInv
      <3>2. call.next \in DOMAIN public_keys
        BY <2>3, <3>1 DEF LoadKeyFails, IInv, TypeOK, Call
      <3> QED  BY <2>3, <3>1, <3>2 DEF LoadKeyFails
    <2> QED  BY <2>1, <2>2, <2>3
  <1> QED  BY <1>1, Invariant, PTL DEF Spec, FailuresHaveACause

-----------------------------------------------------------------------------
(* The allowlist. *)

\* A kind disallowed last is out of the mask; with ExactUnlessMixed and the
\* types this is inductive.
DisallowedCleared ==
  \A kind \in Kinds : lastCall[kind] = "disallow" => kind \notin blob_kinds

NoAllowYet ==
  /\ style = "none" => \A kind \in Kinds : lastCall[kind] = "none"
  /\ style = "disallowing" => \A kind \in Kinds : lastCall[kind] # "allow"

MaskInv == MaskTypeOK /\ DisallowedCleared /\ NoAllowYet /\ ExactUnlessMixed

\* The top bit of the mask belongs to no kind.
LEMMA SpareBit == Kinds \subseteq Bits /\ KindLast \in Bits /\ KindLast \notin Kinds
  BY WidthAssumption DEF Kinds, Bits

LEMMA MaskStart == MaskInit => MaskInv
  BY SpareBit DEF MaskInit, MaskInv, MaskTypeOK, DisallowedCleared, NoAllowYet,
     ExactUnlessMixed, Styles

LEMMA MaskStep == MaskInv /\ [MaskNext]_mask_vars => MaskInv'
  <1> SUFFICES ASSUME MaskInv, [MaskNext]_mask_vars PROVE MaskInv'
    OBVIOUS
  <1> USE SpareBit DEF MaskInv, MaskTypeOK, Styles
  <1>1. ASSUME NEW kind \in Kinds, Allow(kind) PROVE MaskInv'
    <2>1. MaskTypeOK'
      BY <1>1 DEF Allow
    <2>2. DisallowedCleared'
      BY <1>1 DEF Allow, DisallowedCleared
    <2>3. NoAllowYet'
      BY <1>1 DEF Allow, NoAllowYet
    <2>4. ExactUnlessMixed'
      <3>1. CASE style = "none"
        <4>1. blob_kinds = Bits
          BY <3>1 DEF ExactUnlessMixed, NoAllowYet
        <4> QED  BY <1>1, <3>1, <4>1 DEF Allow, ExactUnlessMixed, NoAllowYet
      <3>2. CASE style = "allowing"
        <4>1. blob_kinds # Bits
          BY <3>2 DEF ExactUnlessMixed
        <4> QED  BY <1>1, <3>2, <4>1 DEF Allow, ExactUnlessMixed
      <3>3. CASE style \in {"disallowing", "mixed"}
        BY <1>1, <3>3 DEF Allow, ExactUnlessMixed
      <3> QED  BY <3>1, <3>2, <3>3
    <2> QED  BY <2>1, <2>2, <2>3, <2>4
  <1>2. ASSUME NEW kind \in Kinds, Disallow(kind) PROVE MaskInv'
    <2>1. MaskTypeOK'
      BY <1>2 DEF Disallow
    <2>2. DisallowedCleared'
      BY <1>2 DEF Disallow, DisallowedCleared
    <2>3. NoAllowYet'
      BY <1>2 DEF Disallow, NoAllowYet
    <2>4. ExactUnlessMixed'
      BY <1>2 DEF Disallow, ExactUnlessMixed
    <2> QED  BY <2>1, <2>2, <2>3, <2>4
  <1>3. CASE UNCHANGED mask_vars
    BY <1>3 DEF mask_vars, DisallowedCleared, NoAllowYet, ExactUnlessMixed
  <1> QED  BY <1>1, <1>2, <1>3 DEF MaskNext

LEMMA MaskInvariant == MaskSpec => []MaskInv
  BY MaskStart, MaskStep, PTL DEF MaskSpec

\* The mask never leaves its width and the records of calls keep their types.
THEOREM AllowlistTypes == MaskSpec => []MaskTypeOK
  <1>1. MaskInv => MaskTypeOK
    BY DEF MaskInv
  <1> QED  BY <1>1, MaskInvariant, PTL

\* get_engine answers "not allowed" for a kind whose last call disallowed it.
THEOREM DisallowedIsNotAllowed == MaskSpec => []DisallowedStaysOut
  <1>1. MaskInv => DisallowedStaysOut
    <2> SUFFICES ASSUME MaskInv, NEW kind \in Kinds, lastCall[kind] = "disallow"
                 PROVE  Answers(kind) = {"not allowed"}
      BY DEF DisallowedStaysOut
    <2>1. TestedBits(kind) = {kind}
      BY WidthAssumption DEF TestedBits, Kinds
    <2>2. kind \notin blob_kinds
      BY DEF MaskInv, DisallowedCleared
    <2> QED  BY <2>1, <2>2 DEF Answers
  <1> QED  BY <1>1, MaskInvariant, PTL

\* Lists built with blob_kind_allow first, and lists built with
\* blob_kind_disallow alone, are exactly what the caller asked for.
THEOREM UnmixedListsAreExact == MaskSpec => []ExactUnlessMixed
  <1>1. MaskInv => ExactUnlessMixed
    BY DEF MaskInv
  <1> QED  BY <1>1, MaskInvariant, PTL

=============================================================================
