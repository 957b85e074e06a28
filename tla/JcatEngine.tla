----------------------------- MODULE JcatEngine -----------------------------
(***************************************************************************)
(* How the engines of a JcatContext come to trust keys: the public keys    *)
(* and the keyring path of the context (jcat-context.c), the lazy set-up   *)
(* every engine operation starts with (jcat-engine.c), and the two ways an *)
(* engine keeps keys: in memory (the PKCS-7 and Ed25519 engines) or in a   *)
(* GnuPG home directory on disk (jcat-gpg-engine.c).                       *)
(*                                                                         *)
(* One process uses one context; it may exit and start again.  The files   *)
(* it reads and the directory it needs may become unusable and be          *)
(* repaired at any time.                                                   *)
(***************************************************************************)
EXTENDS Naturals, Sequences

CONSTANTS
  KeyFiles,     \* public key files an application may add to the context
  RawKeys,      \* keys it may add with jcat_engine_add_public_key_raw
  MemEngines,   \* signature engines that keep their keys in memory
  Gpg,          \* the GnuPG engine
  EngineOf,     \* the engine that does not ignore a key file, by its name
  Paths,        \* keyring directories
  DefaultPath,  \* the one a context starts with
  UserHome,     \* the GnuPG home gpgme uses when it is not told another
  GpgBinary,    \* the gpg program
  MaxKeys,      \* bound on the keys added to one context
  MaxRestarts   \* bound on how often the process starts again

ASSUME EngineAssumption ==
  /\ Gpg \notin MemEngines
  /\ EngineOf \in [KeyFiles -> MemEngines \cup {Gpg}]
  /\ DefaultPath \in Paths /\ UserHome \notin Paths
  /\ MaxKeys \in Nat /\ MaxRestarts \in Nat

Engines == MemEngines \cup {Gpg}
Homes   == Paths \cup {UserHome}

VARIABLES
  public_keys,   \* of the context: the key files added, in order
  keyring_path,  \* of the context
  done_setup,    \* per engine: done_setup
  pubkeys,       \* per in-memory engine: the keys it verifies against
  ctx,           \* of the GnuPG engine: its gpgme context and its home
  gnupg,         \* on disk, per GnuPG home: the keys imported so far
  broken,        \* key files, directories and programs unusable at present
  call,          \* the engine operation running now, or how the last one ended
  restarts       \* how often the process has started again

vars == <<public_keys, keyring_path, done_setup, pubkeys, ctx, gnupg, broken,
          call, restarts>>

context == <<public_keys, keyring_path>>

NoCtx  == [state |-> "none", home |-> UserHome]
NoCall == [pc |-> "idle"]

Init ==
  /\ public_keys = <<>>
  /\ keyring_path = DefaultPath
  /\ done_setup = [e \in Engines |-> FALSE]
  /\ pubkeys = [e \in MemEngines |-> {}]
  /\ ctx = NoCtx
  /\ call = NoCall
  /\ gnupg = [h \in Homes |-> {}]
  /\ broken = {}
  /\ restarts = 0

Between == call.pc \in {"idle", "failed", "done"}   \* no operation is running

Return(how) == call' = [call EXCEPT !.pc = how]

-----------------------------------------------------------------------------
(* Mutations of the actions below: plausible bugs that the properties must  *)
(* tell from the code.                                                      *)

\* The gpgme context of the old path is dropped, and the set-up not done again.
SetKeyringPathDrops(path) ==
  /\ Between
  /\ keyring_path' = path
  /\ ctx' = NoCtx
  /\ UNCHANGED <<public_keys, done_setup, pubkeys, gnupg, broken, call, restarts>>

\* A gpgme context that was not configured to the end is an error.
GpgAlreadyCreatedFails ==
  /\ call.pc = "setup" /\ call.engine = Gpg /\ ctx.state # "none"
  /\ Return(IF ctx.state = "bare" THEN "failed" ELSE "keys")
  /\ UNCHANGED <<context, done_setup, pubkeys, ctx, gnupg, broken, restarts>>

\* An engine takes every file, whatever its name.
LoadKeyOfAnyName ==
  /\ call.pc = "keys" /\ call.next <= Len(public_keys) /\ call.engine \in MemEngines
  /\ public_keys[call.next] \notin broken
  /\ pubkeys' = [pubkeys EXCEPT ![call.engine] = @ \cup {public_keys[call.next]}]
  /\ call' = [call EXCEPT !.next = @ + 1]
  /\ UNCHANGED <<context, done_setup, ctx, gnupg, broken, restarts>>

\* A key that cannot be loaded is passed over.
LoadKeyFailsGoesOn ==
  /\ call.pc = "keys" /\ call.next <= Len(public_keys)
  /\ EngineOf[public_keys[call.next]] = call.engine
  /\ public_keys[call.next] \in broken
  /\ call' = [call EXCEPT !.next = @ + 1]
  /\ UNCHANGED <<context, done_setup, pubkeys, ctx, gnupg, broken, restarts>>

-----------------------------------------------------------------------------
(* Calls on the context. *)

\* jcat_context_add_public_key
AddPublicKey(file) ==
  /\ Between
  /\ Len(public_keys) < MaxKeys
  /\ public_keys' = Append(public_keys, file)
  /\ UNCHANGED <<keyring_path, done_setup, pubkeys, ctx, gnupg, broken, call, restarts>>

\* jcat_context_set_keyring_path
SetKeyringPath(path) ==
  /\ Between
  /\ keyring_path' = path
  /\ UNCHANGED <<public_keys, done_setup, pubkeys, ctx, gnupg, broken, call, restarts>>

-----------------------------------------------------------------------------
(* An engine operation: jcat_engine_setup unless it was done before, then  *)
(* the operation itself.  raw is the key given to add_public_key_raw, or   *)
(* none for the operations that verify or sign; the GnuPG engine has no    *)
(* add_public_key_raw and refuses it before any set-up.                    *)

Begin(e, raw) ==
  /\ Between
  /\ raw # {} => e \in MemEngines
  /\ call' = [pc |-> IF done_setup[e] THEN "ready" ELSE "setup",
              engine |-> e, raw |-> raw, next |-> 1]
  /\ UNCHANGED <<context, done_setup, pubkeys, ctx, gnupg, broken, restarts>>

\* The in-memory engines have no set-up of their own.
MemSetup ==
  /\ call.pc = "setup"
  /\ call.engine \in MemEngines
  /\ Return("keys")
  /\ UNCHANGED <<context, done_setup, pubkeys, ctx, gnupg, broken, restarts>>

\* jcat_gpg_engine_setup returns at once if there is a gpgme context.
GpgAlreadyCreated ==
  /\ call.pc = "setup"
  /\ call.engine = Gpg
  /\ ctx.state # "none"
  /\ Return("keys")
  /\ UNCHANGED <<context, done_setup, pubkeys, ctx, gnupg, broken, restarts>>

\* It creates the gpgme context, then the home directory, and only then gives
\* the home to the context.  Where that fails the context stays as created.
GpgSetup ==
  /\ call.pc = "setup"
  /\ call.engine = Gpg
  /\ ctx.state = "none"
  /\ IF {keyring_path, GpgBinary} \cap broken = {}
     THEN ctx' = [state |-> "ready", home |-> keyring_path] /\ Return("keys")
     ELSE ctx' = [state |-> "bare", home |-> UserHome] /\ Return("failed")
  /\ UNCHANGED <<context, done_setup, pubkeys, gnupg, broken, restarts>>

\* add_public_key of the engine is called for every key file of the context, and
\* ignores files by their name.
IgnoreKey ==
  /\ call.pc = "keys"
  /\ call.next <= Len(public_keys)
  /\ EngineOf[public_keys[call.next]] # call.engine
  /\ call' = [call EXCEPT !.next = @ + 1]
  /\ UNCHANGED <<context, done_setup, pubkeys, ctx, gnupg, broken, restarts>>

LoadKey ==
  /\ call.pc = "keys"
  /\ call.next <= Len(public_keys)
  /\ LET file == public_keys[call.next]
     IN  /\ EngineOf[file] = call.engine
         /\ file \notin broken
         /\ IF call.engine = Gpg
            THEN /\ GpgBinary \notin broken
                 /\ gnupg' = [gnupg EXCEPT ![ctx.home] = @ \cup {file}]
                 /\ UNCHANGED pubkeys
            ELSE /\ pubkeys' = [pubkeys EXCEPT ![call.engine] = @ \cup {file}]
                 /\ UNCHANGED gnupg
  /\ call' = [call EXCEPT !.next = @ + 1]
  /\ UNCHANGED <<context, done_setup, ctx, broken, restarts>>

\* The first key that cannot be loaded ends the operation; what was loaded stays.
LoadKeyFails ==
  /\ call.pc = "keys"
  /\ call.next <= Len(public_keys)
  /\ EngineOf[public_keys[call.next]] = call.engine
  /\ \/ public_keys[call.next] \in broken
     \/ call.engine = Gpg /\ GpgBinary \in broken
  /\ Return("failed")
  /\ UNCHANGED <<context, done_setup, pubkeys, ctx, gnupg, broken, restarts>>

SetupDone ==
  /\ call.pc = "keys"
  /\ call.next > Len(public_keys)
  /\ done_setup' = [done_setup EXCEPT ![call.engine] = TRUE]
  /\ Return("ready")
  /\ UNCHANGED <<context, pubkeys, ctx, gnupg, broken, restarts>>

\* The operation itself, with the keys the engine has.
Operate ==
  /\ call.pc = "ready"
  /\ pubkeys' = [e \in MemEngines |->
                   IF e = call.engine THEN pubkeys[e] \cup call.raw ELSE pubkeys[e]]
  /\ Return("done")
  /\ UNCHANGED <<context, done_setup, ctx, gnupg, broken, restarts>>

Setup == MemSetup \/ GpgAlreadyCreated \/ GpgSetup \/ IgnoreKey \/ LoadKey
           \/ LoadKeyFails \/ SetupDone

-----------------------------------------------------------------------------
(* The process and its surroundings. *)

\* The process ends, in an operation or between two, and starts with a new
\* context.  Only what is on disk survives.
Restart ==
  /\ restarts < MaxRestarts
  /\ restarts' = restarts + 1
  /\ public_keys' = <<>>
  /\ keyring_path' = DefaultPath
  /\ done_setup' = [e \in Engines |-> FALSE]
  /\ pubkeys' = [e \in MemEngines |-> {}]
  /\ ctx' = NoCtx
  /\ call' = NoCall
  /\ UNCHANGED <<gnupg, broken>>

Break(thing) ==
  /\ broken' = broken \cup {thing}
  /\ UNCHANGED <<context, done_setup, pubkeys, ctx, gnupg, call, restarts>>

Repair(thing) ==
  /\ thing \in broken
  /\ broken' = broken \ {thing}
  /\ UNCHANGED <<context, done_setup, pubkeys, ctx, gnupg, call, restarts>>

Next ==
  \/ \E file \in KeyFiles : AddPublicKey(file)
  \/ \E path \in Paths : SetKeyringPath(path)
  \/ \E e \in Engines, raw \in {{}} \cup {{k} : k \in RawKeys} : Begin(e, raw)
  \/ Setup \/ Operate
  \/ Restart
  \/ \E thing \in KeyFiles \cup Paths \cup {GpgBinary} : Break(thing) \/ Repair(thing)

\* A running operation is the process's own code and goes on.
Fairness == WF_vars(Setup \/ Operate)

Spec == Init /\ [][Next]_vars /\ Fairness

-----------------------------------------------------------------------------
(* Properties. *)

\* The variables keep their types.
TypeOK ==
  /\ public_keys \in Seq(KeyFiles)
  /\ keyring_path \in Paths
  /\ done_setup \in [Engines -> BOOLEAN]
  /\ pubkeys \in [MemEngines -> SUBSET (KeyFiles \cup RawKeys)]
  /\ ctx \in [state : {"none", "bare", "ready"}, home : Homes]
  /\ gnupg \in [Homes -> SUBSET KeyFiles]
  /\ broken \subseteq KeyFiles \cup Paths \cup {GpgBinary}
  /\ call \in {NoCall} \cup
       [pc : {"setup", "keys", "ready", "failed", "done"}, engine : Engines,
        raw : {{}} \cup {{k} : k \in RawKeys}, next : Nat \ {0}]
  /\ restarts \in 0..MaxRestarts

\* The keys engine e verifies a signature against.
Trusted(e) == IF e = Gpg THEN gnupg[ctx.home] ELSE pubkeys[e]

\* The key files among the first n of the context that are for engine e.
Added(e, n) ==
  {public_keys[m] : m \in {k \in DOMAIN public_keys :
                             k <= n /\ EngineOf[public_keys[k]] = e}}

\* An in-memory engine trusts only keys of the context that are for it, and raw
\* keys it was given, through any number of failed and repeated set-ups.
OnlyAddedKeys ==
  \A e \in MemEngines : pubkeys[e] \subseteq Added(e, Len(public_keys)) \cup RawKeys

\* A set-up is done, and the operation goes on, only when every key the context
\* holds then and the engine does not ignore is trusted, whichever earlier
\* attempts broke off half way.
SetupLoadsEveryKey ==
  [][\A e \in Engines :
       done_setup'[e] /\ ~done_setup[e] =>
         Added(e, Len(public_keys)) \subseteq Trusted(e)]_vars

\* While a process runs, an engine that was set up does not stop trusting a key.
TrustIsKept ==
  [][\A e \in Engines :
       done_setup[e] /\ restarts' = restarts => Trusted(e) \subseteq Trusted(e)']_vars

\* Once everything stays repaired, an engine that keeps being called keeps
\* completing its operations: no half-done set-up keeps it from it.
SetupRecovers ==
  \A e \in Engines :
    <>[](broken = {}) /\ []<>(~Between /\ call.engine = e)
      => []<>(call.pc = "done" /\ call.engine = e)

=============================================================================
