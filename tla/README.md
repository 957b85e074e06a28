# libjcat in TLA+

libjcat reads, writes and verifies *Jcat files*: gzip-compressed JSON catalogues
of checksums and detached signatures.  This directory holds TLA+ modules of the
library and of `jcat-tool`, TLC configurations that check them on small
instances, and proofs that TLAPS checks for every value of the constants.
Paths below are relative to `src/libjcat/` of the repository, unless they start with `src/`.

## 1. The system

### Vocabulary

A **blob** is one checksum or signature: a kind, a target kind (the kind of the
blob it was made over, or *unknown* for the file itself), an IS_UTF8 flag, data.
An **item** is a list of blobs with an ID and aliases.  A **file** is a list of
items.  An **engine** makes and verifies blobs of one kind.  A **context** owns
the engines, the names of the public keys, the keyring path and the allowlist.

### Components

| Component | Source | State | Operations | Modelled in |
|---|---|---|---|---|
| Verification of items | `jcat-context.c` | per call: results, a counter | `verify_item`, `verify_target` | `JcatItem`, `JcatVerdict`, `JcatVerify` |
| Allowlist | `jcat-context.c` | a 32-bit mask | `blob_kind_allow`, `blob_kind_disallow`, `get_engine` | `JcatAllowlist` |
| Engine life cycle, keys | `jcat-engine.c`, `jcat-gpg-engine.c`, `add_public_key` of every engine | `done_setup`, keys in memory, a gpgme context, a GnuPG home on disk | `jcat_engine_setup` in front of every engine operation; `add_public_key`, `set_keyring_path` of the context; `add_public_key_raw` | `JcatEngine` |
| Signature verification | the four signature engines | per call: newest time, authority | `pubkey_verify`, `self_verify` | `JcatSignatures` |
| PKCS-7 keyring | `jcat-gnutls-pkcs7-engine.c`, `jcat-libcrypto-pkcs7-engine.c`, `jcat-common.c` | two files on disk | `self_sign`, `self_verify` | `JcatKeyPair`, `JcatPkcs7Keyring`, `JcatKeyrings` |
| Ed25519 keyring | `jcat-gnutls-ed25519-engine.c`, `jcat-common.c` | two files on disk | `self_sign`, `self_verify` | `JcatKeyPair`, `JcatEd25519Keyring`, `JcatKeyrings` |
| File, item, blob and their JSON | `jcat-file.c`, `jcat-item.c`, `jcat-blob.c` | lists, aliases, a version | lookup, add, import, export | `JcatFile`, `JcatJson`, `JcatImport` |
| Commands that change a file | `jcat-tool.c`, `jcat-file.c` | the `.jcat` file on disk, a copy per process | `import`, `self-sign`, `sign`, `add-alias`, `remove-alias` | `JcatCatalogue`, `JcatStore` |
| Commands that read a file | `jcat-tool.c` | per run: the item and blob at hand, `ret` | `verify`, `export` (`info` only prints) | `JcatToolRead` |
| Checksum engines | `jcat-sha1-engine.c`, `-sha256-`, `-sha512-` | none | `self_sign`, `self_verify` | `JcatItem` |
| Signing with a given key | `pubkey_sign` of the engines, `jcat-gnutls-common.c`, `jcat-libcrypto-common.c` | none | `pubkey_sign`, what `self_sign` generates | `JcatSign` |
| Results | `jcat-result.c` | time, authority | getters, printing | `JcatSignatures` (in part) |
| Transparency log parsing | `jcat-bt-checkpoint.c`, `jcat-bt-verifier.c` | none | two parsers | `JcatBt` |
| Bit operations | `jcat-common.c` | none | three pure functions | `JcatBits` |
| Windows support, version, tests, build | | none | | not modelled |

### How they interact

The context calls engines; an engine calls back into its context only for the
list of key files and the keyring path.  Everything is synchronous and a context
belongs to one thread.  What is shared is on disk: the GnuPG home, the `pki`
directory with key pairs, and the `.jcat` file.  None of them is locked, so
the concurrency of the system is that of *processes* between two file accesses.

### What is hard, and what makes each part correct

* **Verification** runs two loops over the same blobs, which share one array of
  results, and every `continue` lets a blob pass.  Correct means: the verdict is
  a condition on the set of blobs (not on their order); a bad checksum can never
  be made up for by a signature; a flag only restricts; something must vouch.
* **The allowlist** uses its initial value as a sign that it was never set.
  Correct: lists built in one way are exact, a disallowed kind stays out.
* **Engines** are set up lazily, at the first operation, and a set-up that
  fails is done again from the start.  Correct: a finished set-up has every key
  the context held; nothing else is ever trusted; a repaired environment is
  enough for the engine to work again.
* **Signatures**: one blob may hold several signatures, and their times and
  authorities are folded into one result.  Correct: an exact "all of them" (or,
  for Ed25519, "any key"), the newest time, an authority that really signed, whatever
  earlier calls have left in the engine.
* **Keyrings** are generated when first needed, by whichever process comes
  first, as two files.  Correct: a signature made here verifies here, whatever
  was cut short; one key pair for ever.
* **The file** is read, edited and replaced as a whole.  Correct: what was
  written can be read, as long as nothing was stored that JSON cannot hold, and
  is then what was meant; IDs are unique; a signature over
  another blob always has that blob beside it; one after the other, commands
  act on a mapping from IDs to items.
* **The JSON form** leaves out what is empty, cuts numbers, and holds binary data
  and text in two encodings.  Correct: what was written can be read again and is
  what was meant, wherever the blobs came from; an import only adds, also when
  it fails; a number that fits is kept.
* **Signing** is done by one build and verified by another, and of a self-signature
  the certificate file is chosen twice, by different flags.  Correct: what is signed
  with a pair verifies in both, but where the code says otherwise; what is signed
  with keys that do not belong together never does.
* **Checkpoints** of a log are parsed by counting lines, sections and bytes.
  Correct: origin, size and root hash of one that verifies were signed
  together, by a log whose key was given; one that arrives whole is read.
* **Reading commands** have loops of their own, which end early, skip, and share
  a `ret` per function.  Correct: the exit status of `verify` is a condition on the
  file, and never kinder than the library; `export` loses no name.

`PROJECT.json` lists the hazards one by one, each at its line.

## 2. The modules

### Verification: `JcatItem`, `JcatVerdict`, `JcatVerify`

`JcatItem` has the vocabulary: blobs, requests, what the checksum and signature
engines answer for one blob, which blobs a loop considers.  Data is symbolic:
`Digest(kind, data)` and `Signature(key, data)` are injective records.
`AsString` keeps what `jcat_blob_get_data_as_string` does: UTF-8 as it is,
anything else as base64, so that a binary and a textual checksum differ in
`verify_target` although they may agree in meaning.

`JcatVerdict` is the promise, one step with a quantified condition.  `JcatVerify`
is the code: one action per way through an iteration (`ChecksumSkip`,
`ChecksumAgrees`, `ChecksumFails`, `SignatureSkip`, `SignatureVerifies`) and per
check between and after the loops (`NoBlobs`, `ChecksumsEnd`, `SignaturesEnd`).
`verify_item` and `verify_target` have the same loops; they differ in what is
considered and compared, which is in `CsumConsidered`, `CsumAgrees`,
`SigConsidered` and `SigVerifies`, by the `op` of the request.

### Allowlist: `JcatAllowlist`

The mask as the set of its bits.  `Allow`, `Disallow` are the two calls; `Answers`
is the set of answers `get_engine` may give, a set because `1ull << kind` is
undefined for a kind of 64 or more, which an imported blob may have.  Engines are then
looked up by the kind itself, so that such a kind is given none and only the text of the error
is undefined: no property speaks of it.

### Engines: `JcatEngine`

`Begin` enters an engine operation; if `done_setup` is not set, `MemSetup` or
`GpgSetup`/`GpgAlreadyCreated`, then one `LoadKey`, `IgnoreKey` or `LoadKeyFails`
per key file, then `SetupDone`; `Operate` is the operation.  `Break` and `Repair`
are the surroundings (a key file, the directory, the gpg program), `Restart` a
process that exits at any point.  `gnupg` is what is on disk and survives it.

### Signatures: `JcatSignatures`

One call of an engine on one blob.  The GnuTLS engine's loop verifies and reports
in one iteration; the OpenSSL engine verifies all signatures at once and then
reads their times, through `mktime`, so the local time zone is part of the input.  It
verifies with a store that all its calls share (`self_verify` has a new one), in which a call
has to clear the flag that an earlier one has set: `no_check_time` is that flag, which
has any value at the start, and `ConfigureStore` sets or clears it.  The GnuPG engine takes gpgme's list; the Ed25519 engine loops over keys.

### Signing: `JcatSign`

`pubkey_sign` of the PKCS-7 engines of both builds and of the Ed25519 engine, as an
extension of `JcatSignatures`: a `Request` is signed (`Sign`) or not (`SignFails`), and
the actions of `JcatSignatures` then verify the blob, in the build that made it or in
the other one.  A request is what `jcat-tool sign` or a program may ask for, or what
`self_sign` asks for with its own pair (`SelfPairs`), which either build may have
generated.  What `self_sign` has made is given to `self_verify`, whose one key is what it
finds in a file of the `keyring`: `client-mldsa87.pem` for GnuTLS with `ONLY_PQ`, `client.pem`
otherwise (`SelfVerifyFile`); the certificate used may be in the other one
(`CertificateFile`), or gone, or replaced.  A certificate is its key, its issuer and whether it has expired.
The module has the engines' differences: the OpenSSL engine reads RSA keys only,
adds a time that nobody asked for before version 3.5, and does not look at what
`CMS_sign` returns; the GnuTLS engine does not compare the key with the certificate.

### Keyrings: `JcatKeyPair`, `JcatPkcs7Keyring`, `JcatEd25519Keyring`, `JcatKeyrings`

`JcatKeyPair` is the promise of the section "Self Signing" of `src/README.md`: one pair,
generated once, never changed.  The other two are `self_sign` as the sequence of
its file accesses, one action per access, run by several processes; `Abort` cuts
a call short anywhere: the process is killed, or a library call fails.  The
variable `serial`, chosen in `Init` and fixed, says whether processes take turns.
The two engines differ where it matters: PKCS-7 writes the secret first and
repairs a missing certificate from it; Ed25519 writes the public half first and
tests only for the secret one.

`JcatKeyrings` is what is model-checked: both engines in one keyring directory, by
INSTANCE.  The processes share the `pki` directory, which either engine may be about
to make, `aborts` and `serial`; the files are those of one engine each.

### The file and its commands: `JcatFile`, `JcatJson`, `JcatCatalogue`, `JcatStore`

`JcatFile` has the containers as operators: `GetItemById` with its fallback to
aliases, `AddItem`, `AddBlob`, aliases.  Of a blob's data it keeps what decides whether
JSON can hold it (`Data`): text may have a NUL, may not be UTF-8, may be empty.
`JcatJson` is the JSON form: members are
left out when a list is empty, text is cut at a NUL, and one string that is not UTF-8 makes
the document unreadable, as does an empty ID.  `JcatStore` runs the commands.  A command is
two steps, since between its read and its write everything is private to it:
`ImportFile`, `Sign`, `AddAlias` or `RemoveAlias` reads and edits, `Write` replaces the file.
`Sign` stands for `sign` and `self-sign`, which differ in where the
keys come from and make text; `ImportFile` is `import`, which takes a file for
text by its suffix and makes a blob of it that JSON may not hold.  IDs come from the command
line, and may be empty or not UTF-8; `unclean` counts the commands that were given such an
ID, or such a file, to store.  `WriteCutShort` is a full disk,
`Kill` a process that ends before the rename.  The variable `calm`, chosen in `Init`
and fixed, says whether commands take turns, are given what is clean, and the disk has
room.  `JcatCatalogue` is what the calm commands promise: a mapping from IDs to items, changed one item at a time.

### The JSON form: `JcatImport`

One `JcatFile` object, to which a program adds items and blobs (`AddItem`, `AddBlob`),
into which it imports `Documents` (`ImportJson`), and which is exported and read
back (`Reload`).  `Import` and `Export` are the parser and the builder with all their
checks, in the order that decides what a failed import leaves behind: the version
is taken first, then the items before the first bad one.  A document is a record
whose members are sets of at most one value, one of them `Other` for a value of
another type.  `Cut` is the conversion from 64 bits to 32, `Encode` and `Decode`
are the two encodings of data, down to the NUL at which a C string ends.  That
`JcatJson`, which knows five sorts of data and no numbers, is a sound abstraction of this
is an invariant, `AgreesWithJcatJson`: of every file that arises, the text that is not
UTF-8 included, both read the same back, or nothing.

### Transparency logs: `JcatBt`, `JcatBits`

`JcatBt` is the program of the test `jcat_bt_common_func`: it reads verifier files
(`AddVerifier`) and checkpoints (`NewCheckpoint`), and verifies (`Verify`).  Texts are
sequences of lines and words; a decoded byte says what it is a byte of, so that a
key that was cut or misread differs from every key.  `Copies` is what may arrive of
a text.  The logs are external, as are their texts, which follow the
test data.  `JcatBits` has the three functions in both builds, `OnesCount` and the others
with the built-ins, `OnesCountLoop` and the others without; a built-in that is undefined
for 0 has a set of results.  `JcatBt` extends it: the sizes of its logs are the numbers.

### The commands that read: `JcatToolRead`

`verify` and `export` walk over items (`queue`) and over the blobs of one (`blob`).
`verify` does not use `jcat_context_verify_item`: it looks for the source under the
names of the item (`NoSource`, `LoadSource`), calls the engines blob by blob
(`Verify`), takes another blob as the data where the blob says so (`Resolves`), and
gives the item up where that one is missing (`TargetMissing`).  A blob is SKIPPED only
if there is no engine for it.  `ReadsBeyond` is the undefined behaviour on the way to
the message of a missing source (`jcat-tool.c:563`): the process may die.  `export`
writes one file per blob (`Write`) and ends at the first that cannot be written
(`WriteFails`).

## 3. The runs

The passing runs:

| Run | Question | Result |
|---|---|---|
| `verify` | Which items do `verify_item` and `verify_target` accept? | Exactly those of `JcatVerdict` (`RefinesVerdict`), in any order of the blobs, never with a bad checksum (`LoopInv`), never fewer with fewer flags; an honest target stands for the data |
| `allowlist` | Can calls make the mask look untouched? | Not if they are of one style; a disallowed kind stays out |
| `engine` | What does an engine trust after any mixture of additions, moves, failures, restarts? | Only what was added for it, everything that was there when the set-up finished, and never less later; it recovers |
| `signatures` | What do the four engines say of a blob, in particular of one that they have signed? | The quantified verdict under the flags of this call, the newest time, a signer's name; what was signed with a pair verifies in both builds, but for signatures without a time, which OpenSSL refuses, and post-quantum ones that `self_verify` looks for in `client.pem`; what was not signed with a pair never does |
| `keyrings` | Does a self-signature verify on this computer, whichever engine made it and whatever the other does in the same directory? | Always if processes take turns, whatever is cut short; a complete pair is safe even if they do not; signing recovers |
| `store` | Do commands one after the other act on a mapping, and what can overlapping ones not break? | Yes, also when some are killed; IDs stay unique, targets stay beside their signatures.  The file stays readable while commands are given clean IDs and files only: an ID that is empty or not UTF-8, or a file that is not the text its suffix says, is written with success and nothing can be read again (`WrittenIsRead` says exactly when) |
| `tool_read` | When do `verify` and `export` succeed? | `verify` exactly if every item has its source, every blob its target, and no engine refuses one; an item it passes whole, with a blob over the source PASSED, the library accepts; `export` writes a file for every name |
| `import` | What does the JSON form keep, and what does an import do to a file? | All that `RoundTrip` lists; a file is readable exactly if no list of it is empty and its text is text; imports only add, and say whether they added all |
| `bt` | Which checkpoints are accepted, of all that may arrive? | Only those a log has signed, with the size it has signed; all that are whole and whose size fits |

The runs that end in a counterexample, each of a sentence of the documentation:

| Run | Sentence | What happens |
|---|---|---|
| `doc_target_checksum` | "At least one `verify=CHECKSUM` ... must exist" (`jcat-context.c:444`) | `verify_target` accepts an item with a signature over a target blob and no checksum |
| `doc_timestamp` | "UNIX timestamp" (`jcat-result.c:49`) | the OpenSSL engine shifts the time by the local UTC offset |
| `doc_success_is_stored` | "%TRUE for success" (`jcat-file.c:344`) | with a full disk the last bytes are lost when the stream is closed, after success was decided |

Every property of a passing run has a mutant in `PROJECT.json`: a definition
of the model changed as a plausible bug would change the code (the mutants stand
before the definitions they replace), with which TLC finds the property violated.

### Bounds, and why they are enough

* `verify`: items of 3 blobs out of 9 (2 out of 10 with a target of up to 2 blobs).
  The loops keep no state but the results and a counter, each compared only with
  zero; three blobs give a skip, a good and a bad one in every order.  The proofs
  have no bound.
* `allowlist`: 4 kinds in 6 bits, so that two bits are spare, in a word of 8 bits.
  Widths are parameters of the proofs.
* `engine`: an in-memory engine and the GnuPG engine, a key file for each, two
  keyring paths, two additions, one restart.  A second key of an engine is the
  same file again.  Two in-memory engines would not share any state.
* `signatures`: 3 certificates (one of them issued by another), up to 2 keys and 3
  signatures out of 8, three time zones, one of them further from UTC than any of the times; every pair of a certificate and a key to sign with; the flag of earlier calls set and clear; of the two certificate files of a keyring, each absent or with any certificate of its sort (two RSA, one post-quantum).  Three signatures are the fewest where the newest stands between
  older ones and one of them has no printable name.  `MaxSignatures`, `MaxKeys` bound nothing else.
* `keyrings`: 2 processes, each with either engine, 2 calls cut short, 6 keys.  Every key beyond the first is
  due to an abort or to the other process having found no key, so that six
  are not used up in a way that blocks (TLC checks for deadlock).
* `tool_read`: one item of up to 3 blobs out of 7, or two items of 1 and 2, of the same
  or different IDs; six states of the directory; with and without SOURCE, `--kind`,
  `--only-pq`.  `ret` is set once and never cleared, so two items and three blobs give
  every order of good and bad.
* `store`: 2 processes, 2 IDs that are clean, one that is empty and one that is not UTF-8; 2 items
  with 3 blobs and aliases between them, one fault, two commands that are given something
  unclean.  With two IDs a name can be an ID, an alias of the other item,
  both or neither, and an alias can be ambiguous.  A signature over a checksum and checksums
  of every sort of data are the blobs.
* `import`: 2 items of 1 blob, numbers below a `Limit` of 8, so that 8 and 9 are cut; a good document, those that differ from it in one
  member, and those with a good item before or behind a bad one.  Blobs are
  imported one by one, so that a second one of an item is only needed in the document
  whose second blob is bad.
* `bt`: 2 logs, one of them with a plus sign in its key, 2 checkpoints of sizes 0 to 8,
  where 3 is the largest `guint` and 7 the largest 64-bit number; keys of 2 and
  signatures of 3 bytes, which differ as 32 and 64 do.

The `store` run uses symmetry of processes and IDs, and a view that drops how a
finished command ended and, of overlapping commands, what they were asked.  No later step
depends on what is dropped, and the action properties look at it only of a command
that is about to write, whose `outcome` is always "none".  The `import` run has a view without
the answer of the last import, for the same reason.

### Fairness

* `JcatEngine`: weak fairness of the running operation.  It is code of the calling
  thread, which waits for nothing but its own calls.  Nothing else is fair: not
  the caller, not the repair of the surroundings.  `SetupRecovers` assumes what it
  needs, surroundings that stay repaired and a caller that keeps calling.
* keyrings: weak fairness of each process's next step, not of `Begin` or `Abort`,
  which is bounded.  `SigningRecovers` assumes that the keyring keeps being used.
* `JcatVerify`, `JcatSignatures`, `JcatToolRead`: weak fairness of the loop; no run needs it, as
  the runs look for loops that are stuck by checking for deadlock.
* `JcatStore`: weak fairness of a started command's write; the runs check safety.
* `JcatImport`, `JcatBt`: none; nothing there must happen.

## 4. The proofs

| Module | Proved for all constants | Inductive invariant |
|---|---|---|
| `JcatVerify_proofs` | `LoopInv` itself, `TypeOK`, that `JcatVerify` implements `JcatVerdict`, and from it `OrderIrrelevant`, `FlagsOnlyRestrict`, `TargetStandsForData` | `LoopInv`: at the head of each loop, `results` is exactly the set of blobs passed that count, and everything the first loop established still holds in the second |
| `JcatContext_proofs`, of `JcatAllowlist` | `MaskTypeOK`, `DisallowedStaysOut`, `ExactUnlessMixed` | the mask of a list that was set lacks the bit of every disallowed kind, and some spare bit unless `allow` was never called |
| `JcatContext_proofs`, of `JcatEngine` | `TypeOK`, `OnlyAddedKeys`, `SetupLoadsEveryKey`, `TrustIsKept`; that every step of an operation leaves fewer (`OperationsEnd`) and that a set-up fails only over what is broken at the time (`NothingOldFails`) | `LoadProgress`: in the middle of a set-up, every key up to the one at hand that is for this engine is already trusted; `GpgCreated`: a GnuPG engine that was set up has its context |
| `JcatSign_proofs`, of `JcatSignatures` | `TypeOK`, `VerdictIsExact`, `FlagsOnlyRestrict`, `NewestIsReported`, `AuthorityIsSigner` | `Passed`: every signature before the loop's index holds (for Ed25519: no key before it verifies), and all of them once `CMS_verify` has succeeded; `Reported`: the time and authority so far are those of the signatures passed; `ReadToEnd`, `Answered`: what an answer says of them |
| `JcatSign_proofs`, of `JcatSign` | `SignedVerifies`, `OnlyPairsVerify`, and the properties of `JcatSignatures` again, of signatures that the engines have made | `SignInv`: before signing, a request; after it, the invariant above, and the signatures are some that the request may lead to; the key of `self_verify` is what is in the file it reads |
| `JcatStore_proofs` | `TypeOK`, `WrittenIsReadable`, `UniqueIds`, `TargetsArePresent`, `WrittenIsRead`, for any number of processes and faults, and that calm commands implement `JcatCatalogue` | `IInv`: what is on disk, and every copy about to be written, is sound, and readable while nothing unclean was stored; the lemmas show that each edit keeps it so and that JSON gives back what it can hold of what it was given.  `CalmInv`: a calm command is alone, and its copy is its edit of what is still on disk |
| `JcatToolRead_proofs` | `VerifyIsExact`, `AgreesWithLibrary`, `ExportIsComplete` | `QueueInv`: the queue holds chosen items, each once.  `VerifyInv`, `ExportInv`: `ret.file` says whether the items passed hold, `ret.item` whether a blob passed failed; each blob passed has its file |
| `JcatImport_proofs` | `TypeOK`, `RoundTrip`, `AgreesWithJcatJson`, `ImportAppends`, `NumbersAreKept`, for any documents, items, blobs and widths | `TypeOK`: the aliases of an item are distinct; kinds, flags, targets and the version are below `Limit` |
| `JcatBt_proofs` | `KeysAreWhole`, `AcceptedIsSigned`, `WholeIsVerified`, for any logs, sizes and lengths of keys; `BitsAgree`, for any width | `KeyInv`: the keyring holds the keys of the files given; `TextInv`: every signature in the text at hand was made by a log, over a checkpoint it has published, and the checkpoint is what the parser makes of this text |
| `JcatKeyrings_proofs` | `TypeOK` of both engines, `OwnSignaturesVerify`, `SettledKeyringIsSafe`, and that both keyrings implement `JcatKeyPair`, for any number of processes, keys and calls cut short; that every call ends (`EveryCallEnds`) and, of processes that take turns, signs (`EveryCallSigns`) | `Pkcs7Inv` and `Ed25519Inv`: at each step of a call, which of the two files are there and, if processes take turns, whose keys the call holds; the certificate never without its key, the secret Ed25519 half never without its public one.  `OneCall`: of processes that take turns one call is under way, of one engine, and nobody else makes the directory it is about to make |

Except for types, the properties are not inductive as they stand:
`SetupLoadsEveryKey` speaks of the end of a loop, and needs what holds in the middle
of it; `UniqueIds` speaks of the file on disk, and needs the same of every copy;
`OwnSignaturesVerify` speaks of signatures already made, and needs what a call
may have left half done, and that the next call takes it up; `VerifyIsExact` speaks of
the exit status, and needs what `ret` says in the middle of each of two nested loops.
The refinement of `JcatCatalogue` maps the write of a calm command to the abstract
command, and rests on three lemmas: a name is resolved in the file as in the mapping
(`Resolved`), replacing an item replaces its entry (`CatalogueReplaced`), and appending
one adds its entry (`CatalogueAppended`).

`RoundTrip` speaks of reachable files only, since it is false of others: an alias
that an item had twice would be read once.  Its proof goes from a blob to an item to a
file; aliases are read one by one, with the duplicates dropped, and the lemmas `AliasesAreDistinct`
and `DistinctAreKept` show by induction on their number that nothing is dropped of what was written.
`AcceptedIsSigned` needs to know where the bytes of a text come from (`TextInv`), as
signatures are ideal but texts are not; a text that is not whole is then compared with
the signed one line by line.  `KeysAreWhole` rests on the two shapes a verifier file has
after it was split at its plus signs (`PlainFiles`, `PlusFiles`).  `BitsAgree` needs
no invariant: its lemmas say what each loop returns (`FirstIsFirst`,
`LoopCountsBits`), which bits a number below a power of two has (`HighBits`), and
that the power of two of its trailing zeros divides it (`TrailingZerosDivide`).

Each engine's invariant
is proved alone, from its own steps; of the other engine's it needs only that
they leave its files alone, whatever they do to the directory both are in.
Assumptions are the `ASSUME`s of the modules: disjoint kinds, a spare bit in the
mask (`KindLast < Width`; 12 kinds, 32 bits), an `Unknown` that is no kind, the GnuPG engine not being an
in-memory one; the largest `guint` being smaller than the largest 64-bit number (where it
is not, a size cut to it by `g_ascii_strtoull` would be accepted).  TLC evaluates all of them.

Three properties were restated when their proofs failed, because TLC then showed them
false for other constants.  `NewestIsReported` and `OnlyPairsVerify` take the maximum of
the times and 0: in a time zone that is further from UTC than the time itself, `mktime`
gives OpenSSL's time as negative and the result keeps 0; the runs have such a zone.
`TargetStandsForData` has its second alternative since `verify_target` compares
`jcat_blob_get_data_as_string` (`jcat-context.c:503`), where text that is the base64 of
a checksum is the same as the checksum; the `verify` run has such a blob.
`ImportAppends` said that an import succeeds if and only if every item was added; a
document without a version and with an empty list of items has none to add, and fails.
It now names the head; the `import` run has such a document.

Only model-checked: the two liveness properties, `SetupRecovers` and `SigningRecovers`; the
installed provers can do neither fairness nor ENABLED.  What is proved of them is the rest: each step
that an operation or a call takes makes a number smaller, and where it ends without success
something was broken at the time, or it was cut short itself.  That a step can be taken, and is, is left to
TLC (the runs check for deadlock).
Every other property of the passing runs is a theorem.
Recursive functions over numbers (base64 words, aliases, loops over bits) are proved about
by induction over a *set*, `ASSUME 0 \in S, \A n \in Nat : n \in S => n + 1 \in S
PROVE Nat \subseteq S`, which follows from the well-foundedness of the natural numbers
(`Induction`), first that the function exists and then what it returns.

## 5. What the models leave out

* Cryptography: digests and signatures are injective; a certificate stands for the
  chain that leads to it.  The file formats of keys and signatures.
* Wording of errors, logging, printing; AppStream IDs but in `JcatImport` and in the names `export` makes.
* Keys of an engine are sets: loading one twice has no effect in the verdict.
* Failures inside an engine operation that is not about keys; out of memory.
* That encoding the NULL of a failed `CMS_sign` fails (`jcat-libcrypto-pkcs7-engine.c:401`) is taken
  from OpenSSL.  One call of an engine is followed; of earlier ones `JcatSignatures` has the flag
  they leave, `JcatEngine` the keys.
* A checksum with an embedded NUL or of length zero, where
  `jcat_blob_get_data_as_string` and `g_strcmp0` cut it short.
* A reader that opens a `.jcat` file while it is first written (in place) sees part of it
  and fails, which is the same as a command that failed.
* The build is one with post-quantum support in GnuTLS (`HAVE_GNUTLS_PQC`); without it
  the engine refuses `ONLY_PQ`.
* What base64 decoding makes of text that is not base64 (`Misread`), and JSON that holds a member twice.
* The ASN.1 of certificates and PKCS-7 structures, and how their chains are verified.
* The search for the gpg program on Windows, the version functions, tests and build files,
  which have no state.

### Other disagreements met while modelling

No run is about these; the models do what the code does.

* `verify_item` accepts an item with a good checksum although every signature of it
  is bad, without `REQUIRE_SIGNATURE`; `jcat-context.c:320` says "only one
  non-checksum signature has to verify".
* `verify_target` passes over a checksum that the target lacks or has twice;
  `jcat-context.c:445` says "all checksum types that do exist must verify correctly".
* `ONLY_PQ` is ignored by the GnuPG, Ed25519 and OpenSSL engines; the GnuTLS engine
  looks at the algorithm that signed the certificate, not at that of the signature.
* A key added to the context after an engine was first used is never loaded by it;
  `jcat-context.c:232` says "using the public keys added to the context".
* `jcat-tool verify` succeeds for an item all of whose blobs are SKIPPED, as does a file
  without items; `src/NEWS:11` says "Require at least one successful verification
  regardless of flags".
* `jcat-tool export` overwrites: of two blobs with one item ID, AppStream ID and kind the
  later one is kept; `jcat-tool.c:938` says "Exports all embedded signatures to files".
* After calls of `blob_kind_disallow` only, `blob_kind_allow` adds to the list; it
  replaces the list only when that is untouched.
* A GnuPG set-up that failed once is taken for done by the next, and gpgme then uses the
  user's own home; keys it imported persist there, and a keyring path set
  later is not followed.
* `DISABLE_TIME_CHECKS` is not honoured by the GnuPG engine.
* The GnuTLS engine reports time 1 for a signature without one.
* Overlapping `self-sign` calls with an empty keyring may leave halves that do not
  match, for good; overlapping commands on one `.jcat` file may lose a blob.
* A blob imported without a timestamp has the time of its import, which `jcat_blob_init`
  (`jcat-blob.c:47`) has set; `jcat_blob_get_timestamp` says "or 0 if unset", which never is.  A file
  exported with `NO_TIMESTAMP` has made-up times after it was read and written again.
* A kind of 2^32 and more is cut to one that may be known; `jcat-blob.c:244` says "can
  be unknown to us for forward compat".
* `jcat-tool import` flags every `.p7b`, `.pem` and `.asc` as text (`jcat-tool.c:309`, `:330`): with
  a binary one it succeeds, and the `.jcat` file cannot be read any more.  An ID or an alias that is
  not UTF-8, and an empty ID, do the same.  An empty file is stored as empty text; where GLib keeps no buffer for that,
  it is read back once and written as `null` the next time, which cannot be read.  The table of suffixes lacks `.sha1`.
* An import that fails keeps the items before the bad one and the new version, so
  that a retry adds those items again.
* `jcat-tool self-sign` does not ask for a time, and the OpenSSL engine, built with OpenSSL 3.5
  or later, then makes a signature that it refuses itself (`jcat-libcrypto-pkcs7-engine.c:257`).
* The GnuTLS engine signs with a key that is not the certificate's, without an error.
* A self-signature made with `USE_PQ` is refused by `self_verify` without `ONLY_PQ`, which reads
  `client.pem` (`jcat-gnutls-pkcs7-engine.c:306`), and by the OpenSSL build always
  (`jcat-libcrypto-pkcs7-engine.c:332`).
* The third line of a checkpoint is the root hash of the log; the code calls it the
  "ED25519 public key" (`jcat-bt-checkpoint.c:251`).  Nothing compares names, identities and hashes,
  as the test notes itself (`jcat-self-test.c:1273`); signed notes with more lines are refused.
* `jcat_item_add_alias_id` lets two items have one alias, and both are
  then found by neither.

## 6. Plan

Done, in this order: verification and its abstract verdict; allowlist; engines;
signatures; the two keyrings and their key pair; the file, its commands and the
catalogue; the commands that read; proofs about five of them; the JSON form;
both keyrings in one directory, and proofs about them; signing across builds;
transparency logs and bits;
proofs about signing, the commands that read, and the catalogue; about what
verification accepts, the JSON form, transparency logs and bits; data in the JSON form of
the stored file, with commands given unclean IDs and files; the certificates a keyring of
`jcat-tool` has, and the store flag an earlier call of OpenSSL left behind.

Next, to prove: a measure for the loops of `JcatVerify`, `JcatSignatures` and `JcatToolRead` too; that two
`JcatFile`s which differ in no more than what the JSON form drops verify alike.

The number of runs is kept small (twelve), each with a question of its own; new runs replace
weaker ones, as properties do.
