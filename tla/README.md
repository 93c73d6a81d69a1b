# Formal model of nxe-jwx

nxe-jwx is a C library for nginx modules that decodes, verifies and issues JSON
Web Tokens over OpenSSL and nxe-json. This directory holds TLA+ modules of its
core, the TLC runs that check them, and TLAPS proofs about them. File and line
numbers are those of the repository; `jws.c` stands for `src/nxe_jwx_jws.c`, and
so on.

## 1. The system

| Component | State it keeps | Operations | What makes it correct |
|---|---|---|---|
| Algorithm policy (`jws.c`) | the constant table `nxe_jwx_algs[]` | lookup, key/algorithm compatibility, single-key verification, algorithm of a key | an accepted signature fits the type, curve and pin of the key that accepted it |
| Verification and key selection (`jws.c`) | per call: loop index, `kid_matched_any`, `any_internal_error` | `nxe_jwx_jws_verify`, `nxe_jwx_jwks_verify_raw`, `nxe_jwx_jwks_verify_raw_by_kid` | the result is the policy's, whatever the order of the keys and whatever OpenSSL does; no key confusion; one refusal code |
| Keyset parsing (`jwks.c`) | JSON document, slots, count | `nxe_jwx_jwks_parse`, `nxe_jwx_jwks_parse_keyval` | the keyset is the usable entries of the document, with their own metadata, or nothing |
| Keyset ownership (`jwks.c`) | `EVP_PKEY` handles, secrets, the pool cleanup | `nxe_jwx_jwks_alloc`, `_cleanup`, `_free`, `ngx_destroy_pool` | each handle is owned by one slot, freed once, and always reachable by a cleanup |
| Keyset queries (`jwks.c`) | none | `_count`, `_has_kid`, `_thumbprint`, `_has_thumbprint`, `find_by_*` | tell a caller which refusal it got |
| Thumbprint (`thumbprint.c`) | none (pool copies) | `nxe_jwx_jwk_thumbprint` | depends on the key alone; leaves no copy of a secret and no BIGNUM |
| Token decoding (`decode.c`) | token: header, payload, signature, signing input | `nxe_jwx_decode`, accessors, cleanup | all or nothing; the signing input is the bytes that were signed; nothing leaks on a failure half way |
| Issuing (`jws.c`) | per call: the private key, the output | `nxe_jwx_encode` | what is issued decodes and verifies with the matching key; no output on a failure; the key is freed |
| Claim accessors (`claims.c`) | the caller's output variables | `nxe_jwx_claims_get_*` | the claim of that path and type, or an empty output |
| Host services | pool, cleanup list, OpenSSL objects | nginx core, OpenSSL, nxe-json | external |

How they interact. A caller decodes a token and parses a keyset, each on a pool,
then calls a verifier with both; the verifier reads the slots of the keyset
directly (`nxe_jwx_internal.h`). The parsers take zero-copy views of the JSON
document, copy what must outlive it and free it. The pool calls the cleanup a
keyset or token registered, unless `nxe_jwx_jwks_free` disarmed it first. The
library is single-threaded per pool and blocks nowhere: what is hard here is not
concurrency but sequences (two passes over one keyset with shared flags, entries
that reuse the slot of a skipped one), failures in the middle (one allocation of
several, one key of several), ownership across early returns, and agreement
between parallel paths (pass 1 and `verify_raw_by_kid`, JWK and PEM, encoder and
decoder). `PROJECT.json` lists each hazard at its line.

## 2. Modules

| Module | Models | Kind |
|---|---|---|
| `JwxAlg` | the algorithm table and the single-key verification | constant module |
| `VerifyPolicy` | what a caller may assume of a verifier: one call, one answer, and the answer depends on the call only | abstract specification |
| `JwxVerify` | the three entry points, one loop iteration per action | extends `JwxAlg`, implements `VerifyPolicy` |
| `JwxKeyset` | one keyset from parsing to release | extends `JwxAlg`, implements `Custody` |
| `JwxToken` | one token from its string to the end of its pool | implements `Custody` |
| `Custody` | what every object promises the pool it lives on: taken once, given back once, nothing held when the pool is gone | abstract specification |
| `JwxIssue` | `nxe_jwx_encode`, one stage per action | extends `JwxAlg` |
| `JwxRoundTrip` | a token issued, sent, decoded and verified against a parsed keyset | composes `JwxIssue`, `JwxKeyset`, `JwxToken` and the verdict of `JwxVerify` |
| `JwxTemps` | the OpenSSL and JSON objects a function makes and gives back, call by call | of its own |
| `JwxClaims` | a caller reading claims | of its own |
| `MCVerify`, `MCKeyset`, `MCToken`, `MCIssue`, `MCRoundTrip`, `MCClaims` | requests, documents, strings, orders, payloads for TLC | TLC instances |
| `JwxAlgProofs` | lemmas about the algorithm table and its lookup | TLAPS |
| `JwxVerifyProofs` | theorems about `JwxVerify`: the loops and their verdict; then the order of the keys, and which were tried | TLAPS |
| `JwxKeysetProofs`, `JwxTokenProofs`, `JwxIssueProofs`, `JwxTempsProofs`, `JwxClaimsProofs` | theorems about the module they are named for | TLAPS |
| `JwxRoundTripProofs` | theorems about the composition, from instances of the three above it | TLAPS |

### JwxAlg

An `ngx_str_t` is a string; `Empty` (written `"-"`) is one of length zero. Key
material is the OpenSSL base id, the group name and an identity. A signature says
who made it, under which scheme and digest, over which message, and its length.
`verify_with_key` returns `"yes"`, `"no"`, `"error"` for 1, 0, -1, in the order
of the code: compatibility, the raw length of an ECDSA signature, a failure of
OpenSSL before the verification proper, the verification. A negative result of
`EVP_DigestVerify` is a `"no"` (`jws.c:276-285`). `SchemeFamily` is the one place
where OpenSSL's defaults show: `nxe_jwx_evp_verify` sets a padding only for PS*,
so that an id-RSASSA-PSS key verifies PSS under RS*.

### JwxVerify

`pc` is the position in the call; `i`, `matched` and `interr` are the C locals
`i`, `kid_matched_any` and `any_internal_error`; `logged` says that the call
wrote its internal-error line; `tries` is a history variable: how often each key
was handed to `verify_with_key` or, by a raw lookup, to `verify_raw_with_key`,
which leaves before it when the key has no algorithm (`jws.c:656`).

| Action | Code |
|---|---|
| `NullArgument`, `Refuse`, `StartJws` | `jws.c:460-508`, the early returns in order |
| `Pass1Skip`, `Pass1Try`, `Pass1Done` | `jws.c:524-545`, kid-strict |
| `Pass2Skip`, `Pass2Try`, `Pass2Done` | `jws.c:563-595` |
| `RawUnknownKey`, `RawTry` | `jws.c:672-695`, by thumbprint |
| `StartByKid`, `ByKidSkip`, `ByKidTry`, `ByKidDone` | `jws.c:698-737` |

Each request carries its keyset, so that a sequence of calls may use several, and
each key carries how OpenSSL serves its handle during the call (`ossl`).

`Verdict` is the policy without loops and flags: the candidates of a request (the
keys of its kid; if there are none, the kid-less ones; every key for a token
without kid; the first key of a thumbprint) and whether one of them verifies. The
code has no such definition; the runs and the proofs relate the two.

### JwxKeyset

A document is a sequence of entries. A JWK entry has its string fields and what
becomes of its key fields (`missing`, `malformed` base64, `unbuildable` by
OpenSSL, lengths, modulus bits); a keyval entry has its name, its JSON type and
the key its PEM holds. `pkeys` and `secrets` follow each `EVP_PKEY` and each HMAC
secret, named by the entry that made it; `root` follows the JSON document; `cln`
the pool cleanup. A second free is recorded as `"double"`.

| Action | Code |
|---|---|
| `RejectShape`, `RejectCount`, `jwks_alloc` | `jwks.c:853-899`, `1084-1125`, `815-840` |
| `JwkNotObject`, `JwkSkipEarly`, `JwkDupFails`, `JwkDeclined`, `JwkError`, `JwkAccepted` | one turn of `jwks.c:901-919` with `parse_one_key` (728-810) and the `parse_*` it calls |
| `PemSkipped`, `PemUnsupported`, `PemDupFails`, `PemAccepted` | one turn of `jwks.c:1127-1243` |
| `Finish` | `jwks.c:921-930`, `1245-1254` |
| `jwks_free`, `DestroyPool` | `jwks.c:240-267`; the pool runs the handler if it is still armed |

Two branches of the keyval loop are left out because nothing reaches them: the
test of the count inside the loop (the document was refused before) and a key of
the iteration that cannot be read. The JWK slot is cleared by `ngx_memzero` on
each use, the keyval slot never is; the model keeps that difference.

`Pool` maps a keyset to `Custody`: held are the live handles, secrets and the JSON
document, spent the freed ones.

The queries are operators of `JwxVerify` (`find_by_kid`, `jwks_has_kid`,
`jwks_has_thumbprint`), because what can be wrong with them is a relation to what
a verifier does with the same keyset.

### JwxToken

A string is the sequence of its dot-separated segments; a segment is its length,
whether it is base64url, how many octets it decodes to, what these are as JSON and
the header strings in them. `json` follows the two documents, `fields` the pointers
of the token, `raws` the octets in pool buffers (plain or cleansed), `cln` and
`pool` the cleanup. A view (`alg`, `kid`) is a value and where its bytes are.

| Action | Code |
|---|---|
| `RejectString` | `decode.c:248-269` with `split_segments` (92-148) |
| `AllocToken`, `CopySigningInput` | `decode.c:271-295` |
| `DecodePart`, `ParsePart` | `decode.c:297-319` with `decode_b64url` (156-180) and `parse_json_object` (188-211): the cleansing comes before the test of the document |
| `DecodeSignature`, `ReadHeaderStrings` | `decode.c:321-342` |
| `DestroyPool` | the pool runs `token_cleanup` (44-72), if it was registered |

### JwxIssue

An order is the arguments of `nxe_jwx_encode`: the kid with its length and that of
its quoted form, the claims with their length and what they are as JSON, the key.
Lengths are computed as the code does, from the parts of the header, base64url
without padding and the signature of the key. `pkey` follows the private key, `out`
the output, whose length is set before its limit is tested.

| Action | Code |
|---|---|
| `RejectArguments`, `RejectOrder`, `AcceptOrder` | `jws.c:1111-1144` |
| `ValidateClaims`, `BuildHeader`, `EncodeSegments` | `jws.c:1146-1183` and the functions they call |
| `HmacSign`; `LoadKey`, `EvpSign`, `DerToRaw` | `jws.c:1185-1236` |
| `TooLong`, `EmitFails`, `Emit` | `jws.c:1238-1282` |

`ReturnError` is a return before there is a key, `GotoOut` the label `out`.

### JwxRoundTrip

Instances of `JwxKeyset` and `JwxToken` over renamed variables, `JwxIssue` over its
own, in the order keyset, token, wire, decoder, verifier. What arrives is the token
as issued or one of seven changes of it (no signature, other claims, another or no
`alg`, no `kid`, a segment less or more). Every component may fail where it can by
itself: a key that cannot be built or copied, an allocation of the decoder, OpenSSL
before or inside a verification; `served` is how OpenSSL serves each slot. The
verifier is one step that returns `JwxVerify!Verdict`, which the two passes are
proved to return (section 4).
`AcceptedExactly` is the property of the library as a whole: a verdict is `OK` iff
the token arrives as issued, the document is a keyset, and some entry both publishes
its key (`Publishes`) and got through parser and OpenSSL unharmed (`Served`). So a
failure costs the key it strikes and no other, and never makes a refused token
accepted; where nothing is lost (`NothingLost`), `Publishes` alone decides.
`Publishes` says what that means as key management, with no reference to a code
path; it makes visible which keys the encoder signs with and a JWKS cannot publish.
An id stands for one key pair (`RoundTripAssumption`): an entry with the id of the
order's key is its public half, of the same type, or an oct key of those octets.

### JwxTemps

A routine is the sequence of its calls, each with the objects it makes, the transfer
of ownership it performs, and what its failure frees; the interpreter keeps C's local
pointers apart from the objects, so that a pointer that was not set to NULL after a
transfer frees its object twice. Both branches of `OPENSSL_VERSION_NUMBER` are in
`All`. A pool buffer with a copy of an oct secret is an object too, freed when it
is cleansed.

### JwxClaims

A payload is a function from paths to typed nodes. A caller reads claims into one
variable per type, without a look at the return code, and goes down into whatever
the object and array getters gave it.

## 3. Runs

All runs have `HaveHmac = TRUE`, the build with every branch; the proofs cover the
build without HMAC as well.
Deadlock is not checked: a behaviour ends after `MaxCalls` calls, or when the
pool is gone.

| Run | Asks | Bounds, and why they are enough |
|---|---|---|
| `verify_select` | Do the loops give the policy's verdict; is there key confusion, dependence on order, drift between the two kid loops, an effect of OpenSSL failures beyond a refusal, a lost log line, a key tried twice? Does `has_kid` tell the refusals apart? Is a signature only accepted under the key, curve, pin and scheme of its algorithm? | `SelectRequests`: every keyset of 0 to 3 keys out of 8: same kid twice, same material twice, unlabelled, pinned, failing before and inside the verification. Three keys allow a failing one, a wrong one and a right one in any order; a loop carries only two flags from one key to the next. `AlgRequests`: keysets of 0 to 2 keys of every type, 16 algorithm strings, genuine and confused signatures (PSS for PKCS#1 and the reverse, an HMAC keyed with a public key, DER instead of `R\|\|S`, another digest). |
| `verify_calls` | Does each call start clean, implement `VerifyPolicy` and return? | Two consecutive calls; a four-key keyset that meets each action. |
| `keyset_faults` | Ownership, cleanup, views, bounds of the array, the filter, keys lost to a failure, thumbprints, under failures; custody; is everything released in the end? | Every sequence of 0 to 3 of 13 JWK entries, and of 9 distinct keyval entries, which between them take each way through the parsers; a failure at any entry; `MaxKeys = 3`, and documents of 4 that are refused. Three entries allow an accepted one, a skipped one and one that takes its slot. |
| `token_faults` | Which strings are tokens; is a token whole, and a failed one reclaimed; are the decoded octets cleansed; custody; is everything released in the end? | Strings of 0 to 4 segments, each of the kinds a stage can meet; limits of 14 and 5 octets, with headers and strings exactly at and one beyond them; a failure at each stage. A stage looks at one segment, so no more are needed. |
| `round_trip` | Which orders are met; is the output whole and the key freed; does what is issued decode; is it accepted exactly when it should be? | The source's own limits (16384 and 8192). Every algorithm with every key type, kids and claims that make a header and a token exactly at and one beyond a limit, a failure at each stage; 40 orders against 225 documents of one or two entries, as JWK under every label and pin or as PEM, some with an entry that rejects the document, the remaining orders (`MCIssue`) against one document: a property of the encoder does not depend on the document. A key lost to OpenSSL in the parser, an allocation of the decoder, and for each key a failure before or inside its verification, in every combination. The other failures of parser and decoder end in `NULL`, as some document or string here does without them, or touch the thumbprint, and the runs of these modules take them. |
| `temps` | Is every temporary given back exactly once, whichever call fails; is a copy of a secret left? | None: every routine, both OpenSSL versions, a failure at each call. |
| `claims` | Does a read answer for the claim at that path, and never with an older one? | Four reads into the same variables: two to get into a nested object, one that succeeds, one that fails. |

The runs `doc_*` each show that the code does not do what a comment or the README
says; section 5 lists them. Their instances are the smallest with the case.

Fairness. `JwxVerify!FairSpec` is weakly fair to the steps of a running call:
the functions are straight code that nothing can block. It is not fair to `Call`.
`JwxKeyset!FairSpec` is weakly fair to the parser and to the destruction of the
pool, which nginx does for request and cycle pools; it is not fair to
`jwks_free`, so that reclaiming never rests on a caller that frees early.
`JwxToken!FairSpec` is weakly fair to the decoder and to the destruction of the pool,
for the same reasons. The other runs check safety only and assume no fairness.

Each property has a mutant in `PROJECT.json`: an operator marked `Mistake` beside
the definition it replaces, with the kind of slip a change to this code could
make, under which TLC finds the property violated.

## 4. Proofs

Every safety property that a passing run checks is a theorem, and so are the three
refinements: they hold for every set of inputs, every limit,
any number of keys, entries or calls, any failures and both values of `HaveHmac`.
The assumptions are those of the modules, and TLC evaluates all of them:

- the inputs have the fields of the C parameters (`RequestsAssumption`,
  `KeysetAssumption`, `TokenAssumption`, `IssueAssumption`, `DocsAssumption`) and
  limits are natural numbers;
- of an order (`IssueAssumption`): claims that are no NULL argument are not empty,
  the value of a kid is none of the markers for a kid that is not there, and a
  private key has at least one bit;
- for claims (`ClaimsAssumption`): a payload is a tree and the NULL name is not a
  name;
- for the composition (`RoundTripAssumption`): an id names one key pair;
  `FaultsAssumption`: the kinds of failures are those of the components;
  `StringsAssumption` says that five literals are strings, which no prover knows of
  a literal.

| Module | Theorem | Property |
|---|---|---|
| `JwxVerifyProofs` | `TypeCorrect` | `TypeOK` |
| | `VerdictIsPolicy` | `VerdictCorrect` |
| | `ErrorsReported` | `InternalErrorReported` |
| | `OneAttemptPerKey` | `EachKeyOnce` |
| | `KidStrict` | `NoKeyConfusion` |
| | `ByKidAgrees` | `ByKidMirrorsPass1` |
| | `NoAlgConfusion` | `AlgRespected` |
| | `FaultIsolation` | `FaultsOnlyDecline` |
| | `ImplementsPolicy` | `PolicySpec`, the refinement of `VerifyPolicy` |
| | `OrderIrrelevantAlways` | `OrderIrrelevant` |
| | `QueriesDisambiguateAlways` | `QueriesDisambiguate` |
| `JwxKeysetProofs` | `TypeCorrect` | `TypeOK` |
| | `EveryHandleOwnedAlways` | `EveryHandleOwned` |
| | `LiveMeansArmedAlways` | `LiveMeansArmed` |
| | `NoDanglingViewsAlways` | `NoDanglingViews` |
| | `SlotInBoundsAlways` | `SlotInBounds` |
| | `UsableKeysAlways` | `UsableKeys` |
| | `KeysetIsFilterAlways` | `KeysetIsFilter` |
| | `NoSilentLossAlways` | `NoSilentLoss` |
| | `ThumbprintCanonicalAlways` | `ThumbprintCanonical` |
| | `CustodyKept` | `KeepsCustody`, the refinement of `Custody` |
| `JwxTokenProofs` | `TypeCorrect` | `TypeOK` |
| | `DecodesExactlyAlways` | `DecodesExactly` |
| | `TokenWholeAlways` | `TokenWhole` |
| | `JsonReachableAlways` | `JsonReachable` |
| | `OctetsCleansedAlways` | `OctetsCleansed` |
| | `CustodyKept` | `KeepsCustody`, the refinement of `Custody` |
| `JwxIssueProofs` | `TypeCorrect` | `TypeOK` |
| | `IssuesExactlyAlways` | `IssuesExactly` |
| | `OutputWholeAlways` | `OutputWhole` |
| | `KeyReleasedAlways` | `KeyReleased` |
| `JwxTempsProofs` | `TempsBalancedAlways` | `TempsBalanced` |
| | `SecretCopiesCleansedAlways` | `SecretCopiesCleansed` |
| `JwxClaimsProofs` | `AnswersAtPathAlways` | `AnswersAtPath` |
| | `NoStaleOutputAlways` | `NoStaleOutput` |
| `JwxRoundTripProofs` | `ComponentsImplemented` | the composition implements `IssueSpec` and the keyset's `Spec` |
| | `IssuedDecodesAlways` | `IssuedDecodes` |
| | `AcceptedExactlyAlways` | `AcceptedExactly` |

Few of these are inductive by themselves. Each module has an inductive invariant,
with one lemma per action (or per part of `Next`) that the action keeps it.

*The verification loops* (`IInv`, theorem `Inductive`). When a loop is at key `i`,
the verdict is not known yet. `IInv` says what is: the keys before `i` that belong
to the loop's set (`Upto`) have not verified; `matched` is set iff the pass met the
kid; the error flag (in the passes) or the log (in by-kid) is set iff one of them
had an internal error; and a token with a kid reaches pass 2 only if no key has that
kid, which is why pass 1 has noted no error then. When `i` passes the end, `Upto` is the whole candidate set
and the verdict follows. `KidStrict`, `ByKidAgrees`, `NoAlgConfusion` and
`FaultIsolation` then follow from the verdict without the loops;
`ImplementsPolicy` maps the step that returns to `Answer`, a call to `Submit`, and
each other step to a stutter.

*Order and queries.* `OrderIrrelevant` follows from the verdict too: a permutation
of the keys maps each candidate set onto the candidate set of the permuted keyset
(`PermutedVerdict`). A lookup by thumbprint takes the first key it finds and is not
among the calls the property is about.
`EachKeyOnce` and `QueriesDisambiguate` need one more loop invariant, `TriesInv`: the
loop has tried the keys of `Upto`, each of them once, and no other (`Once`). When
pass 2 starts, `Once` over the keys of the kid is empty, because there is none.

*The keyset* (`IndInv`, `KeysInv`, `FilterInv`). `StageInv` ties document, cleanup,
pool and result to the position in the parser; `SlotsInv` says that the counted
slots are in the array, whose size is that of the document, and that `nkeys < i`,
which is `SlotInBounds`. It also says that the slots of a keyval keyset not counted
yet are zero: the PEM parser writes some of the fields of a slot and never clears
the others, so that its keys have no secret only because nothing was left there.
`MadeInv` says that no handle exists for an entry not yet reached, and
`OwnInv` that a slot holds the number of an entry passed: together with
`EveryHandleOwned` they make slots and live handles a bijection, so that a new
handle cannot collide with an owned one and a release frees each once. `FilterInv`
is the filter as a loop invariant: there is an ascending map from the counted slots
into the wanted entries passed (`Passed`), each slot agreeing with its entry, and
unless a PEM was lost the count is that of those entries; at the end of the document
`Passed` is all of `Wanted`. `CustodyKept` maps each step to `Exchange` or a
stutter of `Custody`, the destruction of the pool to `Close`.

*The token* (`IInv`). The stages come in one order, so each part says what a stage
has established: `Split` (three segments, total within the limit), `ArmedInv`,
`FieldsInv` and `JsonInv` (a document is live iff the token points at it; this is
`JsonReachable` with what it needs), `OctetsInv` (plain octets exist within one
stage), `SigningInv` and `PassedInv` (the segments behind are well formed, from
which `DecodesExactly` follows at the last stage).

*Issuing* (`IInv`). `StageInv` collects the tests passed, `SigningInv` ties the key
and the signature to the stage. The arithmetic is in lemmas: the length the code
computes for base64url without padding (`Base64Length`), of the header, the
signature and the token, so that the two limits the code tests late are the two of
`Issuable`. The attempt to prove `SignatureLength` found two arms of
`SignatureOctets` that overlapped, which TLA+ leaves undetermined and TLC resolves
by order; they are disjoint now.

*Temporaries* (`IInv`, theorem `TempsInductive`). The argument is about any routine,
not about those of the library: `Disciplined` can be read off the list of calls,
before anything runs. What may be there at a call is what was made and neither given
nor freed (`Out`), what is there for certain is what was tested too (`Sure`). A call
may give away only what is certainly there, to an owner that is, and what fails must
free all that may be there and nothing that was freed; a chain of owners has two links
at most; a success keeps what is left. The interpreter of a disciplined routine then
keeps `PointersInv` (which pointers are set, and in what state their objects are) and
`OwnersInv` (something given away shares the fate of its owner): every object has one
root (`RootOf`, `OneRoot`), so that freeing distinct live roots frees each object once
(`FreedOnce`). That the routines keep the discipline is a table of their calls, one
lemma a routine; the 1.1 RSA builder has the one chain of two links, and the three
`Mistake` routines of `JwxTemps` fail the discipline. The copies of an oct secret
keep it in another form, which is their property: where a call can fail there is at
most one.

*Claims* (`IInv`). A read goes down a pointer an earlier read wrote, so the answers
are right only if the caller can hold nothing but NULL or a pointer to one node
(`PointersInv`).

*The composition* (`EndsInv`). The invariants of the encoder, the parser and the
decoder, each instanced over the variables of the composition, hold together:
every phase is a step of one component and a stutter of the others, and the wire
only writes a string the decoder has not looked at. None of them supposes that
nothing fails. `PhaseInv` says what a phase
finds, `IssuedInv` which token an order has led to. `IssuedDecodes` is then what the
two sets of limits come to: a token of an `Issuable` order is `WellFormed`, segment
by segment (`IssuedSegments`), and `DecodesExactly` and `SigningInv` of the decoder
say what is read in it. `AcceptedExactly` has three parts. Whatever arrives with the
signing input of the token and a signature is the token (`OnlyTheToken`). Every slot
is a usable entry, and where no key was lost every usable entry has a slot: the filter
of `JwxKeyset`, whose ascending map reaches each entry because there are as many slots
(`SlotsAreWanted`). And a slot verifies iff its entry is the public half of the
order's key (`SlotVerifies`), family by family, with the pin, the curve and the
padding of RSA-PSS, and OpenSSL serves it (`ServedVerifies`). A failure could do more
than cost a key: a key without a label is tried only where no key has the token's kid,
so a labelled key lost would admit it. It cannot (`AdmitsByLabel`): a JWKS that loses a
key is no keyset, and a keyval document, which may lose one, labels every key
(`PemsAreLabelled`). The verifier of the composition is the verdict that
`VerdictIsPolicy` proves the two passes to return; it is given once, so the property is
proved of the step that gives it (`VerdictMeans`) and kept by every other
(`VerdictKept`).

Preparing this proof corrected the property. `AcceptedExactly` did not ask for the
document to be a keyset: one usable entry beside a malformed one publishes nothing,
since the document is rejected as a whole. `IsPublicHalf` had taken RSA-PSS keys
out of every JWK, where only RS\* with such a key is affected. Both were beyond the
documents checked then; the run has them now. And the filter says more than it did:
the material in a slot is that of its entry, with its type and curve (`Same`).

Only model-checked are `Answers` and the two `EventuallyReclaimed`: liveness under
fairness is beyond the prover.

## 5. Where code and documentation disagree

| Run | Text | Code |
|---|---|---|
| `doc_compatible` | `jws.c:12-14`: after the keys of the kid, all compatible keys are tried; `jws.c:520-522`: if no key has the kid, "kid-less or differently-labelled keys still get a chance" | the second pass is skipped after a match and passes over other kids (563-573); the README has the code's policy |
| `doc_keyval_rsa` | README, "Verification policy": RSA keys outside the bounds are rejected at parse time | only `nxe_jwx_parse_rsa` tests; keyval PEMs are not tested |
| `doc_thumbprint` | `nxe_jwx_jws.h:137-138`: a thumbprint selects a single key | two entries may share one; the first decides (`jwks.c:1296-1304`) |
| `doc_rs_pkcs1` | `nxe_jwx_jws.h:20`: RS* is PKCS#1 v1.5 | PSS for an id-RSASSA-PSS key from a keyval PEM |
| `doc_malformed` | `nxe_jwx_jws.h:54-61`, README "Public API" (86-88): a malformed ECDSA signature is an internal error, and internal errors are logged | a signature of the wrong length is a rejection like any other (`jws.c:130-132`, `422-424`); nothing is logged |

`InternalErrorReported` is stated with the code's notion of an internal error
(`FailsInside`), which leaves the malformed signature out; `MalformedReported` is the
header's.

Two more, with no run of their own. `nxe_jwx_jwks.h:25-28` says that a document with
an RSA modulus outside the bounds is rejected; the parser skips that key and returns
the others (`jwks.c:566-581`), which is what `KeysetIsFilter` states and
`keyset_faults` checks. `nxe_jwx_decode.h:36-37` says that all buffers are zeroed
when the pool is destroyed. `nxe_jwx_token_cleanup` cleanses the signature only and
says why (`decode.c:63-68`); the decoded header and payload are cleansed before the
decoder returns (`OctetsCleansed`), the signing input never is.

## 6. Not modelled

- The computation of a digest, a signature, base64 content, JSON and PEM syntax:
  their outcomes are inputs (lengths under base64url are computed). An oracle says
  who made a signature; forging one is outside the model, and so is timing.
- `ec_curve_matches` failing inside OpenSSL: it reads as another curve, that is,
  as a key that does not fit.
- An RSA key too small for a PSS signature under its digest, which OpenSSL refuses
  to make, is among the failures of `EvpSign`.
- Pool memory other than keyset, token octets and the copies of oct secrets: copies
  of names, the encoder's buffers, the raw field bytes of a JWK.
- Documents with a name twice in one JSON object: nxe-json decides what they are.
- Use of a keyset after its release, which the header forbids; what it would find is
  slots with `NULL` handles, as `EveryHandleOwned` says (`jwks.c:266`).
- Several keysets and tokens on one pool: they share nothing but the pool's cleanup
  list, which is nginx's, and each is shown to keep `Custody` whatever the pool does.
- `nxe_jwx.h` is macros: its limits are the CONSTANTS of the modules.

## 7. Plan

1. Done: `JwxAlg`, `VerifyPolicy`, `JwxVerify`, `JwxKeyset`, `JwxToken`, `Custody`,
   `JwxIssue`, `JwxRoundTrip`, `JwxTemps`, `JwxClaims`, and their runs.
2. Done: proofs of the safety properties of `JwxVerify`, `JwxKeyset`, `JwxToken`,
   `JwxIssue`, `JwxTemps`, `JwxClaims` and `JwxRoundTrip`, and of the three
   refinements.
3. Done: the composition under failures of each of its components.
4. Left: the composition with the verifier's two passes as steps, where it is one
   step, the verdict that `VerdictIsPolicy` proves the passes to return.
