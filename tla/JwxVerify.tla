----------------------------- MODULE JwxVerify -----------------------------
(***************************************************************************)
(* Key selection and verification in nxe_jwx_jws.c, one loop iteration per *)
(* step: nxe_jwx_jws_verify (kid-strict pass, then the pass over the keys  *)
(* that are still eligible), nxe_jwx_jwks_verify_raw (one key, found by    *)
(* thumbprint) and nxe_jwx_jwks_verify_raw_by_kid (every key of that kid). *)
(* Calls follow one another; each may come with another keyset.            *)
(***************************************************************************)
EXTENDS JwxAlg, Integers, Sequences, FiniteSets

CONSTANTS
  Requests,    \* the calls made: inputs of the three entry points
  MaxCalls     \* bound: how many calls one behaviour makes

(***************************************************************************)
(* A call.  args: "null" if a pointer argument is NULL.  id: the token's    *)
(* kid (jws), the keyid (raw) or the kid (by_kid), Empty when absent or       *)
(* empty.  alg: the token's alg, or the alg_str argument.                  *)
(***************************************************************************)
Request == [op : {"jws", "raw", "by_kid"}, args : {"ok", "null"}, alg : STRING,
            id : STRING, msg : STRING, sig : Signature, keys : Seq(Key)]

ASSUME RequestsAssumption == Requests \subseteq Request
ASSUME MaxCallsAssumption == MaxCalls \in Nat

VARIABLES
  calls,      \* calls made so far
  pc,         \* where the call is; "idle" between two calls
  req,        \* the call under way, or the last one
  i,          \* the loop index, from 1
  matched,    \* kid_matched_any
  interr,     \* any_internal_error
  logged,     \* the call logged an internal error
  tries,      \* how often the call has tried each key (history)
  rc          \* what the call returned, "none" while it runs

vars == <<calls, pc, req, i, matched, interr, logged, tries, rc>>

-----------------------------------------------------------------------------
(* The tests the code makes on a request. *)

has_kid(r) == r.id # Empty

\* "none" and an absent alg are refused before the table is searched.
alg_refused(r) == r.alg \in {Empty, "none"} \/ lookup_alg(r.alg) = NoAlg

\* Pass 1 and by_kid: a labelled key whose kid is the one asked for.
kid_matches(r, j) == r.keys[j].kid # Empty /\ r.keys[j].kid = r.id

\* Mistake: pass 2 runs although pass 1 met the kid.
pass2_always(r, m) == TRUE

\* Pass 2 is skipped once the kid-strict pass met a key of that kid.
pass2_runs(r, m) == ~(has_kid(r) /\ m = 1)

\* Mistake: pass 2 tries keys with another label too.
pass2_any_key(r, j) == TRUE

\* Pass 2: a token with a kid only gets the keys that carry none.
pass2_eligible(r, j) == ~(has_kid(r) /\ r.keys[j].kid # Empty)

\* The index of the first key of that thumbprint, or none.
find_by_thumbprint(r) ==
  LET hit(j) == r.keys[j].thumbprint # Empty /\ r.keys[j].thumbprint = r.id
  IN {j \in DOMAIN r.keys : hit(j) /\ \A h \in 1..(j - 1) : ~hit(h)}

\* Mistake: a key without a kid is taken for any kid.
find_by_kid_eligible(r) ==
  LET hit(j) == r.keys[j].kid \in {Empty, r.id}
  IN {j \in DOMAIN r.keys : hit(j) /\ \A h \in 1..(j - 1) : ~hit(h)}

\* The index of the first key of that kid, or none; an empty kid has none.
find_by_kid(r) ==
  LET hit(j) == r.id # Empty /\ r.keys[j].kid = r.id
  IN {j \in DOMAIN r.keys : hit(j) /\ \A h \in 1..(j - 1) : ~hit(h)}

\* nxe_jwx_jwks_has_kid and _has_thumbprint, asked about the id of a call.
jwks_has_kid(r) == find_by_kid(r) # {}
jwks_has_thumbprint(r) == find_by_thumbprint(r) # {}

\* The algorithm a key is tried under.
effective_alg(r, j) == IF r.op # "jws" /\ r.alg = Empty
                       THEN alg_from_key(r.keys[j])
                       ELSE lookup_alg(r.alg)

Outcome(r, j) ==
  IF effective_alg(r, j) = NoAlg THEN "no"
  ELSE verify_with_key(r.keys[j], effective_alg(r, j), r.msg, r.sig)

-----------------------------------------------------------------------------
(* Returning, and going on to the next key. *)

\* The flag after a key: set by an internal error, else left alone.
Noted(flag, outcome) == IF outcome = "error" THEN 1 ELSE flag

Return(result) ==
  /\ pc' = "idle" /\ rc' = result
  /\ UNCHANGED <<calls, req, i, matched, interr>>

\* Mistake: the internal error is let out to the caller.
DeclineJwsOracle ==
  /\ Return(IF interr = 1 THEN "ERROR" ELSE "DECLINED")
  /\ logged' = interr
  /\ UNCHANGED tries

\* The end of jws_verify: an internal error is logged, never returned.
DeclineJws ==
  /\ Return("DECLINED")
  /\ logged' = interr
  /\ UNCHANGED tries

NextKey == i' = i + 1 /\ UNCHANGED <<calls, pc, req, rc>>

\* A key is tried when a loop or a lookup hands it on: to verify_with_key, or
\* (raw) to verify_raw_with_key, which leaves before it if the key has no alg.
Try(j) == tries' = [tries EXCEPT ![j] = @ + 1]

\* Each call starts with every key untried.
Untried(r) == [j \in DOMAIN r.keys |-> 0]

\* A behaviour opens with a call.
Init ==
  /\ calls = 1 /\ pc = "check" /\ req \in Requests
  /\ i = 1 /\ tries = Untried(req) /\ rc = "none"
  /\ matched = 0 /\ interr = 0 /\ logged = 0

Call ==
  /\ pc = "idle" /\ calls < MaxCalls /\ calls' = calls + 1
  /\ pc' = "check" /\ req' \in Requests /\ i' = 1 /\ tries' = Untried(req')
  /\ matched' = 0 /\ interr' = 0 /\ logged' = 0 /\ rc' = "none"

NullArgument ==
  /\ pc = "check" /\ req.args = "null"
  /\ Return("ERROR") /\ UNCHANGED <<logged, tries>>

\* jws_verify looks at the algorithm first, all three at the signature.
Refuse ==
  /\ pc = "check" /\ req.args = "ok"
  /\ (req.op = "jws" /\ alg_refused(req)) \/ req.sig.len = 0
  /\ Return("DECLINED") /\ UNCHANGED <<logged, tries>>

Accepted == /\ pc = "check" /\ req.args = "ok" /\ req.sig.len > 0
            /\ req.op = "jws" => ~alg_refused(req)

StartJws ==
  /\ Accepted /\ req.op = "jws"
  /\ pc' = IF has_kid(req) THEN "pass1" ELSE "pass2"
  /\ UNCHANGED <<calls, req, i, matched, interr, logged, tries, rc>>

StartByKid ==
  /\ Accepted /\ req.op = "by_kid"
  /\ pc' = "bykid"
  /\ UNCHANGED <<calls, req, i, matched, interr, logged, tries, rc>>

\* verify_raw tries the one key found, or none.
RawUnknownKey ==
  /\ Accepted /\ req.op = "raw" /\ find_by_thumbprint(req) = {}
  /\ Return("DECLINED") /\ UNCHANGED <<logged, tries>>

RawTry ==
  /\ Accepted /\ req.op = "raw"
  /\ \E j \in find_by_thumbprint(req) :
       /\ Return(IF Outcome(req, j) = "yes" THEN "OK" ELSE "DECLINED")
       /\ logged' = Noted(logged, Outcome(req, j))
       /\ Try(j)

-----------------------------------------------------------------------------
(* jws_verify, pass 1: kid-strict. *)

\* Mistake: "continue" without the increment.
Pass1SkipStuck ==
  /\ pc = "pass1" /\ i <= Len(req.keys) /\ ~kid_matches(req, i)
  /\ UNCHANGED vars

Pass1Skip ==
  /\ pc = "pass1" /\ i <= Len(req.keys) /\ ~kid_matches(req, i)
  /\ NextKey /\ UNCHANGED <<matched, interr, logged, tries>>

\* Mistake: the first key of that kid decides.
Pass1TryFirst ==
  /\ pc = "pass1" /\ i <= Len(req.keys) /\ kid_matches(req, i)
  /\ Try(i)
  /\ Return(IF Outcome(req, i) = "yes" THEN "OK" ELSE "DECLINED")
  /\ logged' = Noted(logged, Outcome(req, i))

\* Mistake: an internal error in pass 1 is not kept for the log.
Pass1TryForgets ==
  /\ pc = "pass1" /\ i <= Len(req.keys) /\ kid_matches(req, i)
  /\ Try(i)
  /\ \/ Outcome(req, i) = "yes" /\ Return("OK") /\ UNCHANGED logged
     \/ /\ Outcome(req, i) # "yes" /\ NextKey
        /\ matched' = 1
        /\ UNCHANGED <<interr, logged>>

Pass1Try ==
  /\ pc = "pass1" /\ i <= Len(req.keys) /\ kid_matches(req, i)
  /\ Try(i)
  /\ \/ Outcome(req, i) = "yes" /\ Return("OK") /\ UNCHANGED logged
     \/ /\ Outcome(req, i) # "yes" /\ NextKey
        /\ matched' = 1
        /\ interr' = Noted(interr, Outcome(req, i))
        /\ UNCHANGED logged

\* Mistake: pass 2 starts one slot before the array.
Pass1DoneFromZero ==
  /\ pc = "pass1" /\ i > Len(req.keys)
  /\ \/ ~pass2_runs(req, matched) /\ DeclineJws
     \/ /\ pass2_runs(req, matched)
        /\ pc' = "pass2" /\ i' = 0
        /\ UNCHANGED <<calls, req, matched, interr, logged, tries, rc>>

Pass1Done ==
  /\ pc = "pass1" /\ i > Len(req.keys)
  /\ \/ ~pass2_runs(req, matched) /\ DeclineJws
     \/ /\ pass2_runs(req, matched)
        /\ pc' = "pass2" /\ i' = 1
        /\ UNCHANGED <<calls, req, matched, interr, logged, tries, rc>>

(* jws_verify, pass 2: the keys that are still eligible. *)

Pass2Skip ==
  /\ pc = "pass2" /\ i <= Len(req.keys) /\ ~pass2_eligible(req, i)
  /\ NextKey /\ UNCHANGED <<matched, interr, logged, tries>>

\* Mistake: a key that met an internal error is tried again.
Pass2TryRetries ==
  /\ pc = "pass2" /\ i <= Len(req.keys) /\ pass2_eligible(req, i)
  /\ Try(i)
  /\ \/ Outcome(req, i) = "yes" /\ Return("OK") /\ UNCHANGED logged
     \/ /\ Outcome(req, i) # "yes"
        /\ i' = IF Outcome(req, i) = "error" THEN i ELSE i + 1
        /\ interr' = Noted(interr, Outcome(req, i))
        /\ UNCHANGED <<calls, pc, req, rc, matched, logged>>

Pass2Try ==
  /\ pc = "pass2" /\ i <= Len(req.keys) /\ pass2_eligible(req, i)
  /\ Try(i)
  /\ \/ Outcome(req, i) = "yes" /\ Return("OK") /\ UNCHANGED logged
     \/ /\ Outcome(req, i) # "yes" /\ NextKey
        /\ interr' = Noted(interr, Outcome(req, i))
        /\ UNCHANGED <<matched, logged>>

Pass2Done == pc = "pass2" /\ i > Len(req.keys) /\ DeclineJws

(* verify_raw_by_kid: each key of that kid, logging as it goes. *)

ByKidSkip ==
  /\ pc = "bykid" /\ i <= Len(req.keys) /\ ~kid_matches(req, i)
  /\ NextKey /\ UNCHANGED <<matched, interr, logged, tries>>

\* Mistake: verify_raw_by_kid stops at the first key of that kid.
ByKidTryFirst ==
  /\ pc = "bykid" /\ i <= Len(req.keys) /\ kid_matches(req, i)
  /\ Try(i)
  /\ logged' = Noted(logged, Outcome(req, i))
  /\ Return(IF Outcome(req, i) = "yes" THEN "OK" ELSE "DECLINED")

ByKidTry ==
  /\ pc = "bykid" /\ i <= Len(req.keys) /\ kid_matches(req, i)
  /\ Try(i)
  /\ logged' = Noted(logged, Outcome(req, i))
  /\ \/ Outcome(req, i) = "yes" /\ Return("OK")
     \/ Outcome(req, i) # "yes" /\ NextKey /\ UNCHANGED <<matched, interr>>

ByKidDone ==
  /\ pc = "bykid" /\ i > Len(req.keys)
  /\ Return("DECLINED") /\ UNCHANGED <<logged, tries>>

-----------------------------------------------------------------------------
Check == NullArgument \/ Refuse \/ StartJws \/ StartByKid
         \/ RawUnknownKey \/ RawTry

Pass1 == Pass1Skip \/ Pass1Try \/ Pass1Done
Pass2 == Pass2Skip \/ Pass2Try \/ Pass2Done
ByKid == ByKidSkip \/ ByKidTry \/ ByKidDone

Run == Check \/ Pass1 \/ Pass2 \/ ByKid

Next == Call \/ Run

Spec == Init /\ [][Next]_vars

\* The functions are straight code: once called, each keeps running.
FairSpec == Spec /\ WF_vars(Run)

-----------------------------------------------------------------------------
(* Properties. *)

\* Every variable keeps its type through the passes of the three entry points.
TypeOK ==
  /\ calls \in Nat /\ req \in Requests /\ i \in Nat \ {0}
  /\ tries \in [DOMAIN req.keys -> Nat]
  /\ pc \in {"idle", "check", "pass1", "pass2", "bykid"}
  /\ matched \in {0, 1} /\ interr \in {0, 1} /\ logged \in {0, 1}
  /\ rc \in {"none", "OK", "DECLINED", "ERROR"}

Returned == pc = "idle"

(***************************************************************************)
(* The policy, with no loop and no flag: which keys a request may be       *)
(* decided by, and the result that follows.                                *)
(***************************************************************************)
Labelled(r) == {j \in DOMAIN r.keys : r.id # Empty /\ r.keys[j].kid = r.id}
Unlabelled(r) == {j \in DOMAIN r.keys : r.keys[j].kid = Empty}
Named(r) == {j \in DOMAIN r.keys : r.id # Empty /\ r.keys[j].thumbprint = r.id}

Candidates(r) ==
  CASE r.op = "raw" -> {j \in Named(r) : \A h \in Named(r) : j <= h}
    [] r.op = "by_kid" -> Labelled(r)
    [] r.op = "jws" -> IF r.id = Empty THEN DOMAIN r.keys
                       ELSE IF Labelled(r) # {} THEN Labelled(r)
                       ELSE Unlabelled(r)

Admissible(r) == /\ r.sig.len # 0
                 /\ r.op = "jws" => r.alg \in {a.name : a \in Algs} \ {"none"}

Verifies(r, j) == Outcome(r, j) = "yes"

Verdict(r) ==
  IF r.args = "null" THEN "ERROR"
  ELSE IF Admissible(r) /\ \E j \in Candidates(r) : Verifies(r, j) THEN "OK"
  ELSE "DECLINED"

Policy == INSTANCE VerifyPolicy WITH busy <- pc # "idle"

\* Each entry point implements the policy: one call, one answer, and the
\* answer is the policy's, over any sequence of calls.
PolicySpec == Policy!Spec

\* What the two passes and the two raw lookups return is the policy's verdict:
\* the flags, the order of the passes and the early returns add up to it.
VerdictCorrect == Returned => rc = Verdict(req)

\* Key confusion (nxe_jwx_jws.c:524-561): a token that names a kid is only
\* ever accepted by a key of that kid or, when the keyset has no such key, by
\* a key without one; never by a key with another label.
NoKeyConfusion ==
  (Returned /\ rc = "OK" /\ req.op = "jws" /\ req.id # Empty) =>
    \E j \in DOMAIN req.keys :
      /\ Verifies(req, j)
      /\ \/ req.keys[j].kid = req.id
         \/ /\ req.keys[j].kid = Empty
            /\ \A h \in DOMAIN req.keys : req.keys[h].kid # req.id

\* nxe_jwx_jws.c:715-721: verify_raw_by_kid mirrors the kid-strict pass.  For a
\* kid the keyset has and an alg the library has, it returns what jws_verify
\* returns for a token with the same kid, alg, input and signature.
ByKidMirrorsPass1 ==
  (Returned /\ req.op = "by_kid" /\ Labelled(req) # {} /\ ~alg_refused(req)) =>
    rc = Verdict([req EXCEPT !.op = "jws"])

Permuted(s, p) == [j \in DOMAIN s |-> s[p[j]]]
Permutations1(s) == {p \in [DOMAIN s -> DOMAIN s] :
                       \A a, b \in DOMAIN s : p[a] = p[b] => a = b}

\* The order of the keys in the document does not decide a jws or by_kid call
\* (duplicate kids, rotation overlap): any other order has the same result.
OrderIrrelevant ==
  (Returned /\ req.op # "raw") =>
    \A p \in Permutations1(req.keys) :
      rc = Verdict([req EXCEPT !.keys = Permuted(req.keys, p)])

Served(s) == [j \in DOMAIN s |-> [s[j] EXCEPT !.ossl = "ok"]]

\* A failure of OpenSSL on one key (nxe_jwx_jws.c:541, 579) never turns a
\* refusal into an acceptance, never surfaces as another result, and takes
\* away an acceptance only when it hit every key that would have given it.
FaultsOnlyDecline ==
  Returned =>
    LET served == [req EXCEPT !.keys = Served(req.keys)] IN
    /\ rc = "OK" => Verdict(served) = "OK"
    /\ rc = "ERROR" <=> req.args = "null"
    /\ (rc = "DECLINED" /\ Verdict(served) = "OK") =>
         \A j \in Candidates(req) :
           Verifies(served, j) => req.keys[j].ossl # "ok"

\* The R || S form of an ECDSA signature has another length than the algorithm's.
Malformed(r, j) ==
  /\ effective_alg(r, j) # NoAlg /\ key_compatible(r.keys[j], effective_alg(r, j))
  /\ ~raw_length_ok(effective_alg(r, j), r.sig)

\* Trying key j fails inside the library: the key fits the algorithm, the
\* signature has a form that can be verified, and OpenSSL does not get so far.
FailsInside(r, j) ==
  /\ effective_alg(r, j) # NoAlg /\ key_compatible(r.keys[j], effective_alg(r, j))
  /\ ~Malformed(r, j) /\ r.keys[j].ossl = "setup"

\* A refusal is logged exactly when some key it rests on failed inside
\* (nxe_jwx_jws.c:585-593, 664-667): the caller cannot tell, the operator can.
\* A malformed ECDSA signature is a rejection in the code (nxe_jwx_jws.c:422-424)
\* and leaves no line, unlike what the header says (MalformedReported, below).
InternalErrorReported ==
  (Returned /\ rc = "DECLINED") =>
    (logged = 1 <=> /\ Admissible(req)
                    /\ \E j \in Candidates(req) : FailsInside(req, j))

\* No key is tried twice in one call, although jws_verify walks the keyset
\* twice (nxe_jwx_jws.c:524-583) and two keys may share a kid or a thumbprint.
EachKeyOnce == \A j \in DOMAIN req.keys : tries[j] <= 1

Tried == {j \in DOMAIN req.keys : tries[j] > 0}

\* nxe_jwx_jwks.h:99-108, 135-143: the queries tell a caller which refusal it
\* got.  After a refusal under a kid the keyset has, the keys tried are those of
\* that kid; under one it has not, those without a kid (none by kid); a keyid
\* is unknown exactly if no key was tried, and no key of another one ever is.
QueriesDisambiguate ==
  (Returned /\ rc = "DECLINED" /\ Admissible(req)) =>
    CASE req.op = "raw" -> /\ jwks_has_thumbprint(req) <=> Tried # {}
                           /\ Tried \subseteq Named(req)
      [] req.op = "by_kid" -> /\ jwks_has_kid(req) <=> Tried # {}
                              /\ Tried = Labelled(req)
      [] req.op = "jws" /\ req.id # Empty ->
           Tried = IF jwks_has_kid(req) THEN Labelled(req) ELSE Unlabelled(req)
      [] OTHER -> Tried = DOMAIN req.keys

(***************************************************************************)
(* RFC 7518 / 8037 as a reference for the table: the key type, the curve   *)
(* and the scheme each algorithm name stands for.                          *)
(***************************************************************************)
KtyOf(name) == IF name \in {"RS256", "RS384", "RS512",
                             "PS256", "PS384", "PS512"} THEN "RSA"
               ELSE IF name \in {"ES256", "ES384", "ES512", "ES256K"} THEN "EC"
               ELSE IF name = "EdDSA" THEN "OKP"
               ELSE IF name \in {"HS256", "HS384", "HS512"} THEN "oct"
               ELSE "unknown"
GroupOf(name) == CASE name = "ES256" -> "prime256v1"
                   [] name = "ES384" -> "secp384r1"
                   [] name = "ES512" -> "secp521r1"
                   [] name = "ES256K" -> "secp256k1"
                   [] OTHER -> Empty

FamilyOf(name) == CASE name \in {"RS256", "RS384", "RS512"} -> "RSA"
                    [] name \in {"PS256", "PS384", "PS512"} -> "RSA_PSS"
                    [] KtyOf(name) = "EC" -> "ECDSA"
                    [] KtyOf(name) = "OKP" -> "EDDSA"
                    [] OTHER -> "HMAC"

\* Algorithm confusion (nxe_jwx_jws.c:333-390): an accepted signature was made
\* over that very input with a key of the keyset, whose type and curve are
\* those of the algorithm asked for and whose own "alg" agrees with it, under
\* the scheme the algorithm stands for.  The exception is a key that OpenSSL
\* holds as RSA-PSS (RsIsPkcs1, below).
AlgRespected ==
  (Returned /\ rc = "OK") =>
    \E j \in DOMAIN req.keys, a \in Algs :
      LET k == req.keys[j] IN
      /\ req.alg # Empty => a.name = req.alg
      /\ k.kty = KtyOf(a.name)
      /\ k.alg # Empty => k.alg = a.name
      /\ k.kty = "EC" => k.mat.group = GroupOf(a.name)
      /\ req.sig.by = k.mat.id /\ req.sig.msg = req.msg
      /\ req.sig.digest = a.digest
      /\ \/ req.sig.family = FamilyOf(a.name)
         \/ /\ FamilyOf(a.name) = "RSA" /\ k.mat.base = "RSA-PSS"
            /\ req.sig.family = "RSA_PSS"

\* Every call returns: the loops of the passes are bounded by the keyset.
Answers == (pc # "idle") ~> (pc = "idle")

-----------------------------------------------------------------------------
(* What comments say, and the code does not do. *)

\* nxe_jwx_jws.c:11-15, the header's "Key selection (verify)": after the keys
\* with a matching kid, all keys whose kty/alg are compatible are tried; so a
\* token is declined only when no compatible key verifies it.
CompatibleKeysTried ==
  (Returned /\ rc = "DECLINED" /\ req.op = "jws" /\ Admissible(req)) =>
    \A j \in DOMAIN req.keys : ~Verifies(req, j)

\* nxe_jwx_jws.h, nxe_jwx_jwks_verify_raw: thumbprint uniqueness selects a
\* single key; so no other slot of that thumbprint could have verified.
ThumbprintNamesOneKey ==
  (Returned /\ rc = "DECLINED" /\ req.op = "raw" /\ Admissible(req)) =>
    \A j \in Named(req) : ~Verifies(req, j)

\* nxe_jwx_jws.h:19-20: RS256 / RS384 / RS512 are RSASSA-PKCS1-v1_5.
RsIsPkcs1 ==
  (Returned /\ rc = "OK" /\ req.alg \in {"RS256", "RS384", "RS512"}) =>
    req.sig.family = "RSA"

\* nxe_jwx_jws.h:54-61: a malformed ECDSA signature met during DER conversion is
\* an internal error, and internal errors are logged; so is a refusal of one.
MalformedReported ==
  (Returned /\ rc = "DECLINED" /\ req.op = "jws" /\ Admissible(req)) =>
    ((\E j \in Candidates(req) : Malformed(req, j)) => logged = 1)

=============================================================================
