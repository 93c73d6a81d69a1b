----------------------------- MODULE JwxKeyset -----------------------------
(***************************************************************************)
(* The life of one keyset (nxe_jwx_jwks.c): nxe_jwx_jwks_parse and         *)
(* nxe_jwx_jwks_parse_keyval build it, one document entry per step, with   *)
(* an allocation or OpenSSL failure possible wherever the code handles     *)
(* one; nxe_jwx_jwks_free and the destruction of the pool release it.      *)
(*                                                                         *)
(* What is followed is ownership: the JSON document, the EVP_PKEY handles, *)
(* the HMAC secrets and the pool cleanup.  Each entry makes at most one    *)
(* handle or secret, named by the index of the entry; 0 is NULL.           *)
(***************************************************************************)
EXTENDS JwxAlg, Sequences, FiniteSets

CONSTANTS
  Docs,          \* the documents parsed
  MaxKeys,       \* NXE_JWX_MAX_JWKS_KEYS
  MinRsaBits,    \* NXE_JWX_MIN_RSA_BITS
  MaxRsaBits,    \* NXE_JWX_MAX_RSA_BITS
  Faults         \* which failures happen: a subset of FaultKinds

Absent == "absent"    \* a field that is missing or not a JSON string

(***************************************************************************)
(* A document: form says which parser is called; shape, how far it is what *)
(* that parser wants (bad_size covers a NULL argument).  A JWK has its     *)
(* string fields as they are, and for its key fields (n e, x y, x, k) the  *)
(* first thing wrong with them, the length of the coordinates, the bits of *)
(* n and the identity of the key.  A keyval entry has its name, what the   *)
(* value is, and the loaded PEM.                                           *)
(***************************************************************************)
Jwk == [node : {"object", "other"}, kty : STRING, use : STRING, kid : STRING,
        alg : STRING, crv : STRING, id : STRING, bits : Nat, len : Nat,
        fields : {"ok", "missing", "malformed", "unbuildable"}]
Pem == [node : {"string", "other"}, kid : STRING \ {Absent}, base : STRING,
        group : STRING, id : STRING, bits : Nat]
Doc == [form : {"jwks"}, entries : Seq(Jwk),
        shape : {"ok", "bad_size", "not_json", "not_object", "no_keys"}]
       \cup
       [form : {"keyval"}, entries : Seq(Pem),
        shape : {"ok", "bad_size", "not_json", "not_object"}]

FaultKinds == {"alloc", "dup", "build", "tp"}

ASSUME KeysetAssumption ==
  /\ Docs \subseteq Doc
  /\ MaxKeys \in Nat \ {0} /\ MinRsaBits \in Nat /\ MaxRsaBits \in Nat
  /\ Faults \subseteq FaultKinds

VARIABLES
  pc,       \* "start", "entry", "done"
  doc,      \* the document under way
  i,        \* the entry looked at next
  slots,    \* jwks->keys
  nkeys,    \* jwks->nkeys
  root,     \* the parsed JSON: "none", "live", "freed", "double"
  pkeys,    \* state of each EVP_PKEY: "none", "live", "freed", "double"
  secrets,  \* state of each HMAC secret: "none", "live", "cleansed"
  cln,      \* the pool cleanup: "none", "armed", "disarmed"
  pool,     \* "live", "destroyed"
  result,   \* what the parser returned: "none", "NULL", "keyset", "freed"
  faulty    \* failures that happened (history)

vars == <<pc, doc, i, slots, nkeys, root, pkeys, secrets, cln, pool,
          result, faulty>>
built == <<slots, nkeys, pkeys, secrets>>

-----------------------------------------------------------------------------
(* Tables. *)

EcCurves == {[crv |-> "P-256", group |-> "prime256v1", len |-> 32],
             [crv |-> "P-384", group |-> "secp384r1", len |-> 48],
             [crv |-> "P-521", group |-> "secp521r1", len |-> 66],
             [crv |-> "secp256k1", group |-> "secp256k1", len |-> 32]}
OkpCurves == {[crv |-> "Ed25519", base |-> "ED25519", len |-> 32],
              [crv |-> "Ed448", base |-> "ED448", len |-> 57]}

lookup_ec_curve(crv) == {c \in EcCurves : c.crv = crv}
lookup_okp_curve(crv) == {c \in OkpCurves : c.crv = crv}
ec_curve_from_pkey(group) == {c \in EcCurves : c.group = group}
okp_curve_from_pkey(base) == {c \in OkpCurves : c.base = base}

kty_from_pkey(base) ==
  CASE base \in {"RSA", "RSA-PSS"} -> "RSA"
    [] base = "EC" -> "EC"
    [] base \in {"ED25519", "ED448"} -> "OKP"
    [] OTHER -> "unknown"

-----------------------------------------------------------------------------
(* Slots.  A string is its value and where its bytes are. *)

Str(v, m) == IF v \in {Absent, Empty} THEN [v |-> Empty, m |-> "null"]
             ELSE [v |-> v, m |-> m]
NoMat == [base |-> Empty, group |-> Empty, id |-> Empty]
NoThumbprint == [kty |-> Empty, crv |-> Empty, id |-> Empty]
ZeroSlot == [kty |-> "unknown", kid |-> Str(Empty, "null"),
             alg |-> Str(Empty, "null"), crv |-> Str(Empty, "null"),
             thumbprint |-> NoThumbprint, mat |-> NoMat, pkey |-> 0,
             secret |-> 0]

PutSlot(s) == slots' = [slots EXCEPT ![nkeys + 1] = s]

\* The "crv" member of the RFC 7638 input, from k->crv.
thumbprint_crv(s) == IF s.kty \in {"EC", "OKP"} THEN s.crv.v ELSE Empty

\* The members of the input, whose digest stands for them: k->kty, k->crv and
\* the coordinates read back from the handle, or the secret.
jwk_thumbprint(s) ==
  [kty |-> s.kty, crv |-> thumbprint_crv(s), id |-> s.mat.id]

\* The slot with its thumbprint, or without if f makes the computation fail:
\* that is logged and the key is kept.
Thumbprinted(s, f) ==
  [s EXCEPT !.thumbprint = IF f = {} THEN jwk_thumbprint(s) ELSE NoThumbprint]

-----------------------------------------------------------------------------
(* parse_one_key and the parse_* functions: what becomes of one JWK. *)

\* Mistake: a modulus of exactly the smallest or largest size is refused.
bits_outside_strict(bits) == bits <= MinRsaBits \/ bits >= MaxRsaBits

bits_outside(bits) == bits < MinRsaBits \/ bits > MaxRsaBits

\* kty and use first, then an explicit empty kid.
skipped_early(e) == \/ e.kty = Absent
                    \/ e.use = "enc"
                    \/ e.kid = Empty

supported(e) ==
  \/ e.kty = "RSA"
  \/ e.kty = "EC" /\ lookup_ec_curve(e.crv) # {}
  \/ e.kty = "OKP" /\ lookup_okp_curve(e.crv) # {}
  \/ e.kty = "oct" /\ HaveHmac

\* The fixed length of x (and y) of the curve.
length_ok(e) ==
  \A c \in IF e.kty = "EC" THEN lookup_ec_curve(e.crv)
           ELSE IF e.kty = "OKP" THEN lookup_okp_curve(e.crv) ELSE {} :
    e.len = c.len

\* The result of parse_rsa / _ec / _okp / _oct when nothing runs out.
parse_material(e) ==
  IF ~supported(e) \/ e.fields = "missing" THEN "DECLINED"
  ELSE IF e.fields = "malformed" THEN "ERROR"
  ELSE IF ~length_ok(e) \/ (e.kty = "RSA" /\ bits_outside(e.bits)) THEN "DECLINED"
  ELSE IF e.fields = "unbuildable" THEN "ERROR"
  ELSE "OK"

\* The handle build_*_key makes, or the secret of an oct key.
built_material(e) ==
  CASE e.kty = "RSA" -> [base |-> "RSA", group |-> Empty, id |-> e.id]
    [] e.kty = "EC" ->
         [base |-> "EC", id |-> e.id,
          group |-> (CHOOSE c \in EcCurves : c.crv = e.crv).group]
    [] e.kty = "OKP" ->
         [base |-> (CHOOSE c \in OkpCurves : c.crv = e.crv).base,
          group |-> Empty, id |-> e.id]
    [] OTHER -> [base |-> "oct", group |-> Empty, id |-> e.id]

\* The slot after the metadata: views into the JSON, then copies of them.
JwkSlot(e, m) == [ZeroSlot EXCEPT !.kid = Str(e.kid, m), !.alg = Str(e.alg, m),
                                  !.crv = Str(e.crv, m)]

\* Mistake: the views into the JSON stay in the slot.
FilledSlotViews(e, n) ==
  [JwkSlot(e, "json") EXCEPT !.kty = e.kty, !.mat = built_material(e),
                             !.pkey = IF e.kty = "oct" THEN 0 ELSE n,
                             !.secret = IF e.kty = "oct" THEN n ELSE 0]

FilledSlot(e, n) ==
  [JwkSlot(e, "pool") EXCEPT !.kty = e.kty, !.mat = built_material(e),
                             !.pkey = IF e.kty = "oct" THEN 0 ELSE n,
                             !.secret = IF e.kty = "oct" THEN n ELSE 0]

-----------------------------------------------------------------------------
(* Ends of the parsers.  A parser returns once; it frees the JSON first. *)

json_free(r) == IF r = "live" THEN "freed" ELSE "double"

Fail(fault) ==
  /\ pc' = "done" /\ result' = "NULL" /\ root' = json_free(root)
  /\ faulty' = faulty \cup fault
  /\ UNCHANGED <<doc, i, nkeys, secrets, cln, pool>>

\* Mistake: "continue" after an increment of its own.
NextEntryTwice == i' = i + 2 /\ UNCHANGED <<pc, doc, root, cln, pool, result>>

NextEntry == i' = i + 1 /\ UNCHANGED <<pc, doc, root, cln, pool, result>>

Init ==
  /\ pc = "start" /\ doc \in Docs /\ i = 1 /\ result = "none"
  /\ slots = <<>> /\ nkeys = 0 /\ root = "none"
  /\ pkeys = [n \in DOMAIN doc.entries |-> "none"]
  /\ secrets = [n \in DOMAIN doc.entries |-> "none"]
  /\ cln = "none" /\ pool = "live" /\ faulty = {}

\* Size, JSON, root type, "keys" array; nothing is allocated yet.
RejectShape ==
  /\ pc = "start" /\ doc.shape # "ok"
  /\ pc' = "done" /\ result' = "NULL"
  /\ root' = IF doc.shape \in {"bad_size", "not_json"} THEN "none" ELSE "freed"
  /\ UNCHANGED <<doc, i, built, cln, pool, faulty>>

count_refused(d) == \/ Len(d.entries) > MaxKeys
                    \/ d.form = "keyval" /\ d.entries = <<>>

RejectCount ==
  /\ pc = "start" /\ doc.shape = "ok" /\ count_refused(doc)
  /\ pc' = "done" /\ result' = "NULL" /\ root' = "freed"
  /\ UNCHANGED <<doc, i, built, cln, pool, faulty>>

\* Mistake: one slot too few.
CapacityShort(d) == IF Len(d.entries) <= 1 THEN 1 ELSE Len(d.entries) - 1

\* The array has a slot per entry of the document, one if there is none.
Capacity(d) == IF d.entries = <<>> THEN 1 ELSE Len(d.entries)

\* Mistake: the keyset is allocated and no pool cleanup is registered.
jwks_alloc_bare ==
  /\ pc = "start" /\ doc.shape = "ok" /\ ~count_refused(doc)
  /\ pc' = "entry" /\ root' = "live"
  /\ slots' = [n \in 1..Capacity(doc) |-> ZeroSlot]
  /\ UNCHANGED <<doc, i, nkeys, pkeys, secrets, cln, pool, result,
                 faulty>>

jwks_alloc ==
  /\ pc = "start" /\ doc.shape = "ok" /\ ~count_refused(doc)
  /\ \/ /\ pc' = "entry" /\ root' = "live" /\ cln' = "armed"
        /\ slots' = [n \in 1..Capacity(doc) |-> ZeroSlot]
        /\ UNCHANGED <<result, faulty>>
     \/ /\ "alloc" \in Faults /\ faulty' = faulty \cup {"alloc"}
        /\ pc' = "done" /\ result' = "NULL" /\ root' = "freed"
        /\ UNCHANGED <<cln, slots>>
  /\ UNCHANGED <<doc, i, nkeys, pkeys, secrets, pool>>

-----------------------------------------------------------------------------
(* nxe_jwx_jwks_parse, one element of "keys". *)

JwkHere == IF pc = "entry" /\ doc.form = "jwks" /\ i <= Len(doc.entries)
           THEN {doc.entries[i]} ELSE {}

\* Not an object: the slot is not even cleared.
JwkNotObject ==
  \E e \in JwkHere :
    /\ e.node # "object"
    /\ NextEntry /\ UNCHANGED <<built, faulty>>

JwkSkipEarly ==
  \E e \in JwkHere :
    /\ e.node = "object" /\ skipped_early(e)
    /\ PutSlot(ZeroSlot)
    /\ NextEntry /\ UNCHANGED <<nkeys, pkeys, secrets, faulty>>

\* A copy of kid, alg or crv fails: the slot still has views.
JwkDupFails ==
  \E e \in JwkHere :
    /\ e.node = "object" /\ ~skipped_early(e) /\ "dup" \in Faults
    /\ PutSlot(JwkSlot(e, "json"))
    /\ Fail({"dup"}) /\ UNCHANGED pkeys

\* Mistake: a key that was declined is counted.
JwkDeclinedCounted ==
  \E e \in JwkHere :
    /\ e.node = "object" /\ ~skipped_early(e)
    /\ parse_material(e) = "DECLINED"
    /\ PutSlot(JwkSlot(e, "pool")) /\ nkeys' = nkeys + 1
    /\ NextEntry /\ UNCHANGED <<pkeys, secrets, faulty>>

JwkDeclined ==
  \E e \in JwkHere :
    /\ e.node = "object" /\ ~skipped_early(e)
    /\ parse_material(e) = "DECLINED"
    /\ PutSlot(JwkSlot(e, "pool"))
    /\ NextEntry /\ UNCHANGED <<nkeys, pkeys, secrets, faulty>>

\* Mistake: a hard error skips the key like an unsupported one.
JwkErrorSkips ==
  \E e \in JwkHere, f \in SUBSET (Faults \cap {"build"}) :
    /\ e.node = "object" /\ ~skipped_early(e)
    /\ \/ parse_material(e) = "ERROR" /\ f = {}
       \/ supported(e) /\ f # {}
    /\ PutSlot(JwkSlot(e, "pool")) /\ faulty' = faulty \cup f
    /\ NextEntry /\ UNCHANGED <<nkeys, pkeys, secrets>>

\* Bad base64, a point off the curve, or memory or OpenSSL failing on the way
\* (even to what would have been declined): the whole document is rejected,
\* the keys before it stay with the armed cleanup.
JwkError ==
  \E e \in JwkHere, f \in SUBSET (Faults \cap {"build"}) :
    /\ e.node = "object" /\ ~skipped_early(e)
    /\ \/ parse_material(e) = "ERROR" /\ f = {}
       \/ supported(e) /\ f # {}
    /\ PutSlot(JwkSlot(e, "pool"))
    /\ Fail(f) /\ UNCHANGED pkeys

JwkAccepted ==
  \E e \in JwkHere, f \in SUBSET (Faults \cap {"tp"}) :
    /\ e.node = "object" /\ ~skipped_early(e)
    /\ parse_material(e) = "OK"
    /\ PutSlot(Thumbprinted(FilledSlot(e, i), f))
    /\ faulty' = faulty \cup f
    /\ nkeys' = nkeys + 1
    /\ pkeys' = [pkeys EXCEPT ![i] = IF e.kty = "oct" THEN @ ELSE "live"]
    /\ secrets' = [secrets EXCEPT ![i] = IF e.kty = "oct" THEN "live" ELSE @]
    /\ NextEntry

-----------------------------------------------------------------------------
(* nxe_jwx_jwks_parse_keyval, one member of the object. *)

PemHere == IF pc = "entry" /\ doc.form = "keyval" /\ i <= Len(doc.entries)
           THEN {doc.entries[i]} ELSE {}

loads(e) == e.kid # Empty /\ e.node = "string" /\ e.base # "bad"

\* Mistake: "crv" is the name OpenSSL has for the group.
curves_of_group(e) ==
  IF e.base = "EC" THEN {[crv |-> c.group] : c \in ec_curve_from_pkey(e.group)}
  ELSE okp_curve_from_pkey(e.base)

\* The "crv" of the loaded key, in the table's own bytes.
curves_of(e) == IF e.base = "EC" THEN ec_curve_from_pkey(e.group)
                ELSE okp_curve_from_pkey(e.base)

pem_supported(e) == /\ kty_from_pkey(e.base) # "unknown"
                    /\ kty_from_pkey(e.base) \in {"EC", "OKP"} => curves_of(e) # {}

\* The slot of a keyval entry: it is written field by field, never cleared.
PemSlot(old, e, m, n) ==
  LET kty == kty_from_pkey(e.base) IN
  [old EXCEPT
     !.kty = kty, !.kid = Str(e.kid, m), !.pkey = n,
     !.crv = IF kty \in {"EC", "OKP"}
             THEN Str((CHOOSE c \in curves_of(e) : TRUE).crv, "static") ELSE @,
     !.mat = [base |-> e.base, group |-> e.group, id |-> e.id]]

\* No kid, no string, no PEM, or no memory for the BIO.
PemSkipped ==
  \E e \in PemHere, f \in SUBSET (Faults \cap {"build"}) :
    /\ loads(e) <=> f # {}
    /\ faulty' = faulty \cup f
    /\ NextEntry /\ UNCHANGED built

\* Mistake: the loaded key is dropped without EVP_PKEY_free.
PemUnsupportedLeaks ==
  \E e \in PemHere :
    /\ loads(e) /\ ~pem_supported(e)
    /\ pkeys' = [pkeys EXCEPT ![i] = "live"]
    /\ NextEntry /\ UNCHANGED <<slots, nkeys, secrets, faulty>>

\* A key of a type or curve the library does not use is freed at once.
PemUnsupported ==
  \E e \in PemHere :
    /\ loads(e) /\ ~pem_supported(e)
    /\ pkeys' = [pkeys EXCEPT ![i] = "freed"]
    /\ NextEntry /\ UNCHANGED <<slots, nkeys, secrets, faulty>>

PemDupFails ==
  \E e \in PemHere :
    /\ loads(e) /\ pem_supported(e) /\ "dup" \in Faults
    /\ PutSlot(PemSlot(slots[nkeys + 1], e, "json", 0))
    /\ pkeys' = [pkeys EXCEPT ![i] = "freed"]
    /\ Fail({"dup"})

PemAccepted ==
  \E e \in PemHere, f \in SUBSET (Faults \cap {"tp"}) :
    /\ loads(e) /\ pem_supported(e)
    /\ PutSlot(Thumbprinted(PemSlot(slots[nkeys + 1], e, "pool", i), f))
    /\ faulty' = faulty \cup f
    /\ nkeys' = nkeys + 1
    /\ pkeys' = [pkeys EXCEPT ![i] = "live"]
    /\ NextEntry /\ UNCHANGED secrets

\* After the last entry: a keyset without a usable key is not returned.
Finish ==
  /\ pc = "entry" /\ i > Len(doc.entries)
  /\ pc' = "done" /\ root' = json_free(root)
  /\ result' = IF nkeys = 0 THEN "NULL" ELSE "keyset"
  /\ UNCHANGED <<doc, i, built, cln, pool, faulty>>

-----------------------------------------------------------------------------
(* Release. *)

\* Mistake: the slots keep their pointers.
cleanup_keeps_pointers ==
  LET mine == 1..nkeys IN
  /\ pkeys' = [n \in DOMAIN pkeys |->
                 IF \E s \in mine : slots[s].pkey = n
                 THEN IF pkeys[n] = "live" THEN "freed" ELSE "double"
                 ELSE pkeys[n]]
  /\ secrets' = [n \in DOMAIN secrets |->
                   IF \E s \in mine : slots[s].secret = n
                   THEN "cleansed" ELSE secrets[n]]
  /\ UNCHANGED slots

\* nxe_jwx_jwks_cleanup: the handles and secrets of the counted slots.
cleanup ==
  LET mine == 1..nkeys IN
  /\ pkeys' = [n \in DOMAIN pkeys |->
                 IF \E s \in mine : slots[s].pkey = n
                 THEN IF pkeys[n] = "live" THEN "freed" ELSE "double"
                 ELSE pkeys[n]]
  /\ secrets' = [n \in DOMAIN secrets |->
                   IF \E s \in mine : slots[s].secret = n
                   THEN "cleansed" ELSE secrets[n]]
  /\ slots' = [s \in DOMAIN slots |->
                 IF s \in mine THEN [slots[s] EXCEPT !.pkey = 0, !.secret = 0]
                 ELSE slots[s]]

\* Mistake: the handler is taken off the list and not run.
jwks_free_disarms ==
  /\ pc = "done" /\ result \in {"keyset", "freed"} /\ pool = "live"
  /\ cln' = "disarmed" /\ result' = "freed"
  /\ UNCHANGED <<pc, doc, i, slots, nkeys, root, pkeys, secrets, pool,
                 faulty>>

\* nxe_jwx_jwks_free, once or again, while the pool is there.
jwks_free ==
  /\ pc = "done" /\ result \in {"keyset", "freed"} /\ pool = "live"
  /\ cln' = "disarmed" /\ cleanup /\ result' = "freed"
  /\ UNCHANGED <<pc, doc, i, nkeys, root, pool, faulty>>

\* ngx_destroy_pool runs the handlers that are still there.
DestroyPool ==
  /\ pc = "done" /\ pool = "live"
  /\ pool' = "destroyed"
  /\ IF cln = "armed" THEN cleanup ELSE UNCHANGED <<pkeys, secrets, slots>>
  /\ UNCHANGED <<pc, doc, i, nkeys, root, cln, result, faulty>>

-----------------------------------------------------------------------------
ParseStep == \/ RejectShape \/ RejectCount \/ jwks_alloc
             \/ JwkNotObject \/ JwkSkipEarly \/ JwkDupFails \/ JwkDeclined
             \/ JwkError \/ JwkAccepted
             \/ PemSkipped \/ PemUnsupported \/ PemDupFails \/ PemAccepted
             \/ Finish

Next == ParseStep \/ jwks_free \/ DestroyPool

Spec == Init /\ [][Next]_vars

\* A parser runs to its end; every nginx pool is destroyed sooner or later.
FairSpec == Spec /\ WF_vars(ParseStep) /\ WF_vars(DestroyPool)

-----------------------------------------------------------------------------
(* Properties. *)

\* The slots, the ownership states and the cleanup keep their types.
TypeOK ==
  /\ pc \in {"start", "entry", "done"} /\ doc \in Doc
  /\ i \in 1..(Len(doc.entries) + 1) /\ nkeys \in 0..Len(doc.entries)
  /\ root \in {"none", "live", "freed", "double"}
  /\ pkeys \in [DOMAIN doc.entries -> {"none", "live", "freed", "double"}]
  /\ secrets \in [DOMAIN doc.entries -> {"none", "live", "cleansed"}]
  /\ cln \in {"none", "armed", "disarmed"} /\ pool \in {"live", "destroyed"}
  /\ result \in {"none", "NULL", "keyset", "freed"}
  /\ faulty \in SUBSET FaultKinds
  /\ \A s \in DOMAIN slots :
       /\ slots[s].pkey \in 0..Len(doc.entries)
       /\ slots[s].secret \in 0..Len(doc.entries)

Counted == 1..nkeys
Holders(n) == {s \in Counted : slots[s].pkey = n}
SecretHolders(n) == {s \in Counted : slots[s].secret = n}

\* Ownership: whatever entry fails and however release is requested, a handle
\* is live exactly while one counted slot holds it, and nothing is freed twice
\* (jwks.c:1188-1234 on the way in, 213-267 on the way out).
EveryHandleOwned ==
  /\ root # "double"
  /\ \A n \in DOMAIN doc.entries :
       /\ pkeys[n] # "double"
       /\ pkeys[n] = "live" <=> Holders(n) # {}
       /\ secrets[n] = "live" <=> SecretHolders(n) # {}
       /\ \A s, t \in Holders(n) \cup SecretHolders(n) : s = t

\* Live key material is always within reach of an armed cleanup of a pool that
\* exists: after a document rejected half way through (jwks.c:914-917,
\* 1229-1234), after nxe_jwx_jwks_free disarmed it, after the pool is gone.
LiveMeansArmed ==
  (\E n \in DOMAIN doc.entries : pkeys[n] = "live" \/ secrets[n] = "live") =>
    cln = "armed" /\ pool = "live"

\* What a caller gets holds no view into the JSON, which is freed by then
\* (jwks.c:777-787, 1228-1234); the JSON is freed on every way out.
NoDanglingViews ==
  pc = "done" =>
    /\ root # "live"
    /\ result \in {"keyset", "freed"} =>
         \A s \in Counted : \A str \in {slots[s].kid, slots[s].alg, slots[s].crv} :
           str.m # "json"

\* The slot an entry is written to is inside the array, whatever was skipped
\* before it (jwks.c:895, 911, 1168).
SlotInBounds ==
  (pc = "entry" /\ i <= Len(doc.entries)) => nkeys + 1 \in DOMAIN slots

\* A key handed out can verify: a live handle for a public key, a secret for
\* an oct key, and never both.
UsableKeys ==
  result = "keyset" /\ pool = "live" =>
    \A s \in Counted :
      IF slots[s].kty = "oct"
      THEN slots[s].pkey = 0 /\ slots[s].secret # 0
      ELSE slots[s].kty \in {"RSA", "EC", "OKP"} /\ slots[s].secret = 0
           /\ pkeys[slots[s].pkey] = "live"

(***************************************************************************)
(* The keyset a document stands for: its usable entries, in order.         *)
(***************************************************************************)
UsableJwk(e) == /\ e.node = "object" /\ e.use # "enc" /\ e.kid # Empty
                /\ e.kty \in {"RSA", "EC", "OKP", "oct"}
                /\ e.kty = "oct" => HaveHmac
                /\ e.fields = "ok"
                /\ e.kty = "RSA" => e.bits \in MinRsaBits..MaxRsaBits
                /\ e.kty = "EC" => <<e.crv, e.len>> \in
                     {<<"P-256", 32>>, <<"P-384", 48>>, <<"P-521", 66>>,
                      <<"secp256k1", 32>>}
                /\ e.kty = "OKP" => <<e.crv, e.len>> \in
                     {<<"Ed25519", 32>>, <<"Ed448", 57>>}
UsablePem(e) == /\ e.kid # Empty /\ e.node = "string"
                /\ \/ e.base \in {"RSA", "RSA-PSS", "ED25519", "ED448"}
                   \/ e.base = "EC" /\ e.group \in {"prime256v1", "secp384r1",
                                                  "secp521r1", "secp256k1"}
Wanted == {n \in DOMAIN doc.entries : IF doc.form = "jwks"
                                       THEN UsableJwk(doc.entries[n])
                                       ELSE UsablePem(doc.entries[n])}

\* The JWK names of the type and curve of a key (RFC 7518, RFC 8037).
CurveOf(mat) == CASE mat.base = "EC" ->
                       (CASE mat.group = "prime256v1" -> "P-256"
                          [] mat.group = "secp384r1" -> "P-384"
                          [] mat.group = "secp521r1" -> "P-521"
                          [] mat.group = "secp256k1" -> "secp256k1"
                          [] OTHER -> "unknown")
                  [] mat.base = "ED25519" -> "Ed25519"
                  [] mat.base = "ED448" -> "Ed448"
                  [] OTHER -> Empty
TypeOf(mat) == CASE mat.base \in {"RSA", "RSA-PSS"} -> "RSA"
                 [] mat.base = "EC" -> "EC" [] mat.base = "oct" -> "oct"
                 [] OTHER -> "OKP"

\* The slot is that of the entry: its metadata, and a key of its own material.
Same(slot, e) ==
  /\ slot.kid.v = Str(e.kid, "pool").v
  /\ slot.mat.id = e.id /\ slot.kty = TypeOf(slot.mat)
  /\ doc.form = "jwks" => /\ slot.kty = e.kty /\ slot.alg.v = Str(e.alg, "pool").v
                          /\ slot.crv.v = Str(e.crv, "pool").v
                          /\ e.kty \in {"EC", "OKP"} => CurveOf(slot.mat) = e.crv
                          /\ slot.mat.base # "RSA-PSS"
  /\ doc.form = "keyval" => /\ slot.alg.v = Empty
                            /\ slot.mat.base = e.base /\ slot.mat.group = e.group

\* The slots are wanted entries in document order, though perhaps not all of
\* them; they are all of them if there are as many.
InOrder ==
  \E place \in [Counted -> Wanted] :
    \A s \in Counted :
      Same(slots[s], doc.entries[place[s]]) /\ \A r \in 1..(s - 1) : place[r] < place[s]

\* A keyset is the usable entries of its document, all of them, in document
\* order, each with its own metadata: nothing of a skipped entry stays in the
\* slot the next one gets (jwks.c:736, 900-919, 1130-1242).
KeysetIsFilter ==
  (result = "keyset" /\ faulty \cap {"build", "dup", "alloc"} = {}) =>
    InOrder /\ nkeys = Cardinality(Wanted)

\* Memory or OpenSSL failing on a key of a JWKS never makes a smaller keyset:
\* the document is rejected rather than that key skipped (jwks.c:525-529).  A
\* keyval document may lose keys this way (jwks.c:945) and never gains, swaps
\* or mixes up any.
NoSilentLoss ==
  result = "keyset" =>
    InOrder /\ (doc.form = "jwks" => nkeys = Cardinality(Wanted))

\* The thumbprint of a key depends on the key alone: the same key read from a
\* JWKS and from a PEM has one thumbprint, although "crv" comes from the text
\* in one and from the handle in the other (jwks.c:982-1049, thumbprint.c).
ThumbprintCanonical ==
  \A s \in Counted :
    slots[s].thumbprint # NoThumbprint =>
      slots[s].thumbprint = [kty |-> TypeOf(slots[s].mat), id |-> slots[s].mat.id,
                             crv |-> CurveOf(slots[s].mat)]

Pool == INSTANCE Custody WITH
  Resource <- 0..MaxKeys,
  held <- {n \in DOMAIN doc.entries : pkeys[n] = "live" \/ secrets[n] = "live"}
          \cup {0 : x \in {root} \cap {"live"}},
  spent <- {n \in DOMAIN doc.entries : pkeys[n] = "freed" \/ secrets[n] = "cleansed"}
           \cup {0 : x \in {root} \cap {"freed"}},
  open <- pool = "live"

\* The keyset keeps the promise of Custody for its document (number 0), its
\* handles and its secrets: whatever is refused on the way, released early, or
\* left to the pool is given back once and never used as its own again.
KeepsCustody == Pool!Spec

\* A document that was parsed, for better or worse, leaves nothing behind: in
\* the end no handle, secret or JSON is live.
EventuallyReclaimed ==
  <>[](/\ root # "live"
       /\ \A n \in DOMAIN doc.entries : pkeys[n] # "live" /\ secrets[n] # "live")

-----------------------------------------------------------------------------
(* What the README and the header say, and the code does not do. *)

EntryOf(s) == CHOOSE n \in DOMAIN doc.entries : doc.entries[n].id = slots[s].mat.id

\* README "Verification policy": RSA keys whose modulus falls outside the
\* bounds are rejected at parse time.
RsaBounded ==
  result = "keyset" =>
    \A s \in Counted :
      slots[s].kty = "RSA" =>
        doc.entries[EntryOf(s)].bits \in MinRsaBits..MaxRsaBits

=============================================================================
