------------------------------ MODULE JwxTemps ------------------------------
(***************************************************************************)
(* The OpenSSL and JSON objects a function of the library makes and must   *)
(* give back, whichever of its calls fails, under OpenSSL 1.1 and 3.0.     *)
(*                                                                         *)
(* A routine is the sequence of its calls; each says what a failure of it  *)
(* frees on the way out.  ptr are the local pointers that are not NULL: a  *)
(* pointer that is freed and not set to NULL stays in it.  Freeing an      *)
(* object frees what it owns.  A buffer with a copy of a secret is an      *)
(* object too, freed when it is cleansed.                                  *)
(***************************************************************************)
EXTENDS Naturals, Sequences, FiniteSets

CONSTANT Versions    \* the builds: OpenSSL "1.1", "3.0"

ASSUME VersionsAssumption == Versions \subseteq {"1.1", "3.0"}

VARIABLES
  routine,   \* the function called
  at,        \* the index of its next call
  ptr,       \* local pointers that are not NULL
  obj,       \* each object: "none", "live", "freed", "double"
  owner,     \* what owns it: another object, or Here
  ret        \* "none", "OK", "ERROR"

vars == <<routine, at, ptr, obj, owner, ret>>

Here == "here"

-----------------------------------------------------------------------------
(* Calls. *)

Step(do, objects, to) ==
  [do |-> do, objects |-> objects, to |-> to, clears |-> TRUE, undo |-> {},
   frees |-> {}]

New(t) == Step("make", {t}, Here)         \* an allocation that is tested
Try(t) == Step("try", {t}, Here)          \* one that is tested later
Need(ts) == Step("need", ts, Here)        \* the test: none of them NULL
Call == Step("call", {}, Here)            \* anything else that can fail
Free(ts) == Step("free", ts, Here)

\* A set0 call: the callee owns them if it succeeds, and they are set to NULL.
Give(ts, to) == Step("give", ts, to)

\* An assign call: if it fails, the new owner is freed and set to NULL.
Assign(t, to) == [Step("give", {t}, to) EXCEPT !.undo = {to}]

\* Calls whose failure frees ts.
Under(ts, steps) == [n \in DOMAIN steps |-> [steps[n] EXCEPT !.frees = ts]]

Routine(name, version, keeps, steps) ==
  [name |-> name, version |-> version, keeps |-> keeps, steps |-> steps]

-----------------------------------------------------------------------------
(* Signatures (nxe_jwx_jws.c). *)

\* Mistake: r and s are not set to NULL once the signature owns them.
ecdsa_raw_to_der_keeps ==
  Under({"r", "s", "sig"},
        <<Try("r"), Try("s"), Need({"r", "s"}), New("sig"),
          [Give({"r", "s"}, "sig") EXCEPT !.clears = FALSE], Call, Call, Call>>)
  \o <<Free({"r", "s", "sig"})>>

ecdsa_raw_to_der ==
  Under({"r", "s", "sig"},
        <<Try("r"), Try("s"), Need({"r", "s"}), New("sig"),
          Give({"r", "s"}, "sig"), Call, Call, Call>>)
  \o <<Free({"r", "s", "sig"})>>

\* The digest, the context, its setting up with the three of PSS; the result
\* of EVP_DigestVerify is the answer, not a failure.
evp_verify == <<Call, New("ctx")>> \o Under({"ctx"}, <<Call, Call>>)
              \o <<Free({"ctx"})>>

\* The MAC computed to compare with.
hmac_verify == <<Call, New("mac"), Free({"mac"})>>

ecdsa_der_to_raw == <<New("sig")>> \o Under({"sig"}, <<Call, Call>>)
                    \o <<Free({"sig"})>>

evp_sign == <<Call, New("ctx")>> \o Under({"ctx"}, <<Call, Call, Call, Call, Call>>)
            \o <<Free({"ctx"})>>

hmac_sign == <<Call, New("tmp")>> \o Under({"tmp"}, <<Call>>) \o <<Free({"tmp"})>>

load_pem == <<New("bio")>> \o Under({"bio"}, <<New("pkey")>>) \o <<Free({"bio"})>>

validate_claims_object == <<New("json")>> \o Under({"json"}, <<Call>>)
                          \o <<Free({"json"})>>

build_header == <<New("node")>> \o Under({"node"}, <<Call>>)
                \o <<Free({"node"}), Call>>

-----------------------------------------------------------------------------
(* Keys (nxe_jwx_jwks.c). *)

build_key_30 ==
  Under({"params", "bld", "ctx"},
        <<New("bld"), Call, Call, New("params"), New("ctx"), Call, New("pkey")>>)
  \o <<Free({"params", "bld", "ctx"})>>

\* Mistake: a pkey that could not be assigned is freed, and freed again.
build_rsa_key_11_twice ==
  Under({"pkey", "rsa", "n_dup", "e_dup"},
        <<Try("n_dup"), Try("e_dup"), Need({"n_dup", "e_dup"}), New("rsa"),
          Give({"n_dup", "e_dup"}, "rsa"), New("pkey"),
          [Assign("rsa", "pkey") EXCEPT !.clears = FALSE]>>)

build_rsa_key_11 ==
  Under({"pkey", "rsa", "n_dup", "e_dup"},
        <<Try("n_dup"), Try("e_dup"), Need({"n_dup", "e_dup"}), New("rsa"),
          Give({"n_dup", "e_dup"}, "rsa"), New("pkey"), Assign("rsa", "pkey")>>)

build_ec_key_11 ==
  Under({"pkey", "ec"},
        <<New("ec"), Call, New("pkey"), Assign("ec", "pkey")>>)

\* n and e, their bounds, the key, which copies them.
parse_rsa ==
  <<Call, Call>>
  \o Under({"n_bn", "e_bn"},
           <<Try("n_bn"), Try("e_bn"), Need({"n_bn", "e_bn"}), Call, New("pkey")>>)
  \o <<Free({"n_bn", "e_bn"})>>

-----------------------------------------------------------------------------
(* Thumbprints (nxe_jwx_thumbprint.c); under 1.1 RSA has nothing to free. *)

thumbprint_rsa_30 == Under({"n", "e"}, <<New("n"), New("e"), Call, Call>>)
                     \o <<Free({"n", "e"}), Call>>

thumbprint_ec_30 == <<Call>> \o Under({"x", "y"}, <<New("x"), New("y"), Call, Call>>)
                    \o <<Free({"x", "y"}), Call>>

thumbprint_ec_11 ==
  <<Call, Call, Call>>
  \o Under({"x", "y"}, <<Try("x"), Try("y"), Need({"x", "y"}), Call, Call, Call>>)
  \o <<Free({"x", "y"}), Call>>

\* Mistake: the base64url copy of the secret is left in the pool.
thumbprint_oct_leaves == <<New("k_b64"), New("json")>>

thumbprint_oct == <<New("k_b64"), New("json"), Free({"k_b64"})>>

\* Of an oct key: its input embeds the secret, and is cleansed once digested.
jwk_thumbprint == thumbprint_oct \o <<Call, Call, Free({"json"}), Call>>

-----------------------------------------------------------------------------
All ==
  {Routine("ecdsa_raw_to_der", v, {}, ecdsa_raw_to_der) : v \in Versions}
  \cup {Routine("evp_verify", v, {}, evp_verify) : v \in Versions}
  \cup {Routine("hmac_verify", v, {}, hmac_verify) : v \in Versions}
  \cup {Routine("ecdsa_der_to_raw", v, {}, ecdsa_der_to_raw) : v \in Versions}
  \cup {Routine("evp_sign", v, {}, evp_sign) : v \in Versions}
  \cup {Routine("hmac_sign", v, {}, hmac_sign) : v \in Versions}
  \cup {Routine("load_pem", v, {"pkey"}, load_pem) : v \in Versions}
  \cup {Routine("validate_claims_object", v, {}, validate_claims_object) :
          v \in Versions}
  \cup {Routine("build_header", v, {}, build_header) : v \in Versions}
  \cup {Routine("parse_rsa", v, {"pkey"}, parse_rsa) : v \in Versions}
  \cup {Routine("jwk_thumbprint", v, {}, jwk_thumbprint) : v \in Versions}
  \cup {Routine("build_key", v, {"pkey"}, build_key_30) :
          v \in Versions \cap {"3.0"}}
  \cup {Routine("thumbprint_rsa", v, {}, thumbprint_rsa_30) :
          v \in Versions \cap {"3.0"}}
  \cup {Routine("thumbprint_ec", v, {}, thumbprint_ec_30) :
          v \in Versions \cap {"3.0"}}
  \cup {Routine("build_rsa_key", v, {"pkey"}, build_rsa_key_11) :
          v \in Versions \cap {"1.1"}}
  \cup {Routine("build_ec_key", v, {"pkey"}, build_ec_key_11) :
          v \in Versions \cap {"1.1"}}
  \cup {Routine("thumbprint_ec", v, {}, thumbprint_ec_11) :
          v \in Versions \cap {"1.1"}}

Objects(r) == UNION {r.steps[n].objects : n \in DOMAIN r.steps}

Init ==
  /\ routine \in All /\ at = 1 /\ ptr = {} /\ ret = "none"
  /\ obj = [t \in Objects(routine) |-> "none"]
  /\ owner = [t \in Objects(routine) |-> Here]

Next1 == IF at <= Len(routine.steps) THEN {routine.steps[at]} ELSE {}

\* The objects a call to free(f) releases: f, what it owns, what these own.
Released(f) ==
  LET owned(s) == {t \in DOMAIN owner : owner[t] \in s}
  IN {f} \cup owned({f}) \cup owned(owned({f}))

\* The objects after the pointers in us, then those in ts, are freed.
Freed(us, ts) ==
  [t \in DOMAIN obj |->
     LET times == Cardinality({f \in us : t \in Released(f)})
                  + Cardinality({f \in ts : t \in Released(f)})
     IN IF times = 0 THEN obj[t]
        ELSE IF times = 1 /\ obj[t] = "live" THEN "freed" ELSE "double"]

Proceed == at' = at + 1 /\ UNCHANGED <<routine, ret>>

Make ==
  \E s \in Next1 :
    /\ s.do \in {"make", "try"}
    /\ ptr' = ptr \cup s.objects
    /\ obj' = [t \in DOMAIN obj |-> IF t \in s.objects THEN "live" ELSE obj[t]]
    /\ Proceed /\ UNCHANGED owner

\* An allocation that failed and is not looked at yet.
TryFails ==
  \E s \in Next1 : s.do = "try" /\ Proceed /\ UNCHANGED <<ptr, obj, owner>>

Pass ==
  \E s \in Next1 :
    /\ s.do = "call" \/ (s.do = "need" /\ s.objects \subseteq ptr)
    /\ Proceed /\ UNCHANGED <<ptr, obj, owner>>

Transfer ==
  \E s \in Next1 :
    /\ s.do = "give"
    /\ owner' = [t \in DOMAIN owner |-> IF t \in s.objects THEN s.to ELSE owner[t]]
    /\ ptr' = IF s.clears THEN ptr \ s.objects ELSE ptr
    /\ Proceed /\ UNCHANGED obj

Release ==
  \E s \in Next1 :
    /\ s.do = "free" /\ obj' = Freed({}, s.objects \cap ptr)
    /\ Proceed /\ UNCHANGED <<ptr, owner>>

\* Any call but a free may fail: an assign is undone, then the way out.
Fails ==
  \E s \in Next1 :
    /\ s.do \notin {"free", "try"}
    /\ s.do = "need" => ~(s.objects \subseteq ptr)
    /\ ptr' = IF s.clears THEN ptr \ s.undo ELSE ptr
    /\ obj' = Freed(s.undo, s.frees \cap ptr')
    /\ ret' = "ERROR" /\ at' = Len(routine.steps) + 1
    /\ UNCHANGED <<routine, owner>>

Return ==
  /\ Next1 = {} /\ ret = "none" /\ ret' = "OK"
  /\ UNCHANGED <<routine, at, ptr, obj, owner>>

Next == Make \/ TryFails \/ Pass \/ Transfer \/ Release \/ Fails \/ Return

Spec == Init /\ [][Next]_vars

-----------------------------------------------------------------------------
(* Properties. *)

\* A copy of an oct secret, in a pool buffer.
SecretCopies == {"k_b64", "json"}
IsThumbprint == routine.name = "jwk_thumbprint"

Kept(t) == routine.keeps \cap {u \in DOMAIN obj : t \in Released(u)} # {}

\* Whichever call fails (a transfer of ownership included: jws.c:146,
\* jwks.c:337, 352, 437), every object a function made is given back exactly
\* once by the time it returns; what a success keeps is the key alone.
TempsBalanced ==
  /\ \A t \in DOMAIN obj : obj[t] # "double"
  /\ (ret # "none" /\ ~IsThumbprint) =>
       \A t \in DOMAIN obj : obj[t] = "live" <=> ret = "OK" /\ Kept(t)

\* thumbprint.c:346-352, 407-411: a thumbprint that is returned leaves no copy
\* of the secret in the pool, and a failure leaves one copy, never two.
SecretCopiesCleansed ==
  (IsThumbprint /\ ret # "none") =>
    Cardinality({t \in SecretCopies : obj[t] = "live"})
      <= IF ret = "OK" THEN 0 ELSE 1

=============================================================================
