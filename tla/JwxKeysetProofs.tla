--------------------------- MODULE JwxKeysetProofs ---------------------------
(***************************************************************************)
(* What holds of a keyset for every document, every limit and every        *)
(* failure: who owns which handle, and which entries the slots are.  The   *)
(* parsers are a loop over the entries, so the argument is a loop          *)
(* invariant: what the slots counted so far say about the entries passed.  *)
(***************************************************************************)
EXTENDS JwxKeyset, FiniteSetTheorems, TLAPS

-----------------------------------------------------------------------------
(* The invariant. *)

Entries == DOMAIN doc.entries
Owning == cln = "armed" /\ pool = "live"

\* Nothing is there before the keyset is allocated; until the parser returns
\* its document, its pool and its cleanup are there.
StageInv ==
  /\ pc = "start" => /\ i = 1 /\ nkeys = 0 /\ slots = <<>> /\ root = "none"
                     /\ cln = "none" /\ pool = "live" /\ result = "none"
                     /\ faulty = {}
  /\ pc = "entry" => /\ ~count_refused(doc) /\ root = "live" /\ cln = "armed"
                     /\ pool = "live" /\ result = "none"
  /\ pc = "done" => root \in {"none", "freed"} /\ result # "none"
  /\ result \in {"keyset", "freed"} => i = Len(doc.entries) + 1
  /\ result = "keyset" => cln = "armed"

\* A slot has the fields of one.
Shaped(s) == DOMAIN s = {"kty", "kid", "alg", "crv", "thumbprint", "mat", "pkey",
                         "secret"}

\* The array and the entries counted in it.
SlotsInv ==
  /\ slots = <<>> \/ DOMAIN slots = 1..Capacity(doc)
  /\ \A s \in DOMAIN slots : Shaped(slots[s])
  /\ Counted \subseteq DOMAIN slots
  /\ nkeys < i /\ (pc = "entry" => DOMAIN slots = 1..Capacity(doc))
  /\ pc = "entry" /\ doc.form = "keyval" =>
       \A s \in DOMAIN slots \ Counted : slots[s] = ZeroSlot

\* Handles and secrets are numbered by their entry: nothing of the entries ahead
\* exists, an entry has the one or the other, and no keyset is too large.
MadeInv ==
  /\ \A n \in Entries :
       /\ pc # "done" /\ n >= i => pkeys[n] = "none" /\ secrets[n] = "none"
       /\ pkeys[n] = "none" \/ secrets[n] = "none"
       /\ pkeys[n] # "none" \/ secrets[n] # "none" => Len(doc.entries) <= MaxKeys

\* Every counted slot has a number of its own, and once released has none.
OwnInv ==
  /\ \A s \in Counted : slots[s].pkey \in 0..(i - 1) /\ slots[s].secret \in 0..(i - 1)
  /\ ~Owning => \A s \in Counted : slots[s].pkey = 0 /\ slots[s].secret = 0

IndInv == /\ TypeOK /\ StageInv /\ SlotsInv /\ MadeInv /\ OwnInv
          /\ EveryHandleOwned

\* A slot of a key holds the one thing its type needs.
KeySlot(s) ==
  IF s.kty = "oct" THEN s.pkey = 0 /\ s.secret # 0
  ELSE s.kty \in {"RSA", "EC", "OKP"} /\ s.secret = 0 /\ s.pkey # 0

\* The strings of a slot that do not point into the JSON.
Detached(s) == s.kid.m # "json" /\ s.alg.m # "json" /\ s.crv.m # "json"

\* A counted slot is a key while it is owned, and has no string in the JSON.
KeysInv == \A s \in Counted : (Owning => KeySlot(slots[s])) /\ Detached(slots[s])

\* The wanted entries passed.
Passed(n) == {m \in Wanted : m < n}

\* Slot s is the wanted entry place[s], and the places ascend.
Placed(place) ==
  \A s \in Counted : /\ Same(slots[s], doc.entries[place[s]])
                     /\ \A r \in 1..(s - 1) : place[r] < place[s]

\* The counted slots are wanted entries passed, in order; all of them, unless a
\* PEM was skipped for want of memory.
FilterInv ==
  pc # "done" \/ result \in {"keyset", "freed"} =>
    /\ \E place \in [Counted -> Passed(i)] : Placed(place)
    /\ doc.form = "jwks" \/ "build" \notin faulty => nkeys = Cardinality(Passed(i))

-----------------------------------------------------------------------------
(* Documents and slots. *)

\* The entries of a document are numbered from 1 and are of its form.
LEMMA DocFacts ==
  ASSUME NEW d \in Doc
  PROVE  /\ Len(d.entries) \in Nat /\ DOMAIN d.entries = 1..Len(d.entries)
         /\ \A n \in 1..Len(d.entries) :
              IF d.form = "jwks" THEN d.entries[n] \in Jwk ELSE d.entries[n] \in Pem
         /\ d.form \in {"jwks", "keyval"}
         /\ Capacity(d) \in Nat /\ Len(d.entries) <= Capacity(d)
<1>1. CASE d.entries \in Seq(Jwk) /\ d.form = "jwks"
  BY <1>1 DEF Capacity
<1>2. CASE d.entries \in Seq(Pem) /\ d.form = "keyval"
  BY <1>2 DEF Capacity
<1>3. QED
  BY <1>1, <1>2 DEF Doc

\* A cleared slot, and one with the metadata of a JWK, has no handle.
LEMMA SlotFacts ==
  ASSUME NEW e, NEW m
  PROVE  /\ Shaped(ZeroSlot) /\ ZeroSlot.pkey = 0 /\ ZeroSlot.secret = 0
         /\ Shaped(JwkSlot(e, m)) /\ JwkSlot(e, m).pkey = 0
         /\ JwkSlot(e, m).secret = 0
BY DEF Shaped, ZeroSlot, JwkSlot

\* The slot of a key from a JWK holds one handle or one secret.
LEMMA FilledFacts ==
  ASSUME NEW e, NEW n, NEW f
  PROVE  LET s == Thumbprinted(FilledSlot(e, n), f) IN
         /\ Shaped(s)
         /\ s.kty = e.kty /\ s.mat = built_material(e)
         /\ s.kid = Str(e.kid, "pool") /\ s.alg = Str(e.alg, "pool")
         /\ s.crv = Str(e.crv, "pool")
         /\ s.pkey = IF e.kty = "oct" THEN 0 ELSE n
         /\ s.secret = IF e.kty = "oct" THEN n ELSE 0
BY DEF Shaped, ZeroSlot, JwkSlot, FilledSlot, Thumbprinted

\* The curve of a loaded key that has one.
PemCurve(e) == (CHOOSE c \in curves_of(e) : TRUE).crv

\* The slot of a key from a PEM, written over a cleared one, holds its handle.
LEMMA PemFacts ==
  ASSUME NEW e, NEW m, NEW n, NEW f
  PROVE  /\ LET s == PemSlot(ZeroSlot, e, m, n) IN
            Shaped(s) /\ s.pkey = n /\ s.secret = 0
         /\ LET s == Thumbprinted(PemSlot(ZeroSlot, e, m, n), f) IN
            Shaped(s) /\ s.pkey = n /\ s.secret = 0
BY DEF Shaped, ZeroSlot, PemSlot, Thumbprinted

\* It has the metadata of the member and of the loaded key.
LEMMA PemKeyFacts ==
  ASSUME NEW e, NEW m, NEW n, NEW f
  PROVE  LET s == Thumbprinted(PemSlot(ZeroSlot, e, m, n), f) IN
         /\ s.kty = kty_from_pkey(e.base) /\ s.kid = Str(e.kid, m)
         /\ s.alg = Str(Empty, "null")
         /\ s.mat = [base |-> e.base, group |-> e.group, id |-> e.id]
         /\ s.crv = IF kty_from_pkey(e.base) \in {"EC", "OKP"}
                    THEN Str(PemCurve(e), "static") ELSE Str(Empty, "null")
BY DEF Shaped, ZeroSlot, PemSlot, Thumbprinted, PemCurve

-----------------------------------------------------------------------------
(* Ownership. *)

\* The slot an entry is written to is inside the array and not counted.
LEMMA NextSlot ==
  ASSUME IndInv, pc = "entry", i <= Len(doc.entries)
  PROVE  /\ nkeys + 1 \in DOMAIN slots /\ nkeys + 1 \notin Counted
         /\ nkeys \in Nat /\ i \in Nat /\ i \in Entries
         /\ doc.form = "keyval" => slots[nkeys + 1] = ZeroSlot
<1>1. /\ Len(doc.entries) \in Nat /\ Entries = 1..Len(doc.entries)
      /\ Capacity(doc) \in Nat /\ Len(doc.entries) <= Capacity(doc)
  BY DocFacts DEF IndInv, TypeOK, Entries
<1>2. i \in Nat /\ i >= 1 /\ nkeys \in Nat /\ nkeys < i
  BY <1>1 DEF IndInv, TypeOK, SlotsInv
<1>3. DOMAIN slots = 1..Capacity(doc)
  BY DEF IndInv, SlotsInv
<1>4. nkeys + 1 \in DOMAIN slots /\ nkeys + 1 \notin Counted
  BY <1>1, <1>2, <1>3 DEF Counted
<1>5. doc.form = "keyval" => slots[nkeys + 1] = ZeroSlot
  BY <1>4 DEF IndInv, SlotsInv
<1>6. QED
  BY <1>1, <1>2, <1>4, <1>5

\* What an entry that is not counted leaves: its handle, if one was made, is freed
\* again, and behind the counted slots there is at most metadata.
NotKept ==
  /\ pkeys' = pkeys \/ pkeys' = [pkeys EXCEPT ![i] = "freed"]
  /\ UNCHANGED <<nkeys, secrets>>
  /\ \/ UNCHANGED slots
     \/ \E s : PutSlot(s) /\ Shaped(s) /\ s.pkey = 0 /\ s.secret = 0

\* The parser goes on, or gives the document up.
GoesOn == NextEntry /\ (doc.form = "keyval" => UNCHANGED slots)
GivesUp == /\ pc' = "done" /\ result' = "NULL" /\ root' = json_free(root)
           /\ UNCHANGED <<doc, i, cln, pool>>

\* An entry that is not counted, whether it is skipped or ends the parse, keeps
\* the invariant: no counted slot and no handle of an earlier entry changes.
LEMMA NotKeptKeepsIndInv ==
  ASSUME IndInv, pc = "entry", i <= Len(doc.entries), NotKept,
         GoesOn \/ GivesUp, faulty' \in SUBSET FaultKinds
  PROVE  IndInv'
<1>1. /\ nkeys + 1 \in DOMAIN slots /\ nkeys + 1 \notin Counted
      /\ nkeys \in Nat /\ i \in Nat /\ i \in Entries
  BY NextSlot
<1>2. /\ Len(doc.entries) \in Nat /\ Entries = 1..Len(doc.entries)
  BY DocFacts DEF IndInv, TypeOK, Entries
<1>3. /\ doc' = doc /\ nkeys' = nkeys /\ secrets' = secrets /\ cln' = cln
      /\ pool' = pool /\ cln = "armed" /\ pool = "live" /\ root = "live"
      /\ result = "none" /\ ~count_refused(doc) /\ i' \in {i, i + 1}
  BY DEF NotKept, GoesOn, GivesUp, NextEntry, IndInv, StageInv
<1> DEFINE OneSlot ==
             /\ DOMAIN slots' = DOMAIN slots
             /\ \A s \in DOMAIN slots : s # nkeys + 1 => slots'[s] = slots[s]
             /\ \A s \in DOMAIN slots :
                  \/ slots'[s] = slots[s]
                  \/ Shaped(slots'[s]) /\ slots'[s].pkey = 0 /\ slots'[s].secret = 0
<1>4. OneSlot
  <2>1. CASE UNCHANGED slots
    BY <2>1
  <2>2. ASSUME NEW s, PutSlot(s), Shaped(s), s.pkey = 0, s.secret = 0 PROVE OneSlot
    BY <1>1, <2>2 DEF PutSlot
  <2>3. QED
    BY <2>1, <2>2 DEF NotKept
<1>5. \A s \in Counted : s \in DOMAIN slots /\ slots'[s] = slots[s]
  BY <1>1, <1>4 DEF IndInv, SlotsInv
<1>6. /\ \A n \in Entries : n # i => pkeys'[n] = pkeys[n]
      /\ pkeys'[i] \in {"none", "freed"} /\ pkeys[i] = "none" /\ secrets[i] = "none"
      /\ pkeys' \in [Entries -> {"none", "live", "freed", "double"}]
  BY <1>1 DEF NotKept, IndInv, TypeOK, MadeInv, Entries
<1>7. TypeOK'
  <2>1. \A s \in DOMAIN slots' : /\ slots'[s].pkey \in 0..Len(doc.entries)
                                 /\ slots'[s].secret \in 0..Len(doc.entries)
    BY <1>2, <1>4 DEF IndInv, TypeOK
  <2>2. i' \in 1..(Len(doc.entries) + 1)
    BY <1>1, <1>2, <1>3 DEF Entries
  <2>3. pc' \in {"start", "entry", "done"} /\ result' \in {"none", "NULL"}
        /\ root' \in {"none", "live", "freed", "double"}
    BY DEF GoesOn, GivesUp, NextEntry, json_free, IndInv, TypeOK, StageInv
  <2>4. QED
    BY <1>3, <1>6, <2>1, <2>2, <2>3 DEF IndInv, TypeOK, Entries
<1>8. StageInv'
  BY <1>3 DEF GoesOn, GivesUp, NextEntry, json_free, StageInv, count_refused, IndInv
<1>9. SlotsInv'
  <2>1. doc.form = "keyval" /\ pc' = "entry" => UNCHANGED slots
    BY DEF GoesOn, GivesUp
  <2>2. \A s \in DOMAIN slots' : Shaped(slots'[s])
    BY <1>4 DEF IndInv, SlotsInv
  <2>3. nkeys < i'
    BY <1>1, <1>3 DEF IndInv, SlotsInv
  <2>4. QED
    BY <1>3, <1>4, <2>1, <2>2, <2>3 DEF IndInv, SlotsInv, Counted, Capacity
<1>10. MadeInv'
  <2>1. Len(doc.entries) <= MaxKeys
    BY <1>2, <1>3, KeysetAssumption DEF count_refused
  <2>2. ASSUME NEW n \in Entries, pc' # "done", n >= i'
        PROVE  pkeys'[n] = "none" /\ secrets[n] = "none"
    <3>1. i' = i + 1
      BY <2>2 DEF GoesOn, GivesUp, NextEntry
    <3>2. n > i /\ n # i
      BY <1>1, <1>2, <2>2, <3>1
    <3>3. QED
      BY <1>6, <3>2, <1>2, <1>1 DEF IndInv, MadeInv
  <2>3. QED
    BY <1>3, <1>6, <2>1, <2>2 DEF IndInv, MadeInv, Entries
<1>11. OwnInv'
  <2>1. ASSUME NEW s \in Counted
        PROVE  slots'[s].pkey \in 0..(i' - 1) /\ slots'[s].secret \in 0..(i' - 1)
    BY <1>1, <1>3, <1>5, <2>1 DEF IndInv, OwnInv
  <2>2. QED
    BY <1>3, <2>1 DEF OwnInv, Owning, Counted
<1>12. EveryHandleOwned'
  <2>1. root' # "double"
    BY <1>3 DEF GoesOn, GivesUp, NextEntry, json_free
  <2>2. \A n : Holders(n)' = Holders(n) /\ SecretHolders(n)' = SecretHolders(n)
    BY <1>3, <1>5 DEF Holders, SecretHolders, Counted
  <2>3. QED
    BY <1>3, <1>6, <2>1, <2>2 DEF EveryHandleOwned, IndInv, Entries
<1>13. QED
  BY <1>7, <1>8, <1>9, <1>10, <1>11, <1>12 DEF IndInv

\* What a counted entry leaves: its slot is the next one, and holds the handle or
\* the secret of that entry.
Kept(s) ==
  /\ PutSlot(s) /\ Shaped(s) /\ nkeys' = nkeys + 1
  /\ \/ /\ s.pkey = i /\ s.secret = 0
        /\ pkeys' = [pkeys EXCEPT ![i] = "live"] /\ secrets' = secrets
     \/ /\ s.pkey = 0 /\ s.secret = i
        /\ secrets' = [secrets EXCEPT ![i] = "live"] /\ pkeys' = pkeys

\* An entry that is counted keeps the invariant: its number is new, so its slot
\* is the only one to hold it.
LEMMA KeptKeepsIndInv ==
  ASSUME IndInv, pc = "entry", i <= Len(doc.entries), NEW s, Kept(s),
         NextEntry, faulty' \in SUBSET FaultKinds
  PROVE  IndInv'
<1>1. /\ nkeys + 1 \in DOMAIN slots /\ nkeys + 1 \notin Counted
      /\ nkeys \in Nat /\ i \in Nat /\ i \in Entries
  BY NextSlot
<1>2. /\ Len(doc.entries) \in Nat /\ Entries = 1..Len(doc.entries)
  BY DocFacts DEF IndInv, TypeOK, Entries
<1>3. /\ doc' = doc /\ nkeys' = nkeys + 1 /\ cln' = cln /\ pc' = pc /\ i' = i + 1
      /\ pool' = pool /\ cln = "armed" /\ pool = "live" /\ root = "live"
      /\ root' = root /\ result' = result
      /\ result = "none" /\ ~count_refused(doc) /\ nkeys < i
  BY DEF Kept, NextEntry, IndInv, StageInv, SlotsInv
<1>4. /\ DOMAIN slots' = DOMAIN slots /\ slots'[nkeys + 1] = s
      /\ \A r \in DOMAIN slots : r # nkeys + 1 => slots'[r] = slots[r]
      /\ Shaped(s)
      /\ s.pkey \in {0, i} /\ s.secret \in {0, i} /\ (s.pkey = i <=> s.secret = 0)
  BY <1>1, <1>2 DEF Kept, PutSlot, Entries
<1>5. /\ Counted' = Counted \cup {nkeys + 1}
      /\ \A r \in Counted : r \in DOMAIN slots /\ slots'[r] = slots[r]
  BY <1>1, <1>3, <1>4 DEF Counted, IndInv, SlotsInv
<1>6. /\ \A n \in Entries : n # i => pkeys'[n] = pkeys[n] /\ secrets'[n] = secrets[n]
      /\ pkeys[i] = "none" /\ secrets[i] = "none"
      /\ pkeys'[i] = IF s.pkey = i THEN "live" ELSE "none"
      /\ secrets'[i] = IF s.secret = i THEN "live" ELSE "none"
      /\ pkeys' \in [Entries -> {"none", "live", "freed", "double"}]
      /\ secrets' \in [Entries -> {"none", "live", "cleansed"}]
  BY <1>1, <1>2, <1>3 DEF Kept, IndInv, TypeOK, MadeInv, Entries
<1>7. TypeOK'
  <2>1. \A r \in DOMAIN slots' : /\ slots'[r].pkey \in 0..Len(doc.entries)
                                 /\ slots'[r].secret \in 0..Len(doc.entries)
    BY <1>1, <1>2, <1>4 DEF IndInv, TypeOK
  <2>2. i' \in 1..(Len(doc.entries) + 1) /\ nkeys' \in 0..Len(doc.entries)
    BY <1>1, <1>2, <1>3 DEF Entries
  <2>3. QED
    BY <1>3, <1>6, <2>1, <2>2 DEF IndInv, TypeOK, Entries
<1>8. StageInv'
  BY <1>3 DEF StageInv, count_refused, IndInv
<1>9. SlotsInv'
  <2>1. \A r \in DOMAIN slots' : Shaped(slots'[r])
    BY <1>4 DEF IndInv, SlotsInv
  <2>2. \A r \in DOMAIN slots' \ Counted' :
          r \in DOMAIN slots \ Counted /\ slots'[r] = slots[r]
    BY <1>4, <1>5
  <2>3. Counted' \subseteq DOMAIN slots' /\ nkeys' < i'
    BY <1>1, <1>3, <1>4, <1>5
  <2>4. QED
    BY <1>3, <1>4, <2>1, <2>2, <2>3 DEF IndInv, SlotsInv, Capacity
<1>10. MadeInv'
  <2>1. Len(doc.entries) <= MaxKeys
    BY <1>2, <1>3, KeysetAssumption DEF count_refused
  <2>2. ASSUME NEW n \in Entries, n >= i'
        PROVE  pkeys'[n] = "none" /\ secrets'[n] = "none"
    <3>1. n >= i /\ n # i
      BY <1>1, <1>2, <1>3, <2>2
    <3>2. QED
      BY <1>3, <1>6, <3>1 DEF IndInv, MadeInv
  <2>3. QED
    BY <1>1, <1>3, <1>4, <1>6, <2>1, <2>2 DEF IndInv, MadeInv, Entries
<1>11. OwnInv'
  <2>1. ASSUME NEW r \in Counted'
        PROVE  slots'[r].pkey \in 0..(i' - 1) /\ slots'[r].secret \in 0..(i' - 1)
    BY <1>1, <1>3, <1>4, <1>5, <2>1 DEF IndInv, OwnInv
  <2>2. QED
    BY <1>3, <2>1 DEF OwnInv, Owning
<1>12. EveryHandleOwned'
  <2>1. \A r \in Counted : slots'[r].pkey # i /\ slots'[r].secret # i
    BY <1>1, <1>5 DEF IndInv, OwnInv
  <2>2. ASSUME NEW n \in Entries, n # i
        PROVE  Holders(n)' = Holders(n) /\ SecretHolders(n)' = SecretHolders(n)
    <3>1. n # 0
      BY <1>2
    <3>2. slots'[nkeys + 1].pkey # n /\ slots'[nkeys + 1].secret # n
      BY <1>4, <2>2, <3>1
    <3>3. QED
      BY <1>5, <3>2 DEF Holders, SecretHolders
  <2>3. ASSUME NEW n, n = i
        PROVE  /\ Holders(n)' = IF s.pkey = i THEN {nkeys + 1} ELSE {}
               /\ SecretHolders(n)' = IF s.secret = i THEN {nkeys + 1} ELSE {}
    BY <1>4, <1>5, <2>1, <2>3 DEF Holders, SecretHolders
  <2>4. ASSUME NEW n \in Entries
        PROVE  /\ pkeys'[n] # "double"
               /\ pkeys'[n] = "live" <=> Holders(n)' # {}
               /\ secrets'[n] = "live" <=> SecretHolders(n)' # {}
               /\ \A r, t \in Holders(n)' \cup SecretHolders(n)' : r = t
    <3>1. CASE n = i
      <4>1. s.pkey = i <=> s.secret # i
        BY <1>1, <1>2, <1>4
      <4>2. /\ Holders(n)' = IF s.pkey = i THEN {nkeys + 1} ELSE {}
            /\ SecretHolders(n)' = IF s.secret = i THEN {nkeys + 1} ELSE {}
        BY <2>3, <3>1
      <4>3. /\ pkeys'[n] = IF s.pkey = i THEN "live" ELSE "none"
            /\ secrets'[n] = IF s.secret = i THEN "live" ELSE "none"
        BY <1>6, <3>1
      <4>4. QED
        BY <4>1, <4>2, <4>3
    <3>2. CASE n # i
      BY <1>6, <2>2, <3>2 DEF IndInv, EveryHandleOwned, Entries
    <3>3. QED
      BY <3>1, <3>2
  <2>5. QED
    BY <1>3, <2>4 DEF EveryHandleOwned, Entries
<1>13. QED
  BY <1>7, <1>8, <1>9, <1>10, <1>11, <1>12 DEF IndInv

\* Releasing the counted slots frees what is live, and nothing else: each handle
\* and secret is held by one of them.
LEMMA CleanupFrees ==
  ASSUME IndInv, cleanup, NEW n \in Entries
  PROVE  /\ pkeys'[n] = IF pkeys[n] = "live" THEN "freed" ELSE pkeys[n]
         /\ secrets'[n] = IF secrets[n] = "live" THEN "cleansed" ELSE secrets[n]
<1>1. DOMAIN pkeys = Entries /\ DOMAIN secrets = Entries
  BY DEF IndInv, TypeOK, Entries
<1>2. /\ pkeys[n] = "live" <=> \E s \in 1..nkeys : slots[s].pkey = n
      /\ secrets[n] = "live" <=> \E s \in 1..nkeys : slots[s].secret = n
  BY DEF IndInv, EveryHandleOwned, Holders, SecretHolders, Counted, Entries
<1>3. QED
  BY <1>1, <1>2 DEF cleanup

\* Releasing the counted slots keeps the invariant: each handle was held by one
\* of them, so it is freed once, and afterwards none of them has a number left.
LEMMA CleanupKeepsIndInv ==
  ASSUME IndInv, pc = "done", cleanup,
         UNCHANGED <<pc, doc, i, nkeys, root, faulty>>,
         cln' \in {"armed", "disarmed"}, pool' \in {"live", "destroyed"},
         ~Owning',
         \/ result' = result /\ cln' = cln
         \/ result' = "freed" /\ i = Len(doc.entries) + 1
  PROVE  IndInv'
<1>1. /\ Len(doc.entries) \in Nat /\ Entries = 1..Len(doc.entries)
      /\ DOMAIN pkeys = Entries /\ DOMAIN secrets = Entries
  BY DocFacts DEF IndInv, TypeOK, Entries
<1>2. Counted' = Counted /\ Counted \subseteq DOMAIN slots /\ i \in Nat /\ i >= 1
  BY <1>1 DEF Counted, IndInv, SlotsInv, TypeOK
<1>3. /\ DOMAIN slots' = DOMAIN slots
      /\ \A s \in DOMAIN slots \ Counted : slots'[s] = slots[s]
      /\ \A s \in Counted : slots'[s].pkey = 0 /\ slots'[s].secret = 0
      /\ \A s \in DOMAIN slots : Shaped(slots'[s])
  <2>1. slots' = [s \in DOMAIN slots |->
                   IF s \in Counted THEN [slots[s] EXCEPT !.pkey = 0, !.secret = 0]
                   ELSE slots[s]]
    BY DEF cleanup, Counted
  <2>2. \A s \in DOMAIN slots : Shaped(slots[s])
    BY DEF IndInv, SlotsInv
  <2>3. ASSUME NEW s \in Counted
        PROVE  slots'[s].pkey = 0 /\ slots'[s].secret = 0 /\ Shaped(slots'[s])
    <3>1. Shaped(slots[s]) /\ slots'[s] = [slots[s] EXCEPT !.pkey = 0, !.secret = 0]
      BY <1>2, <2>1, <2>2
    <3>2. QED
      BY <3>1 DEF Shaped
  <2>4. QED
    BY <1>2, <2>1, <2>2, <2>3
<1>4. ASSUME NEW n \in Entries
      PROVE  /\ pkeys'[n] = IF pkeys[n] = "live" THEN "freed" ELSE pkeys[n]
             /\ secrets'[n] = IF secrets[n] = "live" THEN "cleansed" ELSE secrets[n]
  BY CleanupFrees
<1>5. /\ pkeys' \in [Entries -> {"none", "live", "freed", "double"}]
      /\ secrets' \in [Entries -> {"none", "live", "cleansed"}]
  BY <1>1 DEF cleanup, IndInv, TypeOK, Entries
<1>6. TypeOK'
  <2>1. \A s \in DOMAIN slots' : /\ slots'[s].pkey \in 0..Len(doc.entries)
                                 /\ slots'[s].secret \in 0..Len(doc.entries)
    BY <1>1, <1>2, <1>3 DEF IndInv, TypeOK
  <2>2. QED
    BY <1>5, <2>1 DEF IndInv, TypeOK, Entries
<1>7. StageInv'
  BY DEF IndInv, StageInv, count_refused
<1>8. SlotsInv'
  BY <1>2, <1>3 DEF IndInv, SlotsInv, Capacity
<1>9. MadeInv'
  BY <1>4 DEF IndInv, MadeInv, Entries
<1>10. OwnInv'
  BY <1>2, <1>3 DEF OwnInv
<1>11. EveryHandleOwned'
  <2>1. \A n \in Entries : Holders(n)' = {} /\ SecretHolders(n)' = {}
    BY <1>1, <1>2, <1>3 DEF Holders, SecretHolders
  <2>2. QED
    BY <1>4, <2>1 DEF IndInv, EveryHandleOwned, Entries
<1>12. QED
  BY <1>6, <1>7, <1>8, <1>9, <1>10, <1>11 DEF IndInv

\* The failures that happen are kinds of failure.
LEMMA FaultTypes ==
  ASSUME TypeOK, NEW k \in FaultKinds, NEW f \in SUBSET (Faults \cap {k})
  PROVE  faulty \cup f \in SUBSET FaultKinds
BY KeysetAssumption DEF TypeOK

\* The steps before the first entry.
LEMMA StartKeepsIndInv ==
  ASSUME IndInv, RejectShape \/ RejectCount \/ jwks_alloc
  PROVE  IndInv'
<1>1. /\ Len(doc.entries) \in Nat /\ Entries = 1..Len(doc.entries)
      /\ Capacity(doc) \in Nat /\ Len(doc.entries) <= Capacity(doc)
  BY DocFacts DEF IndInv, TypeOK, Entries
<1>2. /\ pc = "start" /\ i = 1 /\ nkeys = 0 /\ slots = <<>> /\ root = "none"
      /\ cln = "none" /\ pool = "live" /\ result = "none" /\ faulty = {}
  BY DEF IndInv, StageInv, RejectShape, RejectCount, jwks_alloc
<1>3. UNCHANGED <<doc, i, nkeys, pkeys, secrets, pool>>
  BY DEF RejectShape, RejectCount, jwks_alloc, built
<1>4. Counted = {} /\ Counted' = {}
  BY <1>2, <1>3 DEF Counted
<1>5. /\ \/ UNCHANGED slots /\ pc' = "done"
         \/ slots' = [n \in 1..Capacity(doc) |-> ZeroSlot] /\ pc' = "entry"
      /\ faulty' \in SUBSET FaultKinds
  BY <1>2 DEF RejectShape, RejectCount, jwks_alloc, built, FaultKinds
<1>6. DOMAIN slots = {}
  BY <1>2
<1>7. /\ slots' = <<>> \/ DOMAIN slots' = 1..Capacity(doc)
      /\ pc' = "entry" => DOMAIN slots' = 1..Capacity(doc)
      /\ \A s \in DOMAIN slots' : slots'[s] = ZeroSlot
  BY <1>2, <1>5, <1>6
<1>8. Shaped(ZeroSlot) /\ ZeroSlot.pkey = 0 /\ ZeroSlot.secret = 0
  BY SlotFacts
<1>9. TypeOK'
  <2>1. /\ pc' \in {"start", "entry", "done"} /\ cln' \in {"none", "armed"}
        /\ root' \in {"none", "live", "freed"} /\ result' \in {"none", "NULL"}
    BY <1>2 DEF RejectShape, RejectCount, jwks_alloc
  <2>2. QED
    BY <1>1, <1>3, <1>5, <1>7, <1>8, <2>1 DEF IndInv, TypeOK
<1>10. StageInv'
  BY <1>2, <1>3, <1>5 DEF RejectShape, RejectCount, jwks_alloc, StageInv, count_refused
<1>11. SlotsInv'
  BY <1>2, <1>3, <1>4, <1>7, <1>8 DEF SlotsInv, Capacity
<1>12. MadeInv' /\ OwnInv'
  BY <1>2, <1>3, <1>4, <1>5 DEF IndInv, MadeInv, OwnInv, Entries
<1>13. EveryHandleOwned'
  <2>1. \A n : /\ Holders(n) = {} /\ SecretHolders(n) = {}
               /\ Holders(n)' = {} /\ SecretHolders(n)' = {}
    BY <1>4 DEF Holders, SecretHolders
  <2>2. root' # "double"
    BY DEF RejectShape, RejectCount, jwks_alloc
  <2>3. QED
    BY <1>3, <2>1, <2>2 DEF IndInv, EveryHandleOwned
<1>14. QED
  BY <1>9, <1>10, <1>11, <1>12, <1>13 DEF IndInv

\* An element of "keys" that is skipped, declined or an error.
LEMMA JwkNotKept ==
  ASSUME IndInv,
         JwkNotObject \/ JwkSkipEarly \/ JwkDupFails \/ JwkDeclined \/ JwkError
  PROVE  /\ pc = "entry" /\ i <= Len(doc.entries) /\ doc.form = "jwks"
         /\ NotKept /\ (GoesOn \/ GivesUp) /\ faulty' \in SUBSET FaultKinds
<1>1. TypeOK
  BY DEF IndInv
<1>2. CASE JwkNotObject
  BY <1>1, <1>2 DEF JwkNotObject, JwkHere, NotKept, GoesOn, built, TypeOK
<1>3. CASE JwkSkipEarly
  BY <1>1, <1>3, SlotFacts DEF JwkSkipEarly, JwkHere, NotKept, GoesOn, TypeOK
<1>4. CASE JwkDeclined
  BY <1>1, <1>4, SlotFacts DEF JwkDeclined, JwkHere, NotKept, GoesOn, TypeOK
<1>5. CASE JwkDupFails
  BY <1>1, <1>5, SlotFacts DEF JwkDupFails, JwkHere, NotKept, GivesUp, Fail, TypeOK,
     FaultKinds
<1>6. CASE JwkError
  <2>1. PICK e \in JwkHere, f \in SUBSET (Faults \cap {"build"}) :
          PutSlot(JwkSlot(e, "pool")) /\ Fail(f) /\ UNCHANGED pkeys
    BY <1>6 DEF JwkError
  <2>2. faulty' \in SUBSET FaultKinds
    BY <1>1, <2>1, FaultTypes DEF Fail, FaultKinds
  <2>3. QED
    BY <2>1, <2>2, SlotFacts DEF JwkHere, NotKept, GivesUp, Fail
<1>7. QED
  BY <1>2, <1>3, <1>4, <1>5, <1>6

\* A member of a keyval object that is skipped, or whose copy fails.
LEMMA PemNotKept ==
  ASSUME IndInv, PemSkipped \/ PemUnsupported \/ PemDupFails
  PROVE  /\ pc = "entry" /\ i <= Len(doc.entries) /\ doc.form = "keyval"
         /\ NotKept /\ (GoesOn \/ GivesUp) /\ faulty' \in SUBSET FaultKinds
<1>1. TypeOK
  BY DEF IndInv
<1>2. CASE PemSkipped
  <2>1. PICK e \in PemHere, f \in SUBSET (Faults \cap {"build"}) :
          faulty' = faulty \cup f /\ NextEntry /\ UNCHANGED built
    BY <1>2 DEF PemSkipped
  <2>2. faulty' \in SUBSET FaultKinds
    BY <1>1, <2>1, FaultTypes DEF FaultKinds
  <2>3. QED
    BY <2>1, <2>2 DEF PemHere, NotKept, GoesOn, built
<1>3. CASE PemUnsupported
  BY <1>1, <1>3 DEF PemUnsupported, PemHere, NotKept, GoesOn, TypeOK
<1>4. CASE PemDupFails
  <2>1. PICK e \in PemHere : /\ PutSlot(PemSlot(slots[nkeys + 1], e, "json", 0))
                             /\ pkeys' = [pkeys EXCEPT ![i] = "freed"]
                             /\ Fail({"dup"})
    BY <1>4 DEF PemDupFails
  <2>2. slots[nkeys + 1] = ZeroSlot
    BY <2>1, NextSlot DEF PemHere
  <2> DEFINE s == PemSlot(ZeroSlot, e, "json", 0)
  <2>3. Shaped(s) /\ s.pkey = 0 /\ s.secret = 0
    BY PemFacts
  <2>4. PutSlot(s)
    BY <2>1, <2>2
  <2> HIDE DEF s
  <2>5. faulty' \in SUBSET FaultKinds
    BY <1>1, <2>1 DEF Fail, TypeOK, FaultKinds
  <2>6. NotKept
    BY <2>1, <2>3, <2>4 DEF NotKept, Fail
  <2>7. QED
    BY <2>1, <2>5, <2>6 DEF PemHere, GivesUp, Fail
<1>5. QED
  BY <1>2, <1>3, <1>4

\* What an accepted entry of either kind leaves.
LEMMA AcceptedKept ==
  ASSUME IndInv, JwkAccepted \/ PemAccepted
  PROVE  /\ pc = "entry" /\ i <= Len(doc.entries) /\ NextEntry
         /\ faulty' \in SUBSET FaultKinds /\ faulty \subseteq faulty'
         /\ \/ /\ doc.form = "jwks" /\ doc.entries[i].node = "object"
               /\ ~skipped_early(doc.entries[i])
               /\ parse_material(doc.entries[i]) = "OK"
               /\ \E f : Kept(Thumbprinted(FilledSlot(doc.entries[i], i), f))
            \/ /\ doc.form = "keyval" /\ loads(doc.entries[i])
               /\ pem_supported(doc.entries[i])
               /\ \E f : Kept(Thumbprinted(PemSlot(ZeroSlot, doc.entries[i], "pool", i), f))
<1>1. TypeOK
  BY DEF IndInv
<1>2. CASE JwkAccepted
  <2>1. PICK e \in JwkHere, f \in SUBSET (Faults \cap {"tp"}) :
          /\ e.node = "object" /\ ~skipped_early(e) /\ parse_material(e) = "OK"
          /\ PutSlot(Thumbprinted(FilledSlot(e, i), f))
          /\ faulty' = faulty \cup f
          /\ nkeys' = nkeys + 1
          /\ pkeys' = [pkeys EXCEPT ![i] = IF e.kty = "oct" THEN @ ELSE "live"]
          /\ secrets' = [secrets EXCEPT ![i] = IF e.kty = "oct" THEN "live" ELSE @]
          /\ NextEntry
    BY <1>2 DEF JwkAccepted
  <2>2. faulty' \in SUBSET FaultKinds
    BY <1>1, <2>1, FaultTypes DEF FaultKinds
  <2> DEFINE s == Thumbprinted(FilledSlot(e, i), f)
  <2>3. Shaped(s) /\ s.pkey = (IF e.kty = "oct" THEN 0 ELSE i)
        /\ s.secret = (IF e.kty = "oct" THEN i ELSE 0)
    BY FilledFacts
  <2>4. pkeys = [pkeys EXCEPT ![i] = @] /\ secrets = [secrets EXCEPT ![i] = @]
    BY <1>1 DEF TypeOK
  <2> HIDE DEF s
  <2>5. PutSlot(s)
    BY <2>1 DEF s
  <2>6. Kept(s)
    BY <2>1, <2>3, <2>4, <2>5 DEF Kept
  <2>7. \E g : Kept(Thumbprinted(FilledSlot(e, i), g))
    BY <2>6 DEF s
  <2>8. QED
    BY <2>1, <2>2, <2>7 DEF JwkHere
<1>3. CASE PemAccepted
  <2>1. PICK e \in PemHere, f \in SUBSET (Faults \cap {"tp"}) :
          /\ loads(e) /\ pem_supported(e)
          /\ PutSlot(Thumbprinted(PemSlot(slots[nkeys + 1], e, "pool", i), f))
          /\ faulty' = faulty \cup f
          /\ nkeys' = nkeys + 1
          /\ pkeys' = [pkeys EXCEPT ![i] = "live"]
          /\ NextEntry /\ UNCHANGED secrets
    BY <1>3 DEF PemAccepted
  <2>2. faulty' \in SUBSET FaultKinds
    BY <1>1, <2>1, FaultTypes DEF FaultKinds
  <2>3. slots[nkeys + 1] = ZeroSlot
    BY <2>1, NextSlot DEF PemHere
  <2> DEFINE s == Thumbprinted(PemSlot(ZeroSlot, e, "pool", i), f)
  <2>4. Shaped(s) /\ s.pkey = i /\ s.secret = 0
    BY PemFacts
  <2>5. PutSlot(s)
    BY <2>1, <2>3
  <2> HIDE DEF s
  <2>6. Kept(s)
    BY <2>1, <2>4, <2>5 DEF Kept
  <2>7. \E g : Kept(Thumbprinted(PemSlot(ZeroSlot, e, "pool", i), g))
    BY <2>6 DEF s
  <2>8. QED
    BY <2>1, <2>2, <2>7 DEF PemHere
<1>4. QED
  BY <1>2, <1>3

\* The return of the parser, after the last entry.
LEMMA FinishKeepsIndInv ==
  ASSUME IndInv, Finish
  PROVE  IndInv'
<1>1. /\ pc = "entry" /\ pc' = "done" /\ root = "live" /\ root' = "freed"
      /\ result' \in {"NULL", "keyset"} /\ cln = "armed" /\ pool = "live"
      /\ UNCHANGED <<doc, i, slots, nkeys, pkeys, secrets, cln, pool, faulty>>
  BY DEF Finish, IndInv, StageInv, json_free, built
<1>2. i = Len(doc.entries) + 1
  BY DocFacts DEF Finish, IndInv, TypeOK
<1>3. QED
  BY <1>1, <1>2 DEF IndInv, TypeOK, StageInv, SlotsInv, MadeInv, OwnInv, Owning,
     EveryHandleOwned, Holders, SecretHolders, Counted, Capacity, Entries, count_refused

\* Releasing the keyset early, again, or with its pool.
LEMMA ReleaseKeepsIndInv ==
  ASSUME IndInv, jwks_free \/ DestroyPool
  PROVE  IndInv'
<1>1. CASE jwks_free
  BY <1>1, CleanupKeepsIndInv DEF jwks_free, IndInv, TypeOK, StageInv, Owning
<1>2. CASE DestroyPool /\ cln = "armed"
  BY <1>2, CleanupKeepsIndInv DEF DestroyPool, Owning
<1>3. CASE DestroyPool /\ cln # "armed"
  BY <1>3 DEF DestroyPool, IndInv, TypeOK, StageInv, SlotsInv, MadeInv, OwnInv, Owning,
     EveryHandleOwned, Holders, SecretHolders, Counted, Capacity, Entries, count_refused
<1>4. QED
  BY <1>1, <1>2, <1>3

\* Every step keeps the invariant.
LEMMA InductiveStep ==
  ASSUME IndInv, [Next]_vars
  PROVE  IndInv'
<1>1. CASE RejectShape \/ RejectCount \/ jwks_alloc
  BY <1>1, StartKeepsIndInv
<1>2. CASE JwkNotObject \/ JwkSkipEarly \/ JwkDupFails \/ JwkDeclined \/ JwkError
  BY <1>2, JwkNotKept, NotKeptKeepsIndInv
<1>3. CASE PemSkipped \/ PemUnsupported \/ PemDupFails
  BY <1>3, PemNotKept, NotKeptKeepsIndInv
<1>4. CASE JwkAccepted \/ PemAccepted
  BY <1>4, AcceptedKept, KeptKeepsIndInv
<1>5. CASE Finish
  BY <1>5, FinishKeepsIndInv
<1>6. CASE jwks_free \/ DestroyPool
  BY <1>6, ReleaseKeepsIndInv
<1>7. CASE UNCHANGED vars
  BY <1>7 DEF vars, IndInv, TypeOK, StageInv, SlotsInv, MadeInv, OwnInv, Owning,
     EveryHandleOwned, Holders, SecretHolders, Counted, Capacity, Entries, count_refused
<1>8. QED
  BY <1>1, <1>2, <1>3, <1>4, <1>5, <1>6, <1>7 DEF Next, ParseStep

\* A document about to be parsed.
LEMMA InitIndInv == Init => IndInv
<1> SUFFICES ASSUME Init PROVE IndInv
  OBVIOUS
<1>1. /\ doc \in Doc /\ Len(doc.entries) \in Nat
  BY KeysetAssumption, DocFacts DEF Init
<1>2. DOMAIN slots = {} /\ Counted = {}
  BY DEF Init, Counted
<1>3. QED
  BY <1>1, <1>2 DEF Init, IndInv, TypeOK, StageInv, SlotsInv, MadeInv, OwnInv, Entries,
     EveryHandleOwned, Holders, SecretHolders, FaultKinds

\* The ownership invariant holds of every behaviour.
LEMMA OwnershipInvariant == Spec => []IndInv
<1>1. IndInv /\ [Next]_vars => IndInv'
  BY InductiveStep
<1>2. QED
  BY InitIndInv, <1>1, PTL DEF Spec

-----------------------------------------------------------------------------
(* What a step does to the counted slots. *)

\* All of a slot but its handle and its secret.
SameKey(s, t) == /\ s.kty = t.kty /\ s.kid = t.kid /\ s.alg = t.alg
                 /\ s.crv = t.crv /\ s.thumbprint = t.thumbprint /\ s.mat = t.mat

\* A counted slot stays as it is while it is owned, and then loses no more than
\* its handle or secret.
Settled ==
  /\ doc' = doc /\ nkeys' = nkeys
  /\ \A s \in Counted : /\ SameKey(slots'[s], slots[s])
                        /\ Owning' => Owning /\ slots'[s] = slots[s]

\* An entry that is not counted leaves the counted slots alone.
LEMMA NotKeptSettled ==
  ASSUME IndInv, pc = "entry", i <= Len(doc.entries), NotKept, GoesOn \/ GivesUp
  PROVE  Settled
<1>1. /\ nkeys + 1 \in DOMAIN slots /\ nkeys + 1 \notin Counted
      /\ Counted \subseteq DOMAIN slots
  BY NextSlot DEF IndInv, SlotsInv
<1>2. /\ doc' = doc /\ nkeys' = nkeys /\ cln' = cln /\ pool' = pool
  BY DEF NotKept, GoesOn, GivesUp, NextEntry
<1>3. \A s \in Counted : slots'[s] = slots[s]
  BY <1>1 DEF NotKept, PutSlot
<1>4. QED
  BY <1>2, <1>3 DEF Settled, SameKey, Owning

\* So does every step but the one that counts an entry; release takes handles and
\* secrets out of the counted slots and nothing else.
LEMMA StepSettles ==
  ASSUME IndInv, [Next]_vars, ~JwkAccepted, ~PemAccepted
  PROVE  Settled
<1>1. CASE RejectShape \/ RejectCount \/ jwks_alloc
  <2>1. nkeys = 0 /\ nkeys' = nkeys /\ doc' = doc
    BY <1>1 DEF RejectShape, RejectCount, jwks_alloc, IndInv, StageInv, built
  <2>2. Counted = {}
    BY <2>1 DEF Counted
  <2>3. QED
    BY <2>1, <2>2 DEF Settled
<1>2. CASE JwkNotObject \/ JwkSkipEarly \/ JwkDupFails \/ JwkDeclined \/ JwkError
  BY <1>2, JwkNotKept, NotKeptSettled
<1>3. CASE PemSkipped \/ PemUnsupported \/ PemDupFails
  BY <1>3, PemNotKept, NotKeptSettled
<1>4. CASE Finish
  BY <1>4 DEF Finish, Settled, SameKey, Owning, built
<1>5. CASE cleanup /\ ~Owning' /\ doc' = doc /\ nkeys' = nkeys
  <2>1. \A s \in Counted : s \in DOMAIN slots /\ Shaped(slots[s])
    BY DEF IndInv, SlotsInv
  <2>2. ASSUME NEW s \in Counted PROVE SameKey(slots'[s], slots[s])
    <3>1. slots'[s] = [slots[s] EXCEPT !.pkey = 0, !.secret = 0]
      BY <1>5, <2>1 DEF cleanup, Counted
    <3>2. Shaped(slots[s])
      BY <2>1
    <3>3. QED
      BY <3>1, <3>2 DEF Shaped, SameKey
  <2>3. QED
    BY <1>5, <2>2 DEF Settled
<1>6. CASE jwks_free
  BY <1>5, <1>6 DEF jwks_free, Owning
<1>7. CASE DestroyPool
  <2>1. CASE cln = "armed"
    BY <1>5, <1>7, <2>1 DEF DestroyPool, Owning
  <2>2. CASE cln # "armed"
    BY <1>7, <2>2 DEF DestroyPool, Owning, Settled, SameKey
  <2>3. QED
    BY <2>1, <2>2
<1>8. CASE UNCHANGED vars
  BY <1>8 DEF vars, Settled, SameKey, Owning
<1>9. QED
  BY <1>1, <1>2, <1>3, <1>4, <1>6, <1>7, <1>8 DEF Next, ParseStep

-----------------------------------------------------------------------------
(* Which entries are counted. *)

\* The curves of the tables, by their RFC 7518 and RFC 8037 names.
LEMMA CurveFacts ==
  /\ \A crv : lookup_ec_curve(crv) # {}
       <=> crv \in {"P-256", "P-384", "P-521", "secp256k1"}
  /\ \A c \in EcCurves :
       \/ c.crv = "P-256" /\ c.len = 32 /\ c.group = "prime256v1"
       \/ c.crv = "P-384" /\ c.len = 48 /\ c.group = "secp384r1"
       \/ c.crv = "P-521" /\ c.len = 66 /\ c.group = "secp521r1"
       \/ c.crv = "secp256k1" /\ c.len = 32 /\ c.group = "secp256k1"
  /\ \A crv : lookup_okp_curve(crv) # {} <=> crv \in {"Ed25519", "Ed448"}
  /\ \A c \in OkpCurves :
       \/ c.crv = "Ed25519" /\ c.len = 32 /\ c.base = "ED25519"
       \/ c.crv = "Ed448" /\ c.len = 57 /\ c.base = "ED448"
  /\ \A group : ec_curve_from_pkey(group) # {}
       <=> group \in {"prime256v1", "secp384r1", "secp521r1", "secp256k1"}
  /\ \A base : okp_curve_from_pkey(base) # {} <=> base \in {"ED25519", "ED448"}
<1>1. \A c \in EcCurves :
        \/ c.crv = "P-256" /\ c.len = 32 /\ c.group = "prime256v1"
        \/ c.crv = "P-384" /\ c.len = 48 /\ c.group = "secp384r1"
        \/ c.crv = "P-521" /\ c.len = 66 /\ c.group = "secp521r1"
        \/ c.crv = "secp256k1" /\ c.len = 32 /\ c.group = "secp256k1"
  BY DEF EcCurves
<1>2. \A c \in OkpCurves :
        \/ c.crv = "Ed25519" /\ c.len = 32 /\ c.base = "ED25519"
        \/ c.crv = "Ed448" /\ c.len = 57 /\ c.base = "ED448"
  BY DEF OkpCurves
<1>3. /\ \E c \in EcCurves : c.crv = "P-256" /\ c.group = "prime256v1"
      /\ \E c \in EcCurves : c.crv = "P-384" /\ c.group = "secp384r1"
      /\ \E c \in EcCurves : c.crv = "P-521" /\ c.group = "secp521r1"
      /\ \E c \in EcCurves : c.crv = "secp256k1" /\ c.group = "secp256k1"
  BY DEF EcCurves
<1>4. /\ \E c \in OkpCurves : c.crv = "Ed25519" /\ c.base = "ED25519"
      /\ \E c \in OkpCurves : c.crv = "Ed448" /\ c.base = "ED448"
  BY DEF OkpCurves
<1>5. \A crv : lookup_ec_curve(crv) # {}
        <=> crv \in {"P-256", "P-384", "P-521", "secp256k1"}
  BY <1>1, <1>3 DEF lookup_ec_curve
<1>6. \A group : ec_curve_from_pkey(group) # {}
        <=> group \in {"prime256v1", "secp384r1", "secp521r1", "secp256k1"}
  BY <1>1, <1>3 DEF ec_curve_from_pkey
<1>7. \A crv : lookup_okp_curve(crv) # {} <=> crv \in {"Ed25519", "Ed448"}
  BY <1>2, <1>4 DEF lookup_okp_curve
<1>8. \A base : okp_curve_from_pkey(base) # {} <=> base \in {"ED25519", "ED448"}
  BY <1>2, <1>4 DEF okp_curve_from_pkey
<1>9. QED
  BY <1>1, <1>2, <1>5, <1>6, <1>7, <1>8

\* An element of "keys" makes a key exactly if it is a usable JWK: the tests that
\* parse_one_key and the parse functions make one after the other
\* (jwks.c:345-760, 895-919) come to this condition.
LEMMA UsableJwkParses ==
  ASSUME NEW e \in Jwk
  PROVE  /\ UsableJwk(e) <=> /\ e.node = "object" /\ ~skipped_early(e)
                             /\ parse_material(e) = "OK"
         /\ parse_material(e) = "OK" => e.kty \in {"RSA", "EC", "OKP", "oct"}
<1>1. /\ e.bits \in Nat /\ e.len \in Nat
      /\ e.fields \in {"ok", "missing", "malformed", "unbuildable"}
  BY DEF Jwk
<1>2. parse_material(e) = "OK"
        <=> /\ supported(e) /\ e.fields = "ok" /\ length_ok(e)
            /\ (e.kty = "RSA" => ~bits_outside(e.bits))
  BY <1>1 DEF parse_material
<1>3. ~bits_outside(e.bits) <=> e.bits \in MinRsaBits..MaxRsaBits
  BY <1>1, KeysetAssumption DEF bits_outside
<1>4. e.kty = "EC" =>
        ((lookup_ec_curve(e.crv) # {} /\ length_ok(e))
         <=> <<e.crv, e.len>> \in {<<"P-256", 32>>, <<"P-384", 48>>, <<"P-521", 66>>,
                                  <<"secp256k1", 32>>})
  <2>1. \A c \in lookup_ec_curve(e.crv) : c \in EcCurves /\ c.crv = e.crv
    BY DEF lookup_ec_curve
  <2>2. QED
    BY <2>1, CurveFacts DEF length_ok
<1>5. e.kty = "OKP" =>
        ((lookup_okp_curve(e.crv) # {} /\ length_ok(e))
         <=> <<e.crv, e.len>> \in {<<"Ed25519", 32>>, <<"Ed448", 57>>})
  <2>1. \A c \in lookup_okp_curve(e.crv) : c \in OkpCurves /\ c.crv = e.crv
    BY DEF lookup_okp_curve
  <2>2. QED
    BY <2>1, CurveFacts DEF length_ok
<1>6. e.kty \notin {"EC", "OKP"} => length_ok(e)
  BY DEF length_ok
<1>7. supported(e) => e.kty \in {"RSA", "EC", "OKP", "oct"} /\ e.kty # Absent
  BY DEF supported, Absent
<1>8. QED
  BY <1>2, <1>3, <1>4, <1>5, <1>6, <1>7 DEF UsableJwk, skipped_early, supported

\* A member of a keyval object makes a key exactly if it is a usable PEM
\* (jwks.c:937-1049, 1130-1160).
LEMMA UsablePemLoads ==
  ASSUME NEW e \in Pem
  PROVE  /\ UsablePem(e) <=> loads(e) /\ pem_supported(e)
         /\ pem_supported(e) => kty_from_pkey(e.base) \in {"RSA", "EC", "OKP"}
<1>1. CASE e.base \in {"RSA", "RSA-PSS"}
  BY <1>1 DEF UsablePem, loads, pem_supported, kty_from_pkey
<1>2. CASE e.base = "EC"
  <2>1. kty_from_pkey(e.base) = "EC" /\ curves_of(e) = ec_curve_from_pkey(e.group)
    BY <1>2 DEF kty_from_pkey, curves_of
  <2>2. QED
    BY <1>2, <2>1, CurveFacts DEF UsablePem, loads, pem_supported
<1>3. CASE e.base \in {"ED25519", "ED448"}
  <2>1. kty_from_pkey(e.base) = "OKP" /\ curves_of(e) = okp_curve_from_pkey(e.base)
    BY <1>3 DEF kty_from_pkey, curves_of
  <2>2. QED
    BY <1>3, <2>1, CurveFacts DEF UsablePem, loads, pem_supported
<1>4. CASE e.base \notin {"RSA", "RSA-PSS", "EC", "ED25519", "ED448"}
  BY <1>4 DEF UsablePem, loads, pem_supported, kty_from_pkey
<1>5. QED
  BY <1>1, <1>2, <1>3, <1>4

\* An entry the parser passes over without losing it to memory or OpenSSL was not
\* wanted.
LEMMA SkippedUnwanted ==
  ASSUME IndInv, [Next]_vars, ~JwkAccepted, ~PemAccepted, i' # i
  PROVE  /\ i' = i + 1 /\ i \in Entries /\ result' = result
         /\ pc = "entry" /\ pc' = "entry"
         /\ i \notin Wanted \/ (doc.form = "keyval" /\ "build" \in faulty')
         /\ faulty \subseteq faulty'
<1>1. /\ Len(doc.entries) \in Nat /\ Entries = 1..Len(doc.entries)
      /\ \A n \in 1..Len(doc.entries) :
           IF doc.form = "jwks" THEN doc.entries[n] \in Jwk ELSE doc.entries[n] \in Pem
  BY DocFacts DEF IndInv, TypeOK, Entries
<1>2. CASE JwkNotObject \/ JwkSkipEarly \/ JwkDeclined
  <2>1. /\ pc = "entry" /\ i <= Len(doc.entries) /\ doc.form = "jwks" /\ i \in Entries
        /\ doc.entries[i] \in Jwk
    BY <1>1, <1>2, NextSlot DEF JwkNotObject, JwkSkipEarly, JwkDeclined, JwkHere
  <2>2. ~UsableJwk(doc.entries[i])
    BY <1>2, <2>1, UsableJwkParses DEF JwkNotObject, JwkSkipEarly, JwkDeclined, JwkHere
  <2>3. NextEntry /\ faulty' = faulty
    BY <1>2 DEF JwkNotObject, JwkSkipEarly, JwkDeclined
  <2>4. QED
    BY <2>1, <2>2, <2>3 DEF NextEntry, Wanted
<1>3. CASE PemSkipped \/ PemUnsupported
  <2>1. /\ pc = "entry" /\ i <= Len(doc.entries) /\ doc.form = "keyval" /\ i \in Entries
        /\ doc.entries[i] \in Pem
    BY <1>1, <1>3, NextSlot DEF PemSkipped, PemUnsupported, PemHere
  <2>2. ~UsablePem(doc.entries[i]) \/ "build" \in faulty'
    <3>1. CASE PemSkipped
      <4>1. PICK f \in SUBSET (Faults \cap {"build"}) :
              (loads(doc.entries[i]) <=> f # {}) /\ faulty' = faulty \cup f
        BY <3>1, <2>1 DEF PemSkipped, PemHere
      <4>2. CASE f = {}
        BY <2>1, <4>1, <4>2, UsablePemLoads
      <4>3. CASE f # {}
        BY <4>1, <4>3
      <4>4. QED
        BY <4>2, <4>3
    <3>2. CASE PemUnsupported
      BY <2>1, <3>2, UsablePemLoads DEF PemUnsupported, PemHere
    <3>3. QED
      BY <1>3, <3>1, <3>2
  <2>3. NextEntry /\ faulty \subseteq faulty'
    BY <1>3 DEF PemSkipped, PemUnsupported
  <2>4. QED
    BY <2>1, <2>2, <2>3 DEF NextEntry, Wanted
<1>4. CASE JwkDupFails \/ JwkError \/ PemDupFails
  BY <1>4 DEF JwkDupFails, JwkError, PemDupFails, Fail
<1>5. CASE RejectShape \/ RejectCount \/ jwks_alloc \/ Finish \/ jwks_free \/ DestroyPool
  BY <1>5 DEF RejectShape, RejectCount, jwks_alloc, Finish, jwks_free, DestroyPool
<1>6. CASE UNCHANGED vars
  BY <1>6 DEF vars
<1>7. QED
  BY <1>2, <1>3, <1>4, <1>5, <1>6 DEF Next, ParseStep

\* The thumbprint RFC 7638 gives a slot, from its key alone.
Canonical(s) ==
  s.thumbprint # NoThumbprint =>
    s.thumbprint = [kty |-> TypeOf(s.mat), id |-> s.mat.id, crv |-> CurveOf(s.mat)]

\* The "crv" of a usable EC or OKP entry is a name, not one of the markers.
LEMMA CurveIsNamed ==
  ASSUME NEW e, UsableJwk(e), e.kty \in {"EC", "OKP"}
  PROVE  Str(e.crv, "pool").v = e.crv
<1>1. e.crv \in {"P-256", "P-384", "P-521", "secp256k1", "Ed25519", "Ed448"}
  BY DEF UsableJwk
<1>2. QED
  BY <1>1 DEF Str, Absent, Empty

\* A slot made of a usable JWK: the text of "crv" is the name of the curve of the
\* handle, so the thumbprint is that of the key.
LEMMA JwkSlotMade ==
  ASSUME NEW e \in Jwk, UsableJwk(e), NEW n \in Nat \ {0}, NEW f,
         doc.form = "jwks"
  PROVE  LET s == Thumbprinted(FilledSlot(e, n), f) IN
         KeySlot(s) /\ Detached(s) /\ Same(s, e) /\ Canonical(s)
<1> DEFINE s == Thumbprinted(FilledSlot(e, n), f)
<1>1. /\ s.kty = e.kty /\ s.mat = built_material(e)
      /\ s.kid = Str(e.kid, "pool") /\ s.alg = Str(e.alg, "pool")
      /\ s.crv = Str(e.crv, "pool")
      /\ s.pkey = (IF e.kty = "oct" THEN 0 ELSE n)
      /\ s.secret = (IF e.kty = "oct" THEN n ELSE 0)
  BY FilledFacts
<1>2. s.thumbprint \in {NoThumbprint,
                        [kty |-> s.kty, crv |-> thumbprint_crv(s), id |-> s.mat.id]}
  <2>1. DOMAIN FilledSlot(e, n) = {"kty", "kid", "alg", "crv", "thumbprint", "mat",
                                   "pkey", "secret"}
    BY DEF FilledSlot, JwkSlot, ZeroSlot
  <2> DEFINE t == FilledSlot(e, n)
  <2>2. /\ s.thumbprint \in {NoThumbprint, jwk_thumbprint(t)}
        /\ s.kty = t.kty /\ s.crv = t.crv /\ s.mat = t.mat
    <3> HIDE DEF t
    <3>1. s = Thumbprinted(t, f)
      BY DEF t
    <3> HIDE DEF s
    <3>2. QED
      BY <2>1, <3>1 DEF Thumbprinted, t
  <2> HIDE DEF s, t
  <2>3. QED
    BY <2>2 DEF jwk_thumbprint, thumbprint_crv
<1> HIDE DEF s
<1>3. e.kty \in {"RSA", "EC", "OKP", "oct"}
  BY DEF UsableJwk
<1>4. s.mat.id = e.id
  BY <1>1, <1>3 DEF built_material
<1>5. thumbprint_crv(s) = CurveOf(s.mat) /\ e.kty = TypeOf(s.mat)
  <2>1. CASE e.kty = "RSA"
    <3>1. s.mat = [base |-> "RSA", group |-> Empty, id |-> e.id]
      BY <1>1, <2>1 DEF built_material
    <3>2. QED
      BY <1>1, <2>1, <3>1 DEF thumbprint_crv, CurveOf, TypeOf
  <2>2. CASE e.kty = "oct"
    <3>1. s.mat = [base |-> "oct", group |-> Empty, id |-> e.id]
      BY <1>1, <2>2 DEF built_material
    <3>2. QED
      BY <1>1, <2>2, <3>1 DEF thumbprint_crv, CurveOf, TypeOf
  <2>3. CASE e.kty = "EC"
    <3>1. e.crv \in {"P-256", "P-384", "P-521", "secp256k1"}
      BY <2>3 DEF UsableJwk
    <3>2. PICK c \in EcCurves : c.crv = e.crv
      BY <3>1, CurveFacts DEF lookup_ec_curve
    <3> DEFINE d == CHOOSE x \in EcCurves : x.crv = e.crv
    <3>3. d \in EcCurves /\ d.crv = e.crv
      BY <3>2
    <3>4. s.mat = [base |-> "EC", id |-> e.id, group |-> d.group]
      BY <1>1, <2>3 DEF built_material
    <3> HIDE DEF d
    <3>5. thumbprint_crv(s) = e.crv
      BY <1>1, <2>3, <3>1 DEF thumbprint_crv, Str, Absent, Empty
    <3>6. CurveOf(s.mat) = d.crv
      BY <3>3, <3>4, CurveFacts DEF CurveOf
    <3>7. TypeOf(s.mat) = "EC"
      BY <3>4 DEF TypeOf
    <3>8. QED
      BY <2>3, <3>3, <3>5, <3>6, <3>7
  <2>4. CASE e.kty = "OKP"
    <3>1. e.crv \in {"Ed25519", "Ed448"}
      BY <2>4 DEF UsableJwk
    <3>2. PICK c \in OkpCurves : c.crv = e.crv
      BY <3>1, CurveFacts DEF lookup_okp_curve
    <3> DEFINE d == CHOOSE x \in OkpCurves : x.crv = e.crv
    <3>3. d \in OkpCurves /\ d.crv = e.crv
      BY <3>2
    <3>4. s.mat = [base |-> d.base, group |-> Empty, id |-> e.id]
      BY <1>1, <2>4 DEF built_material
    <3> HIDE DEF d
    <3>5. thumbprint_crv(s) = e.crv
      BY <1>1, <2>4, <3>1 DEF thumbprint_crv, Str, Absent, Empty
    <3>6. CurveOf(s.mat) = d.crv
      BY <3>3, <3>4, CurveFacts DEF CurveOf
    <3>7. TypeOf(s.mat) = "OKP"
      BY <3>3, <3>4, CurveFacts DEF TypeOf
    <3>8. QED
      BY <2>4, <3>3, <3>5, <3>6, <3>7
  <2>5. QED
    BY <1>3, <2>1, <2>2, <2>3, <2>4
<1>6. Canonical(s)
  BY <1>1, <1>2, <1>5 DEF Canonical
<1>7. e.kty \in {"EC", "OKP"} => CurveOf(s.mat) = e.crv
  BY <1>1, <1>5, CurveIsNamed DEF thumbprint_crv
<1>8. s.mat.base # "RSA-PSS"
  <2>1. CASE e.kty \in {"RSA", "EC", "oct"}
    BY <1>1, <2>1 DEF built_material
  <2>2. CASE e.kty = "OKP"
    BY <1>1, <1>5, <2>2 DEF TypeOf
  <2>3. QED
    BY <1>3, <2>1, <2>2
<1>9. KeySlot(s) /\ Detached(s)
  BY <1>1, <1>3 DEF KeySlot, Detached, Str
<1>10. Same(s, e)
  BY <1>1, <1>4, <1>7, <1>5, <1>8 DEF Same
<1>11. QED
  BY <1>6, <1>9, <1>10 DEF s

\* A slot made of a usable PEM over a cleared one: "crv" comes from the tables, by
\* the group or the type of the loaded key.
LEMMA PemSlotMade ==
  ASSUME NEW e \in Pem, UsablePem(e), NEW n \in Nat \ {0}, NEW f,
         doc.form = "keyval"
  PROVE  LET s == Thumbprinted(PemSlot(ZeroSlot, e, "pool", n), f) IN
         KeySlot(s) /\ Detached(s) /\ Same(s, e) /\ Canonical(s)
<1> DEFINE s == Thumbprinted(PemSlot(ZeroSlot, e, "pool", n), f)
<1>1. /\ s.kty = kty_from_pkey(e.base) /\ s.kid = Str(e.kid, "pool")
      /\ s.alg = Str(Empty, "null")
      /\ s.mat = [base |-> e.base, group |-> e.group, id |-> e.id]
      /\ s.crv = IF kty_from_pkey(e.base) \in {"EC", "OKP"}
                 THEN Str(PemCurve(e), "static") ELSE Str(Empty, "null")
  BY PemKeyFacts
<1>2. s.pkey = n /\ s.secret = 0
  BY PemFacts
<1>3. s.thumbprint \in {NoThumbprint,
                        [kty |-> s.kty, crv |-> thumbprint_crv(s), id |-> s.mat.id]}
  <2> DEFINE t == PemSlot(ZeroSlot, e, "pool", n)
  <2>1. Shaped(t)
    BY PemFacts
  <2>2. s = Thumbprinted(t, f)
    OBVIOUS
  <2> HIDE DEF s, t
  <2>3. /\ s.thumbprint \in {NoThumbprint, jwk_thumbprint(t)}
        /\ s.kty = t.kty /\ s.crv = t.crv /\ s.mat = t.mat
    BY <2>1, <2>2 DEF Thumbprinted, Shaped
  <2>4. QED
    BY <2>3 DEF jwk_thumbprint, thumbprint_crv
<1> HIDE DEF s
<1>4. kty_from_pkey(e.base) \in {"RSA", "EC", "OKP"} /\ e.kid # Empty
  BY UsablePemLoads DEF loads
<1>5. KeySlot(s) /\ Detached(s)
  BY <1>1, <1>2, <1>4 DEF KeySlot, Detached, Str
<1>6. thumbprint_crv(s) = CurveOf(s.mat) /\ s.kty = TypeOf(s.mat)
  <2>1. CASE e.base \in {"RSA", "RSA-PSS"}
    <3>1. s.kty = "RSA" /\ s.mat.base \in {"RSA", "RSA-PSS"}
      BY <1>1, <2>1 DEF kty_from_pkey
    <3>2. QED
      BY <3>1 DEF thumbprint_crv, CurveOf, TypeOf
  <2>2. CASE e.base = "EC"
    <3>1. kty_from_pkey(e.base) = "EC" /\ curves_of(e) = ec_curve_from_pkey(e.group)
      BY <2>2 DEF kty_from_pkey, curves_of
    <3>2. curves_of(e) # {}
      BY <2>2, <3>1, CurveFacts DEF UsablePem
    <3> DEFINE d == CHOOSE c \in curves_of(e) : TRUE
    <3>3. d \in curves_of(e)
      BY <3>2
    <3>4. PemCurve(e) = d.crv
      BY DEF PemCurve
    <3> HIDE DEF d
    <3>5. d \in EcCurves /\ d.group = e.group
      BY <3>1, <3>3 DEF ec_curve_from_pkey
    <3>6. thumbprint_crv(s) = d.crv
      BY <1>1, <3>1, <3>4, <3>5, CurveFacts DEF thumbprint_crv, Str, Absent, Empty
    <3>7. CurveOf(s.mat) = d.crv /\ TypeOf(s.mat) = "EC"
      BY <1>1, <2>2, <3>5, CurveFacts DEF CurveOf, TypeOf
    <3>8. QED
      BY <1>1, <3>1, <3>6, <3>7
  <2>3. CASE e.base \in {"ED25519", "ED448"}
    <3>1. kty_from_pkey(e.base) = "OKP" /\ curves_of(e) = okp_curve_from_pkey(e.base)
      BY <2>3 DEF kty_from_pkey, curves_of
    <3>2. curves_of(e) # {}
      BY <2>3, <3>1, CurveFacts
    <3> DEFINE d == CHOOSE c \in curves_of(e) : TRUE
    <3>3. d \in curves_of(e)
      BY <3>2
    <3>4. PemCurve(e) = d.crv
      BY DEF PemCurve
    <3> HIDE DEF d
    <3>5. d \in OkpCurves /\ d.base = e.base
      BY <3>1, <3>3 DEF okp_curve_from_pkey
    <3>6. thumbprint_crv(s) = d.crv
      BY <1>1, <3>1, <3>4, <3>5, CurveFacts DEF thumbprint_crv, Str, Absent, Empty
    <3>7. CurveOf(s.mat) = d.crv /\ TypeOf(s.mat) = "OKP"
      BY <1>1, <2>3, <3>5, CurveFacts DEF CurveOf, TypeOf
    <3>8. QED
      BY <1>1, <3>1, <3>6, <3>7
  <2>4. QED
    BY <2>1, <2>2, <2>3 DEF UsablePem
<1>7. Canonical(s)
  BY <1>3, <1>6 DEF Canonical
<1>8. Same(s, e)
  BY <1>1, <1>6 DEF Same, Str
<1>9. QED
  BY <1>5, <1>7, <1>8 DEF s

\* A counted entry is a wanted one, and its slot is that of its key.
LEMMA AcceptedWanted ==
  ASSUME IndInv, JwkAccepted \/ PemAccepted
  PROVE  /\ i \in Wanted
         /\ \E s : /\ Kept(s) /\ KeySlot(s) /\ Detached(s) /\ Canonical(s)
                   /\ Same(s, doc.entries[i])
<1>1. pc = "entry" /\ i <= Len(doc.entries)
  BY AcceptedKept
<1>2. i \in Entries /\ i \in Nat \ {0} /\ doc.form \in {"jwks", "keyval"}
      /\ IF doc.form = "jwks" THEN doc.entries[i] \in Jwk ELSE doc.entries[i] \in Pem
  BY <1>1, NextSlot, DocFacts DEF IndInv, TypeOK, Entries
<1>3. CASE doc.form = "jwks"
  <2>1. PICK f : Kept(Thumbprinted(FilledSlot(doc.entries[i], i), f))
    BY <1>3, AcceptedKept
  <2>2. UsableJwk(doc.entries[i])
    BY <1>2, <1>3, AcceptedKept, UsableJwkParses
  <2> DEFINE s == Thumbprinted(FilledSlot(doc.entries[i], i), f)
  <2>3. KeySlot(s) /\ Detached(s) /\ Same(s, doc.entries[i]) /\ Canonical(s)
    BY <1>2, <1>3, <2>2, JwkSlotMade
  <2> HIDE DEF s
  <2>4. Kept(s)
    BY <2>1 DEF s
  <2>5. QED
    BY <1>2, <1>3, <2>2, <2>3, <2>4 DEF Wanted, Entries
<1>4. CASE doc.form = "keyval"
  <2>1. PICK f : Kept(Thumbprinted(PemSlot(ZeroSlot, doc.entries[i], "pool", i), f))
    BY <1>4, AcceptedKept
  <2>2. UsablePem(doc.entries[i])
    BY <1>2, <1>4, AcceptedKept, UsablePemLoads
  <2> DEFINE s == Thumbprinted(PemSlot(ZeroSlot, doc.entries[i], "pool", i), f)
  <2>3. KeySlot(s) /\ Detached(s) /\ Same(s, doc.entries[i]) /\ Canonical(s)
    BY <1>2, <1>4, <2>2, PemSlotMade
  <2> HIDE DEF s
  <2>4. Kept(s)
    BY <2>1 DEF s
  <2>5. QED
    BY <1>2, <1>4, <2>2, <2>3, <2>4 DEF Wanted, Entries
<1>5. QED
  BY <1>2, <1>3, <1>4

\* Counting an entry adds its slot behind the others.
LEMMA CountedGrows ==
  ASSUME IndInv, JwkAccepted \/ PemAccepted, NEW s, Kept(s)
  PROVE  /\ nkeys \in Nat /\ nkeys' = nkeys + 1
         /\ Counted' = Counted \cup {nkeys + 1} /\ nkeys + 1 \notin Counted
         /\ slots'[nkeys + 1] = s /\ \A r \in Counted : slots'[r] = slots[r]
<1>1. /\ nkeys + 1 \in DOMAIN slots /\ nkeys + 1 \notin Counted /\ nkeys \in Nat
      /\ Counted \subseteq DOMAIN slots
  BY AcceptedKept, NextSlot DEF IndInv, SlotsInv
<1>2. nkeys' = nkeys + 1 /\ slots' = [slots EXCEPT ![nkeys + 1] = s]
  BY DEF Kept, PutSlot
<1>3. QED
  BY <1>1, <1>2 DEF Counted

\* The counted slots are keys, with strings of their own, and canonical thumbprints.
LEMMA KeysInductive ==
  ASSUME IndInv, KeysInv, ThumbprintCanonical, [Next]_vars
  PROVE  KeysInv' /\ ThumbprintCanonical'
<1>1. \A s \in Counted : Detached(slots[s]) /\ Canonical(slots[s])
  BY DEF KeysInv, ThumbprintCanonical, Canonical, Detached
<1>2. CASE JwkAccepted \/ PemAccepted
  <2>1. PICK s : Kept(s) /\ KeySlot(s) /\ Detached(s) /\ Canonical(s)
    BY <1>2, AcceptedWanted
  <2>2. /\ Counted' = Counted \cup {nkeys + 1}
        /\ slots'[nkeys + 1] = s /\ \A r \in Counted : slots'[r] = slots[r]
    BY <1>2, <2>1, CountedGrows
  <2>3. Owning' => Owning
    BY <1>2, AcceptedKept DEF NextEntry, Owning
  <2>4. \A r \in Counted' : /\ Detached(slots'[r]) /\ Canonical(slots'[r])
                            /\ Owning' => KeySlot(slots'[r])
    BY <1>1, <2>1, <2>2, <2>3 DEF KeysInv
  <2>5. QED
    BY <2>4 DEF KeysInv, ThumbprintCanonical, Detached, Canonical
<1>3. CASE ~JwkAccepted /\ ~PemAccepted
  <2>1. Settled
    BY <1>3, StepSettles
  <2>2. Counted' = Counted
    BY <2>1 DEF Settled, Counted
  <2>3. \A s \in Counted : /\ Detached(slots'[s]) /\ Canonical(slots'[s])
                           /\ Owning' => KeySlot(slots'[s])
    BY <1>1, <2>1 DEF Settled, SameKey, Detached, Canonical, KeysInv
  <2>4. QED
    BY <2>2, <2>3 DEF KeysInv, ThumbprintCanonical, Detached, Canonical
<1>4. QED
  BY <1>2, <1>3

-----------------------------------------------------------------------------
(* The keyset is its document, filtered. *)

\* One more entry passed: it is among the wanted ones or changes nothing.
LEMMA PassedGrows ==
  ASSUME IndInv, i \in Entries
  PROVE  /\ IsFiniteSet(Passed(i)) /\ Cardinality(Passed(i)) \in Nat
         /\ i \in Wanted => /\ Passed(i + 1) = Passed(i) \cup {i}
                            /\ Cardinality(Passed(i + 1)) = Cardinality(Passed(i)) + 1
         /\ i \notin Wanted => Passed(i + 1) = Passed(i)
         /\ Passed(i) \subseteq Passed(i + 1)
<1>1. /\ Len(doc.entries) \in Nat /\ Entries = 1..Len(doc.entries)
  BY DocFacts DEF IndInv, TypeOK, Entries
<1>2. Wanted \subseteq 1..Len(doc.entries)
  BY <1>1 DEF Wanted, Entries
<1>3. IsFiniteSet(Passed(i))
  <2>1. IsFiniteSet(1..Len(doc.entries))
    BY <1>1, FS_Interval
  <2>2. Passed(i) \in SUBSET (1..Len(doc.entries))
    BY <1>2 DEF Passed
  <2>3. QED
    BY <2>1, <2>2, FS_Subset
<1>4. Cardinality(Passed(i)) \in Nat
  BY <1>3, FS_CardinalityType
<1>5. i \notin Passed(i)
  BY <1>1 DEF Passed
<1>6. /\ i \in Wanted => Passed(i + 1) = Passed(i) \cup {i}
      /\ i \notin Wanted => Passed(i + 1) = Passed(i)
      /\ Passed(i) \subseteq Passed(i + 1)
  <2>1. \A m \in Wanted : m < i + 1 <=> m < i \/ m = i
    BY <1>1, <1>2
  <2>2. \A m : m \in Passed(i + 1) <=> m \in Wanted /\ (m < i \/ m = i)
    BY <2>1 DEF Passed
  <2>3. \A m : m \in Passed(i) <=> m \in Wanted /\ m < i
    BY DEF Passed
  <2>4. QED
    BY <2>2, <2>3
<1>7. Cardinality(Passed(i) \cup {i}) = Cardinality(Passed(i)) + 1
  BY <1>3, <1>5, FS_AddElement
<1>8. QED
  BY <1>3, <1>4, <1>6, <1>7

\* The failures that happened are not forgotten, and a document given up is not
\* taken up again.
LEMMA History ==
  ASSUME IndInv, [Next]_vars
  PROVE  /\ faulty \subseteq faulty' /\ doc' = doc
         /\ pc' # "done" \/ result' \in {"keyset", "freed"}
              => pc # "done" \/ result \in {"keyset", "freed"}
<1>1. faulty \subseteq faulty' /\ doc' = doc
  BY DEF Next, ParseStep, RejectShape, RejectCount, jwks_alloc, JwkNotObject, JwkSkipEarly,
     JwkDupFails, JwkDeclined, JwkError, JwkAccepted, PemSkipped, PemUnsupported,
     PemDupFails, PemAccepted, Finish, jwks_free, DestroyPool, NextEntry, Fail, built, vars
<1>2. CASE pc # "done"
  BY <1>1, <1>2
<1>3. CASE pc = "done"
  <2>1. jwks_free \/ DestroyPool \/ UNCHANGED vars
    BY <1>3 DEF Next, ParseStep, RejectShape, RejectCount, jwks_alloc, JwkNotObject,
       JwkSkipEarly, JwkDupFails, JwkDeclined, JwkError, JwkAccepted, PemSkipped,
       PemUnsupported, PemDupFails, PemAccepted, Finish, JwkHere, PemHere
  <2>2. QED
    BY <1>1, <1>3, <2>1 DEF jwks_free, DestroyPool, vars
<1>4. QED
  BY <1>2, <1>3

\* The counted slots stay the wanted entries passed, in order.
LEMMA FilterInductive ==
  ASSUME IndInv, FilterInv, [Next]_vars
  PROVE  FilterInv'
<1> SUFFICES ASSUME pc' # "done" \/ result' \in {"keyset", "freed"}
             PROVE  /\ \E place \in [Counted' -> Passed(i')] :
                         \A s \in Counted' :
                           /\ Same(slots'[s], doc.entries[place[s]])
                           /\ \A r \in 1..(s - 1) : place[r] < place[s]
                    /\ doc.form = "jwks" \/ "build" \notin faulty'
                         => nkeys' = Cardinality(Passed(i'))
  <2>1. doc' = doc
    BY History
  <2>2. \A n : Passed(n)' = Passed(n)
    BY <2>1 DEF Passed, Wanted
  <2>3. \A s, e : Same(s, e)' <=> Same(s, e)
    BY <2>1 DEF Same
  <2>4. QED
    BY <2>1, <2>2, <2>3 DEF FilterInv, Placed, Passed
<1>1. /\ faulty \subseteq faulty'
      /\ pc # "done" \/ result \in {"keyset", "freed"}
  BY History
<1>2. PICK place \in [Counted -> Passed(i)] : Placed(place)
  BY <1>1 DEF FilterInv
<1>3. doc.form = "jwks" \/ "build" \notin faulty' => nkeys = Cardinality(Passed(i))
  BY <1>1 DEF FilterInv
<1>4. CASE JwkAccepted \/ PemAccepted
  <2>1. PICK s : Kept(s) /\ Same(s, doc.entries[i])
    BY <1>4, AcceptedWanted
  <2>2. /\ nkeys \in Nat /\ nkeys' = nkeys + 1
        /\ Counted' = Counted \cup {nkeys + 1} /\ nkeys + 1 \notin Counted
        /\ slots'[nkeys + 1] = s /\ \A r \in Counted : slots'[r] = slots[r]
    BY <1>4, <2>1, CountedGrows
  <2>3. i \in Entries /\ i \in Wanted /\ i' = i + 1 /\ i \in Nat
    BY <1>4, AcceptedKept, AcceptedWanted, NextSlot DEF NextEntry
  <2>4. /\ Passed(i') = Passed(i) \cup {i}
        /\ Cardinality(Passed(i')) = Cardinality(Passed(i)) + 1
        /\ \A m \in Passed(i) : m < i
    BY <2>3, PassedGrows DEF Passed
  <2> DEFINE longer == [r \in Counted' |-> IF r = nkeys + 1 THEN i ELSE place[r]]
  <2>5. longer \in [Counted' -> Passed(i')]
    BY <2>2, <2>4
  <2>6. /\ longer[nkeys + 1] = i /\ \A r \in Counted : longer[r] = place[r]
    BY <2>2
  <2> HIDE DEF longer
  <2>7. ASSUME NEW r \in Counted'
        PROVE  /\ Same(slots'[r], doc.entries[longer[r]])
               /\ \A q \in 1..(r - 1) : longer[q] < longer[r]
    <3>1. CASE r = nkeys + 1
      <4>1. \A q \in 1..(r - 1) : q \in Counted /\ place[q] \in Passed(i)
        BY <2>2, <3>1 DEF Counted
      <4>2. QED
        BY <2>1, <2>2, <2>4, <2>6, <3>1, <4>1
    <3>2. CASE r # nkeys + 1
      <4>1. r \in Counted /\ \A q \in 1..(r - 1) : q \in Counted
        BY <2>2, <3>2 DEF Counted
      <4>2. QED
        BY <1>2, <2>2, <2>6, <4>1 DEF Placed
    <3>3. QED
      BY <3>1, <3>2
  <2>8. QED
    BY <1>3, <2>2, <2>4, <2>5, <2>7
<1>5. CASE ~JwkAccepted /\ ~PemAccepted
  <2>1. Settled /\ Counted' = Counted /\ nkeys' = nkeys
    BY <1>5, StepSettles DEF Settled, Counted
  <2>2. \A s \in Counted : /\ Same(slots'[s], doc.entries[place[s]])
                           /\ \A r \in 1..(s - 1) : place[r] < place[s]
    BY <1>2, <2>1 DEF Placed, Settled, SameKey, Same
  <2>3. CASE i' = i
    BY <1>2, <1>3, <2>1, <2>2, <2>3
  <2>4. CASE i' # i
    <3>1. /\ i' = i + 1 /\ i \in Entries
          /\ i \notin Wanted \/ (doc.form = "keyval" /\ "build" \in faulty')
      BY <1>5, <2>4, SkippedUnwanted
    <3>2. /\ Passed(i) \subseteq Passed(i')
          /\ i \notin Wanted => Passed(i') = Passed(i)
      BY <3>1, PassedGrows
    <3>3. place \in [Counted' -> Passed(i')]
      BY <1>2, <2>1, <3>2
    <3>4. QED
      BY <1>3, <2>1, <2>2, <3>1, <3>2, <3>3
  <2>5. QED
    BY <2>3, <2>4
<1>6. QED
  BY <1>4, <1>5

-----------------------------------------------------------------------------
(* The invariants of every behaviour. *)

\* At the start nothing is counted and nothing is passed.
LEMMA InitFilterInv == Init => KeysInv /\ ThumbprintCanonical /\ FilterInv
<1> SUFFICES ASSUME Init PROVE KeysInv /\ ThumbprintCanonical /\ FilterInv
  OBVIOUS
<1>1. Counted = {} /\ nkeys = 0 /\ i = 1
  BY DEF Init, Counted
<1>2. Passed(i) = {}
  <2>1. DOMAIN doc.entries = 1..Len(doc.entries) /\ Len(doc.entries) \in Nat
    BY InitIndInv, DocFacts DEF IndInv, TypeOK
  <2>2. QED
    BY <1>1, <2>1 DEF Passed, Wanted
<1>3. nkeys = Cardinality(Passed(i))
  BY <1>1, <1>2, FS_EmptySet
<1>4. [s \in {} |-> 0] \in [Counted -> Passed(i)]
  BY <1>1
<1>5. \E place \in [Counted -> Passed(i)] : Placed(place)
  BY <1>1, <1>4 DEF Placed
<1>6. QED
  BY <1>1, <1>3, <1>5 DEF KeysInv, ThumbprintCanonical, FilterInv

\* All the parts of the invariant, together.
LEMMA Invariant == Spec => [](IndInv /\ KeysInv /\ ThumbprintCanonical /\ FilterInv)
<1>1. Init => IndInv /\ KeysInv /\ ThumbprintCanonical /\ FilterInv
  BY InitIndInv, InitFilterInv
<1>2. IndInv /\ KeysInv /\ ThumbprintCanonical /\ FilterInv /\ [Next]_vars
        => (IndInv /\ KeysInv /\ ThumbprintCanonical /\ FilterInv)'
  BY InductiveStep, KeysInductive, FilterInductive
<1>3. QED
  BY <1>1, <1>2, PTL DEF Spec

-----------------------------------------------------------------------------
(* The results. *)

\* The slots, the ownership states, the cleanup and the results keep their types,
\* for every document and every limit.
THEOREM TypeCorrect == Spec => []TypeOK
<1>1. IndInv => TypeOK
  BY DEF IndInv
<1>2. QED
  BY <1>1, Invariant, PTL

\* Whatever entry fails and however release is requested, a handle or secret is
\* live exactly while one counted slot holds it, and nothing is freed twice
\* (jwks.c:1188-1234, 213-267).
THEOREM EveryHandleOwnedAlways == Spec => []EveryHandleOwned
<1>1. IndInv => EveryHandleOwned
  BY DEF IndInv
<1>2. QED
  BY <1>1, Invariant, PTL

\* What is live has an owner, and what has an owner is in reach of the cleanup.
LEMMA LiveIsArmed == IndInv => LiveMeansArmed
<1> SUFFICES ASSUME IndInv, NEW n \in Entries, pkeys[n] = "live" \/ secrets[n] = "live"
             PROVE  cln = "armed" /\ pool = "live"
  BY DEF LiveMeansArmed, Entries
<1>1. n # 0
  BY DocFacts DEF IndInv, TypeOK, Entries
<1>2. \E s \in Counted : slots[s].pkey = n \/ slots[s].secret = n
  BY DEF IndInv, EveryHandleOwned, Holders, SecretHolders, Entries
<1>3. QED
  BY <1>1, <1>2 DEF IndInv, OwnInv, Owning

\* Live key material is in reach of an armed cleanup of a pool that exists
\* (jwks.c:914-917, 1229-1234).
THEOREM LiveMeansArmedAlways == Spec => []LiveMeansArmed
BY LiveIsArmed, Invariant, PTL

\* No slot of a keyset that is handed out has a string in the JSON, which is freed
\* on every way out (jwks.c:777-787, 1228-1234).
THEOREM NoDanglingViewsAlways == Spec => []NoDanglingViews
<1>1. IndInv /\ KeysInv => NoDanglingViews
  BY DEF IndInv, StageInv, KeysInv, Detached, NoDanglingViews
<1>2. QED
  BY <1>1, Invariant, PTL

\* The slot an entry is written to is inside the array (jwks.c:895, 911, 1168).
THEOREM SlotInBoundsAlways == Spec => []SlotInBounds
<1>1. IndInv => SlotInBounds
  BY NextSlot DEF SlotInBounds
<1>2. QED
  BY <1>1, Invariant, PTL

\* A key handed out can verify: a live handle for a public key, a secret for an
\* oct key, never both (jwks.c:516-536, 1201-1226).
THEOREM UsableKeysAlways == Spec => []UsableKeys
<1>1. IndInv /\ KeysInv => UsableKeys
  <2> SUFFICES ASSUME IndInv, KeysInv, result = "keyset", pool = "live",
                      NEW s \in Counted
               PROVE  IF slots[s].kty = "oct"
                      THEN slots[s].pkey = 0 /\ slots[s].secret # 0
                      ELSE slots[s].kty \in {"RSA", "EC", "OKP"} /\ slots[s].secret = 0
                           /\ pkeys[slots[s].pkey] = "live"
    BY DEF UsableKeys
  <2>1. Owning
    BY DEF IndInv, StageInv, Owning
  <2>2. KeySlot(slots[s])
    BY <2>1 DEF KeysInv
  <2>3. slots[s].pkey # 0 => pkeys[slots[s].pkey] = "live"
    <3> SUFFICES ASSUME slots[s].pkey # 0 PROVE pkeys[slots[s].pkey] = "live"
      OBVIOUS
    <3>1. slots[s].pkey \in Entries
      BY DocFacts DEF IndInv, TypeOK, SlotsInv, Entries
    <3>2. s \in Holders(slots[s].pkey)
      BY DEF Holders
    <3>3. QED
      BY <3>1, <3>2 DEF IndInv, EveryHandleOwned, Entries
  <2>4. QED
    BY <2>2, <2>3 DEF KeySlot
<1>2. QED
  BY <1>1, Invariant, PTL

\* When the parser has returned a keyset, every entry has been passed.
LEMMA AllPassed ==
  ASSUME IndInv, FilterInv, result = "keyset"
  PROVE  /\ InOrder
         /\ doc.form = "jwks" \/ "build" \notin faulty => nkeys = Cardinality(Wanted)
<1>1. i = Len(doc.entries) + 1 /\ Entries = 1..Len(doc.entries)
      /\ Len(doc.entries) \in Nat
  BY DocFacts DEF IndInv, StageInv, TypeOK, Entries
<1>2. Passed(i) = Wanted
  BY <1>1 DEF Passed, Wanted, Entries
<1>3. QED
  BY <1>2 DEF FilterInv, InOrder, Placed

\* Every counted slot is that of a wanted entry; and where no key was lost every wanted
\* entry has a slot: the places are as many as the entries, and no two slots have the same.
LEMMA SlotsAreWanted ==
  ASSUME IndInv, FilterInv, result = "keyset"
  PROVE  /\ nkeys \in Nat
         /\ \A s \in 1..nkeys : \E n \in Wanted : Same(slots[s], doc.entries[n])
         /\ doc.form = "jwks" \/ "build" \notin faulty =>
              \A n \in Wanted : \E s \in 1..nkeys : Same(slots[s], doc.entries[n])
<1>1. /\ InOrder
      /\ doc.form = "jwks" \/ "build" \notin faulty => nkeys = Cardinality(Wanted)
  BY AllPassed
<1>2. /\ Len(doc.entries) \in Nat /\ DOMAIN doc.entries = 1..Len(doc.entries)
      /\ nkeys \in Nat /\ Wanted \subseteq 1..Len(doc.entries) /\ Wanted \subseteq Nat
  BY DocFacts DEF IndInv, TypeOK, Wanted
<1>3. IsFiniteSet(Wanted)
  <2>1. IsFiniteSet(1..Len(doc.entries))
    BY <1>2, FS_Interval
  <2>2. QED
    BY <1>2, <2>1, FS_Subset
<1>4. PICK place \in [1..nkeys -> Wanted] :
        \A s \in 1..nkeys : /\ Same(slots[s], doc.entries[place[s]])
                            /\ \A r \in 1..(s - 1) : place[r] < place[s]
  BY <1>1 DEF InOrder, Counted
<1>5. \A s, r \in 1..nkeys : place[s] = place[r] => s = r
  <2>1. ASSUME NEW s \in 1..nkeys, NEW r \in 1..nkeys, r < s PROVE place[r] # place[s]
    <3>1. r \in 1..(s - 1)
      BY <1>2, <2>1
    <3>2. place[r] \in Wanted /\ place[s] \in Wanted
      OBVIOUS
    <3>3. place[r] \in Nat /\ place[s] \in Nat
      BY <1>2, <3>2, Zenon
    <3>4. place[r] < place[s]
      BY <1>4, <3>1
    <3>5. QED
      BY <3>3, <3>4
  <2>2. QED
    BY <1>2, <2>1
<1>6. place \in Injection(1..nkeys, Wanted)
  BY <1>5 DEF Injection, IsInjective
<1>7. nkeys = Cardinality(Wanted) => \A n \in Wanted : \E s \in 1..nkeys : place[s] = n
  <2> SUFFICES ASSUME nkeys = Cardinality(Wanted)
               PROVE  place \in Surjection(1..nkeys, Wanted)
    BY DEF Surjection
  <2>1. Cardinality(1..nkeys) = nkeys
    BY <1>2, FS_Interval
  <2>2. QED
    BY <1>3, <1>6, <2>1, FS_Injection
<1>8. QED
  BY <1>1, <1>2, <1>4, <1>7

\* A keyset is the usable entries of its document, all of them, in document order,
\* each with its own metadata (jwks.c:736, 900-919, 1130-1242).
THEOREM KeysetIsFilterAlways == Spec => []KeysetIsFilter
<1>1. IndInv /\ FilterInv => KeysetIsFilter
  BY AllPassed DEF KeysetIsFilter
<1>2. QED
  BY <1>1, Invariant, PTL

\* Memory or OpenSSL failing on a key of a JWKS never makes a smaller keyset; a
\* keyval document may lose keys and gains, swaps or mixes up none (jwks.c:525-529,
\* 945).
THEOREM NoSilentLossAlways == Spec => []NoSilentLoss
<1>1. IndInv /\ FilterInv => NoSilentLoss
  BY AllPassed DEF NoSilentLoss
<1>2. QED
  BY <1>1, Invariant, PTL

\* The thumbprint of a key depends on the key alone, whether it was read from a
\* JWK or from a PEM (jwks.c:982-1049, thumbprint.c).
THEOREM ThumbprintCanonicalAlways == Spec => []ThumbprintCanonical
BY Invariant, PTL

\* A handle, a secret or the document is not live again once given back, and does
\* not disappear while it is live.
LEMMA GivenBackOnce ==
  ASSUME IndInv, [Next]_vars
  PROVE  /\ \A n \in Entries :
              /\ pkeys'[n] = pkeys[n] \/ pkeys[n] = "none"
                 \/ (pkeys[n] = "live" /\ pkeys'[n] = "freed")
              /\ secrets'[n] = secrets[n] \/ secrets[n] = "none"
                 \/ (secrets[n] = "live" /\ secrets'[n] = "cleansed")
         /\ root' = root \/ root = "none" \/ (root = "live" /\ root' = "freed")
         /\ ~DestroyPool /\ pool # "live" => UNCHANGED vars
         /\ ~DestroyPool => pool' = pool
<1>1. pc # "done" => pool = "live" /\ root \in {"none", "live"}
  BY DEF IndInv, StageInv, TypeOK
<1>2. CASE RejectShape \/ RejectCount \/ jwks_alloc
  BY <1>1, <1>2 DEF RejectShape, RejectCount, jwks_alloc, built, IndInv, StageInv
<1>3. CASE \/ JwkNotObject \/ JwkSkipEarly \/ JwkDupFails \/ JwkDeclined \/ JwkError
           \/ PemSkipped \/ PemUnsupported \/ PemDupFails
  <2>1. /\ pc = "entry" /\ i \in Entries /\ NotKept /\ (GoesOn \/ GivesUp)
    BY <1>3, JwkNotKept, PemNotKept, NextSlot
  <2>2. pkeys[i] = "none"
    BY <1>1, <2>1 DEF IndInv, MadeInv, TypeOK, Entries
  <2>3. \A n \in Entries : pkeys'[n] = pkeys[n] \/ n = i
    BY <2>1 DEF NotKept, IndInv, TypeOK, Entries
  <2>4. /\ root' = root \/ (root = "live" /\ root' = "freed")
        /\ secrets' = secrets /\ pool' = pool /\ pool = "live"
    BY <1>1, <2>1 DEF NotKept, GoesOn, GivesUp, NextEntry, json_free, IndInv, StageInv
  <2>5. QED
    BY <2>2, <2>3, <2>4
<1>4. CASE JwkAccepted \/ PemAccepted
  <2>1. /\ pc = "entry" /\ i \in Entries /\ NextEntry /\ \E s : Kept(s)
    BY <1>4, AcceptedKept, NextSlot
  <2>2. pkeys[i] = "none" /\ secrets[i] = "none"
    BY <1>1, <2>1 DEF IndInv, MadeInv, TypeOK, Entries
  <2>3. \A n \in Entries : n # i => pkeys'[n] = pkeys[n] /\ secrets'[n] = secrets[n]
    BY <2>1 DEF Kept, IndInv, TypeOK, Entries
  <2>4. root' = root /\ pool' = pool /\ pool = "live"
    BY <1>1, <2>1 DEF NextEntry
  <2>5. QED
    BY <2>2, <2>3, <2>4
<1>5. CASE Finish
  BY <1>1, <1>5 DEF Finish, built, json_free, IndInv, StageInv
<1>6. CASE jwks_free
  <2>1. cleanup /\ root' = root /\ pool' = pool /\ pool = "live"
    BY <1>6 DEF jwks_free
  <2>2. QED
    BY <2>1, CleanupFrees
<1>7. CASE DestroyPool
  <2>1. root' = root
    BY <1>7 DEF DestroyPool
  <2>2. CASE cln = "armed"
    BY <1>7, <2>1, <2>2, CleanupFrees DEF DestroyPool
  <2>3. CASE cln # "armed"
    BY <1>7, <2>1, <2>3 DEF DestroyPool
  <2>4. QED
    BY <1>7, <2>2, <2>3
<1>8. CASE UNCHANGED vars
  BY <1>8 DEF vars
<1>9. QED
  BY <1>2, <1>3, <1>4, <1>5, <1>6, <1>7, <1>8 DEF Next, ParseStep

\* The keyset keeps the promise of Custody for its document, handles and secrets:
\* every step gives back what it does not keep, and the end of the pool gives back
\* the rest.
THEOREM CustodyKept == Spec => KeepsCustody
<1> DEFINE Live == {n \in DOMAIN doc.entries : pkeys[n] = "live" \/ secrets[n] = "live"}
           Given == {n \in DOMAIN doc.entries :
                       pkeys[n] = "freed" \/ secrets[n] = "cleansed"}
           Held == Live \cup {0 : x \in {root} \cap {"live"}}
           Spent == Given \cup {0 : x \in {root} \cap {"freed"}}
<1>1. Init => Pool!Init
  BY DEF Init, Pool!Init
<1>2. IndInv /\ IndInv' /\ LiveMeansArmed' /\ [Next]_vars
        => [Pool!Next]_<<Held, Spent, pool = "live">>
  <2> SUFFICES ASSUME IndInv, IndInv', LiveMeansArmed', [Next]_vars
               PROVE  [Pool!Next]_<<Held, Spent, pool = "live">>
    OBVIOUS
  <2>1. /\ doc' = doc /\ Entries = 1..Len(doc.entries) /\ Len(doc.entries) \in Nat
    BY History, DocFacts DEF IndInv, TypeOK, Entries
  <2>2. /\ Held = Live \cup IF root = "live" THEN {0} ELSE {}
        /\ Spent = Given \cup IF root = "freed" THEN {0} ELSE {}
        /\ Held' = Live' \cup IF root' = "live" THEN {0} ELSE {}
        /\ Spent' = Given' \cup IF root' = "freed" THEN {0} ELSE {}
    OBVIOUS
  <2>3. /\ \A n : n \in Live
                    <=> n \in Entries /\ (pkeys[n] = "live" \/ secrets[n] = "live")
        /\ \A n : n \in Given
             <=> n \in Entries /\ (pkeys[n] = "freed" \/ secrets[n] = "cleansed")
        /\ \A n : n \in Live'
                    <=> n \in Entries /\ (pkeys'[n] = "live" \/ secrets'[n] = "live")
        /\ \A n : n \in Given'
             <=> n \in Entries /\ (pkeys'[n] = "freed" \/ secrets'[n] = "cleansed")
    BY <2>1 DEF Entries
  <2> HIDE DEF Live, Given
  <2>4. /\ Given \subseteq Given' /\ Live \subseteq Live' \cup Given'
        /\ root = "freed" => root' = "freed"
        /\ root = "live" => root' \in {"live", "freed"}
    BY <2>3, GivenBackOnce
  <2>5. /\ Live' \cap Given' = {} /\ 0 \notin Live' \cup Given'
        /\ Live' \cup Given' \cup {0} \subseteq 0..MaxKeys
    <3>1. MaxKeys \in Nat /\ 0 \in 0..MaxKeys
      BY KeysetAssumption
    <3>2. \A n \in Entries : /\ pkeys'[n] = "none" \/ secrets'[n] = "none"
                             /\ pkeys'[n] # "none" \/ secrets'[n] # "none"
                                  => Len(doc.entries) <= MaxKeys
      BY <2>1 DEF IndInv, MadeInv, Entries
    <3>3. \A n \in Live' \cup Given' : n \in 0..MaxKeys /\ n # 0
      BY <2>1, <2>3, <3>1, <3>2
    <3>4. QED
      BY <2>3, <3>1, <3>2, <3>3
  <2> HIDE DEF Held, Spent
  <2>6. CASE DestroyPool
    <3>1. pc = "done" /\ pool = "live" /\ pool' = "destroyed" /\ root' = root
          /\ root # "live"
      BY <2>6 DEF DestroyPool, IndInv, StageInv
    <3>2. Live' = {}
      BY <2>1, <2>3, <3>1 DEF LiveMeansArmed, Entries
    <3>3. Given' = Given \cup Live
      <4>1. \A n \in Given' : n \in Given \cup Live
        BY <2>3, GivenBackOnce, <2>6, CleanupFrees DEF DestroyPool
      <4>2. QED
        BY <2>4, <3>2, <4>1
    <3>4. Held' = {} /\ Spent' = Spent \cup Held
      BY <2>2, <3>1, <3>2, <3>3
    <3>5. QED
      BY <3>1, <3>4 DEF Pool!Next, Pool!Close, Held, Spent, Live, Given
  <2>7. CASE ~DestroyPool /\ pool = "live"
    <3>1. pool' = "live"
      BY <2>7, GivenBackOnce
    <3>2. /\ Spent \subseteq Spent' /\ Held \subseteq Held' \cup Spent'
          /\ Held' \cap Spent' = {} /\ Held' \cup Spent' \subseteq 0..MaxKeys
      BY <2>2, <2>4, <2>5
    <3>3. QED
      BY <2>7, <3>1, <3>2 DEF Pool!Next, Pool!Exchange, Held, Spent, Live, Given
  <2>8. CASE ~DestroyPool /\ pool # "live"
    <3>1. UNCHANGED vars
      BY <2>8, GivenBackOnce
    <3>2. QED
      BY <3>1 DEF vars, Held, Spent, Live, Given
  <2>9. QED
    BY <2>6, <2>7, <2>8
<1>3. QED
  BY <1>1, <1>2, LiveIsArmed, Invariant, PTL DEF Spec, KeepsCustody, Pool!Spec
=============================================================================
