------------------------------ MODULE Custody ------------------------------
(***************************************************************************)
(* What every object of the library promises to the pool it lives on, with *)
(* no code in it.  A resource (an EVP_PKEY, a secret, a JSON document) is  *)
(* taken once and given back once, while the pool exists; it is never held *)
(* again, and when the pool goes nothing is held any more.                 *)
(***************************************************************************)
CONSTANT Resource    \* whatever may be taken

VARIABLES
  held,     \* resources taken and not given back
  spent,    \* resources given back
  open      \* the pool exists

Init == held = {} /\ spent = {} /\ open = TRUE

\* One step of the owner: what is held may be added to and given back, an
\* object may come and go in one step, and what was given back stays so.
Exchange ==
  /\ open /\ open' = TRUE
  /\ spent \subseteq spent' /\ held \subseteq held' \cup spent'
  /\ held' \cap spent' = {} /\ held' \cup spent' \subseteq Resource

\* The destruction of the pool gives back whatever is held.
Close ==
  /\ open /\ open' = FALSE
  /\ held' = {} /\ spent' = spent \cup held

Next == Exchange \/ Close

Spec == Init /\ [][Next]_<<held, spent, open>>

=============================================================================
