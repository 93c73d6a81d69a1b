---------------------------- MODULE VerifyPolicy ----------------------------
(***************************************************************************)
(* What a caller may assume of a verification entry point: a call is       *)
(* accepted, and some time later answered with the one result the policy   *)
(* gives for that request, whatever the calls before it were.              *)
(***************************************************************************)
CONSTANTS
  Requests,       \* the calls a caller may make
  Verdict(_)      \* the result the policy gives for a request

VARIABLES
  busy,    \* a call is under way
  req,     \* the last call
  rc       \* the result of the last finished call, "none" while it runs

vars == <<busy, req, rc>>

\* The first call may already be under way.
Init == /\ busy \in BOOLEAN
        /\ req \in Requests
        /\ rc = "none"

Submit == /\ ~busy
          /\ busy' = TRUE
          /\ req' \in Requests
          /\ rc' = "none"

Answer == /\ busy
          /\ busy' = FALSE
          /\ rc' = Verdict(req)
          /\ UNCHANGED req

Next == Submit \/ Answer

Spec == Init /\ [][Next]_vars

=============================================================================
