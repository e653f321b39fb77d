----------------------------- MODULE AtMostOnce -----------------------------
(***************************************************************************)
(* What the API promises the code that calls the SDK, whatever the         *)
(* transport: a request is performed at most once, and the value a caller  *)
(* gets for it is the outcome of performing that very request.  A caller   *)
(* may also get a failure, before the request is performed, after it, or   *)
(* without it ever being performed.                                        *)
(***************************************************************************)
CONSTANTS
  Requests,    \* the identities of requests
  Failure      \* what a caller gets when the transport fails

VARIABLES
  issued,      \* the requests callers have made
  performed,   \* request |-> outcome, of the requests performed
  returned     \* request |-> what its caller got

vars == <<issued, performed, returned>>

\* g is f and a value for r, which f does not have.
Adds(g, f, r) ==
  /\ r \notin DOMAIN f
  /\ DOMAIN g = DOMAIN f \cup {r}
  /\ \A q \in DOMAIN f : g[q] = f[q]

Init ==
  /\ issued = {}
  /\ performed = [r \in {} |-> Failure]
  /\ returned = [r \in {} |-> Failure]

Issue(r) ==
  /\ r \notin issued
  /\ issued' = issued \cup {r}
  /\ UNCHANGED <<performed, returned>>

Perform(r) ==
  /\ r \in issued
  /\ Adds(performed', performed, r)
  /\ UNCHANGED <<issued, returned>>

Return(r) ==
  /\ r \in issued
  /\ Adds(returned', returned, r)
  /\ \/ returned'[r] = Failure
     \/ r \in DOMAIN performed /\ returned'[r] = performed[r]
  /\ UNCHANGED <<issued, performed>>

Next == \E r \in Requests : Issue(r) \/ Perform(r) \/ Return(r)

Spec == Init /\ [][Next]_vars
=============================================================================
