----------------------------- MODULE TokenLedger -----------------------------
(***************************************************************************)
(* What the token cache promises when gac alone writes it: one token whose *)
(* refreshes are atomic.  A refresh spends the refresh token of the cached *)
(* token and caches its successor in one step, or, when something fails in *)
(* between, spends it and leaves the cache as it was.                      *)
(***************************************************************************)
EXTENDS Naturals

CONSTANTS NoToken

CachedToken ==
  [access : Nat, refresh : Nat, expires : Nat, registration : Nat]

VARIABLES
  cached,  \* the token, or NoToken
  spent    \* refresh tokens that can no longer be used

Init ==
  /\ cached = NoToken
  /\ spent = {}

\* A sign-in caches a token that can be refreshed, or has nothing to refresh with.
SignIn ==
  /\ cached' \in CachedToken
  /\ cached'.refresh \notin spent
  /\ UNCHANGED spent

\* The service rotates the refresh token of the cached token.
Rotate ==
  /\ cached # NoToken
  /\ cached' \in CachedToken
  /\ spent' = spent \cup {cached.refresh}
  /\ cached'.refresh \notin spent' \cup {0}
  /\ cached'.registration = cached.registration

\* The service keeps the refresh token and only grants a new access token.
Renew ==
  /\ cached # NoToken
  /\ cached' \in CachedToken
  /\ cached'.refresh = cached.refresh
  /\ cached'.registration = cached.registration
  /\ UNCHANGED spent

\* The successor of the cached token is lost before it is saved.
Lose ==
  /\ cached # NoToken
  /\ spent' = spent \cup {cached.refresh}
  /\ UNCHANGED cached

SignOut ==
  /\ cached' = NoToken
  /\ UNCHANGED spent

Next == SignIn \/ Rotate \/ Renew \/ Lose \/ SignOut

Spec == Init /\ [][Next]_<<cached, spent>>

=============================================================================
