-------------------------------- MODULE Auth --------------------------------
(***************************************************************************)
(* internal/auth/auth.go: the JSON web tokens of the API.  A token is its  *)
(* claims; the gateways keep none, so one that any gateway with the same   *)
(* secret issued verifies at all of them until it expires.                 *)
(***************************************************************************)
EXTENDS Naturals

CONSTANTS Expiry,   \* lifetime of a token
          NoClaims  \* what the context of a request holds before requireAuth

Role == {"USER", "DRIVER", "ADMIN"}

Claims == [role : Role, exp : Nat]

ASSUME AuthAssumption == Expiry \in Nat \ {0} /\ NoClaims \notin Claims

VARIABLE issued  \* the tokens that carry a valid signature

\* Issue, at time t.
Issue(role, t) == issued' = issued \cup {[role |-> role, exp |-> t + Expiry]}

\* A defective variant: the lifetime is not looked at.
VerifySignature(tok, t) == tok \in issued

\* Verify: signature and expiry.
Verify(tok, t) == tok \in issued /\ t < tok.exp

RequireRole(claims, roles) == claims.role \in roles
=============================================================================
