--------------------------- MODULE MCIntrospection ---------------------------
(* Instances of Introspection for TLC. *)
EXTENDS Introspection, TLC

CONSTANTS lasting, dated, foreign,     \* tokens
          own, another                 \* keys

\* One token without time claims; one bound to a DPoP key, valid from the second
\* tick to the third (give or take the leeway); one issued for another application.
MCClaims ==
    (lasting :> [ours |-> TRUE,  exp |-> NoTime,   nbf |-> NoTime, scopes |-> {}, jkt |-> NoKey]) @@
    (dated   :> [ours |-> TRUE,  exp |-> 3,        nbf |-> 2, scopes |-> {"read"}, jkt |-> own]) @@
    (foreign :> [ours |-> FALSE, exp |-> NotATime, nbf |-> NoTime, scopes |-> {}, jkt |-> NoKey])

\* Two routes whose sources share the validator: a bearer source, and a DPoP
\* source with a challenge of its own and a scope.
MCRoutes ==
    {[challenge |-> "Bearer", bound |-> "refused", scopes |-> {}],
     [challenge |-> "DPoP",   bound |-> "proved",  scopes |-> {"read"}]}

Symmetry == Permutations(Requests)
=============================================================================
