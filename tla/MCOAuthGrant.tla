---------------------------- MODULE MCOAuthGrant ----------------------------
(***************************************************************************)
(* OAuthGrant with one flow of each of two apps, two codes and two tokens  *)
(* (a code redeemed twice has room to show), two calls in parallel.        *)
(***************************************************************************)
EXTENDS OAuthGrant, TLC

CONSTANTS a1, a2, u1, u2, k1, k2, t1, t2, c1, c2

MCFlows == {[app |-> a1, uri |-> "uri", challenge |-> S256("v"), state |-> "s"],
            [app |-> a2, uri |-> "uri", challenge |-> S256("w"), state |-> "s"]}

MCRegistered == [a \in Apps |-> Uris]
Symmetry == Permutations(Codes) \union Permutations(Tokens) \union Permutations(Calls)
              \union Permutations(Users)
=============================================================================
