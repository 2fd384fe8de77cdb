-------------------------- MODULE MCOAuthTokens --------------------------
(* Small instance of OAuthTokens: requests, codes and pairs are            *)
(* interchangeable.                                                        *)
EXTENDS OAuthTokens, TLC

Symmetry == Permutations(Codes) \cup Permutations(Pairs) \cup Permutations(Requests)
=============================================================================
