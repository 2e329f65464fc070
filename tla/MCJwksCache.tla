----------------------------- MODULE MCJwksCache -----------------------------
(* Values for the constants of JwksCache that a .cfg cannot write. *)
EXTENDS JwksCacheRefinement, TLC

CONSTANTS a, b, ka, kb, iss, c1, c2

KeyA == [key_id |-> a, decoding_key |-> ka]
KeyB == [key_id |-> b, decoding_key |-> kb]
KeyBad == [key_id |-> a, decoding_key |-> Unsupported]

MCJwk == {KeyA, KeyB, KeyBad}
RotatingDocs == {{KeyA}, {KeyB, KeyBad}, {KeyBad}}
UsableDocs == {{KeyA}, {KeyB, KeyBad}}

Jwt(kid, signer) ==
  [header |-> TRUE, kid |-> kid, signer |-> signer, iss |-> iss, expired |-> FALSE]

TokenA == Jwt(a, ka)
TokenB == Jwt(b, kb)

FewTokens == {TokenA, TokenB}
OneToken == {TokenB}

CallerSymmetry == Permutations(Callers)

==============================================================================
