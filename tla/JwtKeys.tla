------------------------------- MODULE JwtKeys -------------------------------
(***************************************************************************)
(* Key selection and token verification: the pure functions at the bottom  *)
(* of src/jwt.rs.  A JWK and a cached JwtKey are the same record           *)
(* [key_id, decoding_key]; a JWK whose material the library cannot turn    *)
(* into a DecodingKey carries Unsupported.                                 *)
(*                                                                         *)
(* Keys are kept as a set: their order and their repetition only decide    *)
(* which of several validation errors is reported last.                    *)
(***************************************************************************)
CONSTANTS
  None,         \* Option::None: no `kid`, no configured issuer
  Unsupported,  \* key material DecodingKey::from_jwk rejects
  Issuer        \* the configured issuer-uri, or None

(* jsonwebtoken::decode with the Validation built at jwt.rs:360: the key   *)
(* signed the token, it has not expired, and it names no issuer but the    *)
(* configured one.  The audience is not looked at, and set_issuer does not *)
(* make the `iss` claim a required one.                                    *)
Decodes(token, key) ==
  /\ token.signer = key.decoding_key
  /\ ~token.expired
  /\ Issuer # None => token.iss \in {None, Issuer}

(* A token that names a kid only fits the keys of that kid; a token without *)
(* one fits every key.                                                      *)
matching_keys(keys, token) ==
  {key \in keys : token.kid = None \/ token.kid = key.key_id}

validate_with_keys(keys, token) ==
  LET matching == matching_keys(keys, token) IN
  IF matching = {} THEN "NoMatchingKey"
  ELSE IF \E key \in matching : Decodes(token, key) THEN "Ok"
  ELSE "Validation"

(* The usable keys of a JWK set.  When there is none the code returns      *)
(* NoMatchingKey instead of an empty vector.                               *)
jwk_set_to_keys(jwk_set) ==
  {jwk \in jwk_set : jwk.decoding_key # Unsupported}

==============================================================================
