------------------------------- MODULE Claims -------------------------------
(***************************************************************************)
(* src/claims.rs and src/principal.rs: from the claims of a verified token *)
(* to a principal.                                                         *)
(*                                                                         *)
(* A JSON value is a record: [kind, text] for a string, a number or a bool *)
(* (text is what to_string gives), [kind, items] for an array, [kind,      *)
(* fields] for an object, [kind] for null.  A name of a field is the       *)
(* sequence of its parts between dots, and so is the name of a claim in    *)
(* the configuration.                                                      *)
(***************************************************************************)
EXTENDS SequencesExt

CONSTANTS
  NoValue,  \* Option::None
  EMPTY     \* the empty string

(* Value::get(&str): a field of an object by its whole name. *)
get(value, name) ==
  IF value # NoValue /\ value.kind = "object" /\ name \in DOMAIN value.fields
    THEN value.fields[name] ELSE NoValue

(* Mutant: only the first part is followed. *)
claim_value_shallow(claims, claim_path) ==
  IF claim_path = <<EMPTY>> THEN NoValue ELSE get(claims, <<Head(claim_path)>>)

(* One field after the other; every part of the path names one field. *)
claim_value(claims, claim_path) ==
  IF claim_path = <<EMPTY>> THEN NoValue
  ELSE FoldLeft(LAMBDA value, part : get(value, <<part>>), claims, claim_path)

(* The text of a non-empty string, a number or a bool. *)
scalar(value) ==
  IF /\ value # NoValue /\ value.kind \in {"string", "number", "bool"}
     /\ ~(value.kind = "string" /\ value.text = EMPTY)
    THEN value.text ELSE NoValue

claim_as_string(claims, claim_path) == scalar(claim_value(claims, claim_path))

(* Mutant: a single number or bool is a list, too. *)
claim_as_string_list_any(claims, claim_path) ==
  LET value == claim_value(claims, claim_path) IN
  IF value = NoValue THEN {}
  ELSE IF value.kind = "array"
    THEN {scalar(value.items[i]) : i \in DOMAIN value.items} \ {NoValue}
  ELSE {scalar(value)} \ {NoValue}

(* A single string, or the scalars of an array; a single number or bool is  *)
(* no list.                                                                *)
claim_as_string_list(claims, claim_path) ==
  LET value == claim_value(claims, claim_path) IN
  IF value = NoValue THEN {}
  ELSE IF value.kind = "array"
    THEN {scalar(value.items[i]) : i \in DOMAIN value.items} \ {NoValue}
  ELSE IF value.kind = "string" THEN {scalar(value)} \ {NoValue}
  ELSE {}

(* Mutant: the fallbacks come after "sub". *)
name_claims_sub_first(config) ==
  <<config.user_claim>> \o << <<"sub">> >> \o config.fallback_user_claims

(* Where principal_name looks, in this order. *)
name_claims(config) ==
  <<config.user_claim>> \o config.fallback_user_claims \o << <<"sub">> >>

principal_name(claims, config) ==
  LET found == SelectInSeq(name_claims(config),
                 LAMBDA claim : claim_as_string(claims, claim) # NoValue)
  IN IF found = 0 THEN NoValue ELSE claim_as_string(claims, name_claims(config)[found])

from_claims(claims, config) ==
  LET name == principal_name(claims, config) IN
  IF name = NoValue THEN NoValue
  ELSE [name |-> name,
        authorities |-> claim_as_string_list(claims, config.authorities_claim)]

==============================================================================
