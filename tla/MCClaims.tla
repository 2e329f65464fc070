------------------------------ MODULE MCClaims ------------------------------
(* from_claims evaluated on bounded tokens and configurations. *)
EXTENDS Claims, Naturals

CONSTANTS
  Tokens,   \* the claims tokens may carry
  Configs,  \* the claim names a configuration may give
  ClaimNames, \* names of claims
  Texts,    \* texts of scalar values
  Pending,  \* not evaluated yet
  user, nested, x, one, yes

(* A scalar has a text, and only a string may have the empty one. *)
WellFormed(value) ==
  value # NoValue /\ value.kind \in {"string", "number", "bool"} =>
    value.text \in Texts /\ (value.text = EMPTY => value.kind = "string")

(* A principal and a text are no Option::None. *)
ASSUME TextsAssumption ==
  NoValue \notin Texts /\ NoValue \notin [name : Texts, authorities : SUBSET Texts]

(* The fields of ClaimConfig that name claims. *)
ASSUME ConfigsAssumption ==
  /\ Configs \subseteq [user_claim : ClaimNames, fallback_user_claims : Seq(ClaimNames),
                        authorities_claim : ClaimNames]
  /\ <<"sub">> \in ClaimNames

(* What is found in a token is a JSON value, as are the items of an array. *)
ASSUME TokensAssumption ==
  \A token \in Tokens, name \in ClaimNames :
    LET value == claim_value(token, name) IN
    /\ WellFormed(value)
    /\ value # NoValue /\ value.kind = "array" =>
         \A i \in DOMAIN value.items : value.items[i] # NoValue /\ WellFormed(value.items[i])

VARIABLES claims, config, principal
vars == <<claims, config, principal>>

Init == claims \in Tokens /\ config \in Configs /\ principal = Pending

Evaluate ==
  /\ principal = Pending
  /\ principal' = from_claims(claims, config)
  /\ UNCHANGED <<claims, config>>

Spec == Init /\ [][Evaluate]_vars

------------------------------------------------------------------------------
(* One value of each kind, arrays that mix them, and one level of nesting. *)
Text(t) == [kind |-> "string", text |-> t]
Number == [kind |-> "number", text |-> one]
Bool == [kind |-> "bool", text |-> yes]
Null == [kind |-> "null"]
Array(items) == [kind |-> "array", items |-> items]
Object(fields) == [kind |-> "object", fields |-> fields]

Leaves == {Text(x), Text(EMPTY), Number, Bool, Null,
           Array(<<>>), Array(<<Text(EMPTY), Number, Null>>), Array(<<Text(x), Array(<<Bool>>)>>)}
Objects == {Object([n \in {<<user>>} |-> leaf]) : leaf \in {Text(x), Text(EMPTY), Number, Array(<<Bool>>)}}

(* The names "sub", "user", "nested" and "nested.user", each there or not. *)
Names == {<<"sub">>, <<user>>, <<nested>>, <<nested, user>>}
MCTokens ==
  {Object([n \in {m \in Names : f[m] # NoValue} |-> f[n]]) :
     f \in {g \in [Names -> Leaves \cup Objects \cup {NoValue}] :
              /\ g[<<"sub">>] \in {NoValue, Text(x), Text(EMPTY)}
              /\ g[<<nested, user>>] \in {NoValue, Number}}}

MCClaimNames == Names \cup {<<nested>>, <<EMPTY>>}
MCTexts == {x, one, yes, EMPTY}
MCConfigs ==
  [user_claim : {<<user>>, <<nested, user>>, <<"sub">>, <<EMPTY>>},
   fallback_user_claims : {<<>>, << <<nested>> >>, << <<nested, user>>, <<user>> >>},
   authorities_claim : {<<nested, user>>, <<user>>}]

------------------------------------------------------------------------------
(* A value in a field of an object in a field of the claims is found under   *)
(* the two names with a dot between them, and nothing else is: not the flat *)
(* claim that has a dot in its name, which ARCHITECTURE.md:225 lists among  *)
(* the supported formats.                                                  *)
NestedValuesAreFound ==
  \A outer, inner \in {user, nested, "sub"} :
    LET object == get(claims, <<outer>>)
        found == claim_value(claims, <<outer, inner>>)
    IN IF object # NoValue /\ object.kind = "object" /\ <<inner>> \in DOMAIN object.fields
         THEN found = object.fields[<<inner>>]
         ELSE found = NoValue

(* The texts a claim may be turned into: those of the value itself or, in a *)
(* list, of its items; never an empty one.                                 *)
TextsOf(values) == {v.text : v \in {w \in values : w.kind \in {"string", "number", "bool"}}} \ {EMPTY}

(* The claims that may name the principal, and what they hold for a name. *)
Sources == <<config.user_claim>> \o config.fallback_user_claims \o << <<"sub">> >>
Found(i) == TextsOf({claim_value(claims, Sources[i])} \ {NoValue})

(* The principal is named by the first of user-claim, the fallback claims   *)
(* and `sub` that holds a usable scalar, whatever shape the ones before it  *)
(* have; without any there is no principal.                                *)
PrincipalIsFirstUsable ==
  principal # Pending =>
    /\ principal = NoValue <=> \A i \in DOMAIN Sources : Found(i) = {}
    /\ \A i \in DOMAIN Sources :
         Found(i) # {} /\ (\A j \in 1..(i - 1) : Found(j) = {}) => principal.name \in Found(i)

(* Authorities are texts of the configured claim, all of them, and the      *)
(* empty string never is one: a role left empty in the configuration admits *)
(* nobody.                                                                 *)
AuthoritiesAreTheClaim ==
  LET value == claim_value(claims, config.authorities_claim) IN
  principal \notin {Pending, NoValue} =>
    principal.authorities =
      IF value = NoValue \/ value.kind \notin {"string", "array"} THEN {}
      ELSE TextsOf(IF value.kind = "array" THEN {value.items[i] : i \in DOMAIN value.items}
                   ELSE {value})

==============================================================================
