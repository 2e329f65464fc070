----------------------------- MODULE ClaimsProofs -----------------------------
(* What TLAPS proves of from_claims, for every token, however its values are *)
(* shaped, and any number of fallback claims.                              *)
EXTENDS MCClaims, Inductions

------------------------------------------------------------------------------
(* Values. *)

Usable(value) == TextsOf({value} \ {NoValue})

(* scalar gives the one text a value may be turned into, and None only if  *)
(* it may be turned into none.                                             *)
LEMMA ScalarMeaning ==
  ASSUME NEW value, WellFormed(value)
  PROVE  /\ scalar(value) = NoValue <=> Usable(value) = {}
         /\ scalar(value) # NoValue =>
              /\ Usable(value) = {scalar(value)}
              /\ scalar(value) \in Texts
<1>1. CASE value = NoValue
  BY <1>1 DEF scalar, Usable, TextsOf
<1>2. CASE value # NoValue /\ value.kind \notin {"string", "number", "bool"}
  BY <1>2 DEF scalar, Usable, TextsOf
<1>3. CASE value # NoValue /\ value.kind \in {"string", "number", "bool"}
  <2>1. Usable(value) = {value.text} \ {EMPTY}
    BY <1>3 DEF Usable, TextsOf
  <2>2. value.text \in Texts /\ (value.text = EMPTY => value.kind = "string")
    BY <1>3 DEF WellFormed
  <2>3. scalar(value) = IF value.text = EMPTY THEN NoValue ELSE value.text
    BY <1>3, <2>2 DEF scalar
  <2> QED BY <2>1, <2>2, <2>3, TextsAssumption
<1> QED BY <1>1, <1>2, <1>3

------------------------------------------------------------------------------
(* The name. *)

(* principal_name looks where it should, and finds names of claims there.   *)
LEMMA SourcesAreClaims ==
  ASSUME config \in Configs
  PROVE  /\ name_claims(config) = Sources
         /\ name_claims(config) \in Seq(ClaimNames)
         /\ DOMAIN name_claims(config) = 1..Len(name_claims(config))
         /\ Len(name_claims(config)) \in Nat
<1>1. <<config.user_claim>> \in Seq(ClaimNames) /\ << <<"sub">> >> \in Seq(ClaimNames)
      /\ config.fallback_user_claims \in Seq(ClaimNames)
  BY ConfigsAssumption
<1> QED BY <1>1 DEF name_claims, Sources

(* principal_name is the text of the first source that has one. *)
LEMMA NameIsFirst ==
  ASSUME claims \in Tokens, config \in Configs
  PROVE  LET sources == name_claims(config)
             name == principal_name(claims, config)
         IN /\ name = NoValue <=> \A i \in DOMAIN sources : Found(i) = {}
            /\ name # NoValue =>
                 /\ name \in Texts
                 /\ \A i \in DOMAIN sources :
                      Found(i) # {} /\ (\A j \in 1..(i - 1) : Found(j) = {}) => name \in Found(i)
<1> DEFINE sources == name_claims(config)
           n == Len(sources)
           I == {i \in 1..n : claim_as_string(claims, sources[i]) # NoValue}
           first == SelectInSeq(sources, LAMBDA claim : claim_as_string(claims, claim) # NoValue)
<1>1. n \in Nat /\ DOMAIN sources = 1..n /\ \A i \in 1..n : sources[i] \in ClaimNames
  BY SourcesAreClaims
<1>2. first = IF I # {} THEN Min(I) ELSE 0
  BY DEF SelectInSeq
<1>3. principal_name(claims, config)
        = IF first = 0 THEN NoValue ELSE claim_as_string(claims, sources[first])
  BY DEF principal_name
<1>4. ASSUME NEW i \in 1..n
      PROVE  /\ i \in I <=> Found(i) # {}
             /\ i \in I => /\ Found(i) = {claim_as_string(claims, sources[i])}
                           /\ claim_as_string(claims, sources[i]) \in Texts
  <2>1. WellFormed(claim_value(claims, sources[i]))
    BY <1>1, TokensAssumption
  <2>2. Found(i) = Usable(claim_value(claims, sources[i]))
    BY SourcesAreClaims DEF Found, Usable
  <2> QED BY <2>1, <2>2, ScalarMeaning DEF claim_as_string
<1>5. CASE I = {}
  <2>1. first = 0
    BY <1>2, <1>5
  <2>2. \A i \in 1..n : Found(i) = {}
    BY <1>4, <1>5
  <2> QED BY <1>1, <1>3, <2>1, <2>2
<1>6. CASE I # {}
  <2>1. first \in I /\ \A i \in I : first <= i
    <3>1. I \in SUBSET Nat
      BY <1>1
    <3>2. Min(I) \in I /\ \A i \in I : Min(I) <= i
      <4> HIDE DEF I
      <4> QED BY <1>6, <3>1, LeastNumber
    <3>3. first = Min(I)
      BY <1>2, <1>6
    <3> HIDE DEF I, first
    <3> QED BY <3>2, <3>3
  <2>2. first \in 1..n /\ first # 0
    <3>1. first \in 1..n
      BY <2>1
    <3> HIDE DEF first
    <3> QED BY <1>1, <3>1
  <2> HIDE DEF first
  <2>3. /\ principal_name(claims, config) = claim_as_string(claims, sources[first])
        /\ Found(first) = {claim_as_string(claims, sources[first])}
        /\ claim_as_string(claims, sources[first]) \in Texts
    BY <1>3, <1>4, <2>1, <2>2
  <2>4. principal_name(claims, config) # NoValue
    BY <2>3, TextsAssumption
  <2>5. ASSUME NEW i \in 1..n, Found(i) # {}, \A j \in 1..(i - 1) : Found(j) = {}
        PROVE  i = first
    <3>1. i \in I
      BY <1>4, <2>5
    <3>2. first <= i
      BY <2>1, <3>1
    <3>3. first \notin 1..(i - 1)
      BY <2>3, <2>5
    <3> QED BY <1>1, <2>2, <3>2, <3>3
  <2> QED BY <1>1, <2>2, <2>3, <2>4, <2>5
<1> QED BY <1>5, <1>6

------------------------------------------------------------------------------
(* The authorities. *)

(* A list holds the texts of a string, or of the items of an array. *)
LEMMA ListMeaning ==
  ASSUME claims \in Tokens, NEW name \in ClaimNames
  PROVE  LET value == claim_value(claims, name) IN
         claim_as_string_list(claims, name) =
           IF value = NoValue \/ value.kind \notin {"string", "array"} THEN {}
           ELSE TextsOf(IF value.kind = "array" THEN {value.items[i] : i \in DOMAIN value.items}
                        ELSE {value})
<1> DEFINE value == claim_value(claims, name)
<1>1. /\ WellFormed(value)
      /\ value # NoValue /\ value.kind = "array" =>
           \A i \in DOMAIN value.items : value.items[i] # NoValue /\ WellFormed(value.items[i])
  BY TokensAssumption
<1>2. claim_as_string_list(claims, name) =
        IF value = NoValue THEN {}
        ELSE IF value.kind = "array"
          THEN {scalar(value.items[i]) : i \in DOMAIN value.items} \ {NoValue}
        ELSE IF value.kind = "string" THEN {scalar(value)} \ {NoValue}
        ELSE {}
  BY DEF claim_as_string_list
<1> HIDE DEF value
<1>3. CASE value # NoValue /\ value.kind = "string"
  <2>1. {scalar(value)} \ {NoValue} = Usable(value)
    BY <1>1, ScalarMeaning
  <2>2. {value} \ {NoValue} = {value}
    BY <1>3
  <2> QED BY <1>2, <1>3, <2>1, <2>2 DEF Usable, value
<1>4. CASE value # NoValue /\ value.kind = "array"
  <2> DEFINE items == {value.items[i] : i \in DOMAIN value.items}
             listed == {scalar(value.items[i]) : i \in DOMAIN value.items} \ {NoValue}
  <2>1. \A item \in items : item # NoValue /\ WellFormed(item)
    BY <1>1, <1>4
  <2>2. \A item \in items :
          /\ Usable(item) = TextsOf({item})
          /\ scalar(item) = NoValue <=> Usable(item) = {}
          /\ scalar(item) # NoValue => Usable(item) = {scalar(item)}
    <3> SUFFICES ASSUME NEW item \in items
                 PROVE  /\ Usable(item) = TextsOf({item})
                        /\ scalar(item) = NoValue <=> Usable(item) = {}
                        /\ scalar(item) # NoValue => Usable(item) = {scalar(item)}
      OBVIOUS
    <3>1. item # NoValue /\ WellFormed(item)
      BY <2>1
    <3>2. {item} \ {NoValue} = {item}
      BY <3>1
    <3> HIDE DEF items
    <3> QED BY <3>1, <3>2, ScalarMeaning DEF Usable
  <2>3. listed = {scalar(item) : item \in items} \ {NoValue}
    OBVIOUS
  <2>4. \A text : text \in TextsOf(items) <=> \E item \in items : text \in TextsOf({item})
    <3> HIDE DEF items
    <3> QED BY DEF TextsOf
  <2>5. \A text : text \in listed <=> \E item \in items : text \in Usable(item)
    <3> HIDE DEF items, listed
    <3> QED BY <2>2, <2>3
  <2>6. listed = TextsOf(items)
    <3> HIDE DEF items, listed
    <3>1. ASSUME NEW text PROVE text \in listed <=> text \in TextsOf(items)
      <4>1. \A item \in items : text \in Usable(item) <=> text \in TextsOf({item})
        BY <2>2
      <4> QED BY <4>1, <2>4, <2>5
    <3> QED BY <3>1
  <2> QED BY <1>2, <1>4, <2>6 DEF value
<1>5. CASE value = NoValue \/ value.kind \notin {"string", "array"}
  BY <1>2, <1>5 DEF value
<1> QED BY <1>3, <1>4, <1>5

------------------------------------------------------------------------------
(* Values in objects. *)

(* claim_value looks under the first name, and in what it finds there under *)
(* the second.                                                             *)
LEMMA TwoNamesInTurn ==
  ASSUME NEW token, NEW outer, NEW inner
  PROVE  claim_value(token, <<outer, inner>>) = get(get(token, <<outer>>), <<inner>>)
<1> DEFINE names == <<outer, inner>>
           Fold(f) == [s \in SUBSET (1..2) |->
                         IF s = {} THEN token ELSE get(f[s \ {Max(s)}], <<names[Max(s)]>>)]
           iter == CHOOSE f : f = Fold(f)
           g == [s \in SUBSET (1..2) |->
                   IF s = {} THEN token
                   ELSE IF s = {1} THEN get(token, <<outer>>)
                   ELSE IF s = {2} THEN get(token, <<inner>>)
                   ELSE get(get(token, <<outer>>), <<inner>>)]
<1>1. \A s \in SUBSET (1..2) : s \in {{}, {1}, {2}, {1, 2}}
  <2>1. 1..2 = {1, 2}
    OBVIOUS
  <2> QED BY <2>1
<1>2. {} \in SUBSET (1..2) /\ {1} \in SUBSET (1..2) /\ {2} \in SUBSET (1..2) /\ {1, 2} \in SUBSET (1..2)
  OBVIOUS
<1>3. Max({1}) = 1 /\ Max({2}) = 2 /\ Max({1, 2}) = 2
  <2>1. \A s \in SUBSET (1..2) : s # {} => Max(s) \in s /\ \A i \in s : i <= Max(s)
    BY GreatestOfSome
  <2> QED BY <1>2, <2>1
<1>4. {1} \ {1} = {} /\ {2} \ {2} = {} /\ {1, 2} \ {2} = {1}
  OBVIOUS
<1>5. names[1] = outer /\ names[2] = inner /\ Len(names) = 2 /\ DOMAIN names = 1..2
  OBVIOUS
<1>6. ASSUME NEW s \in SUBSET (1..2) PROVE g[s] = Fold(g)[s]
  <2>1. /\ g[{}] = token
        /\ g[{1}] = get(token, <<outer>>)
        /\ g[{2}] = get(token, <<inner>>)
        /\ g[{1, 2}] = get(g[{1}], <<inner>>)
    BY <1>2
  <2>2. Fold(g)[s] = IF s = {} THEN token ELSE get(g[s \ {Max(s)}], <<names[Max(s)]>>)
    OBVIOUS
  <2> HIDE DEF g, names, Fold
  <2>3. CASE s = {}
    BY <2>1, <2>2, <2>3
  <2>4. CASE s = {1}
    BY <1>3, <1>4, <1>5, <2>1, <2>2, <2>4
  <2>5. CASE s = {2}
    BY <1>3, <1>4, <1>5, <2>1, <2>2, <2>5
  <2>6. CASE s = {1, 2}
    BY <1>3, <1>4, <1>5, <2>1, <2>2, <2>6
  <2> QED BY <1>1, <2>3, <2>4, <2>5, <2>6
<1>7. g = Fold(g)
  <2>1. g = [s \in SUBSET (1..2) |-> g[s]] /\ Fold(g) = [s \in SUBSET (1..2) |-> Fold(g)[s]]
    OBVIOUS
  <2> HIDE DEF g, Fold
  <2> QED BY <1>6, <2>1
<1>8. iter = Fold(iter)
  <2> HIDE DEF g, Fold
  <2> QED BY <1>7
<1>9. iter[{1, 2}] = get(get(token, <<outer>>), <<inner>>)
  <2> HIDE DEF iter, names
  <2>1. \A s \in SUBSET (1..2) :
          iter[s] = IF s = {} THEN token ELSE get(iter[s \ {Max(s)}], <<names[Max(s)]>>)
    BY <1>8
  <2>2. iter[{}] = token
    BY <1>2, <2>1
  <2>3. iter[{1}] = get(iter[{}], <<outer>>)
    BY <1>2, <1>3, <1>4, <1>5, <2>1
  <2>4. iter[{1, 2}] = get(iter[{1}], <<inner>>)
    BY <1>2, <1>3, <1>4, <1>5, <2>1
  <2> QED BY <2>2, <2>3, <2>4
<1>10. claim_value(token, names) = iter[{1, 2}]
  <2>1. names # <<EMPTY>>
    <3>1. Len(<<EMPTY>>) = 1
      OBVIOUS
    <3> QED BY <1>5, <3>1
  <2>2. DOMAIN names = {1, 2} /\ 1..2 = {1, 2}
    BY <1>5
  <2> QED BY <2>1, <2>2 DEF claim_value, FoldLeft, MapThenFoldSet
<1> QED BY <1>9, <1>10

------------------------------------------------------------------------------
(* The theorems. *)

Evaluated ==
  /\ claims \in Tokens /\ config \in Configs
  /\ principal = Pending \/ principal = from_claims(claims, config)

LEMMA EvaluatedAlways == Spec => []Evaluated
<1>1. Init => Evaluated
  BY DEF Init, Evaluated
<1>2. Evaluated /\ [Evaluate]_vars => Evaluated'
  <2>1. ASSUME Evaluated, UNCHANGED vars PROVE Evaluated'
    BY <2>1 DEF Evaluated, vars
  <2>2. ASSUME Evaluated, Evaluate PROVE Evaluated'
    BY <2>2 DEF Evaluated, Evaluate
  <2> QED BY <2>1, <2>2
<1> QED BY <1>1, <1>2, PTL DEF Spec

(* Without a name there is no principal, with one it is a record. *)
LEMMA PrincipalMeaning ==
  ASSUME Evaluated, principal # Pending
  PROVE  LET name == principal_name(claims, config) IN
         /\ principal = NoValue <=> name = NoValue
         /\ principal # NoValue =>
              /\ principal.name = name
              /\ principal.authorities = claim_as_string_list(claims, config.authorities_claim)
<1> DEFINE name == principal_name(claims, config)
           list == claim_as_string_list(claims, config.authorities_claim)
<1>1. principal = IF name = NoValue THEN NoValue ELSE [name |-> name, authorities |-> list]
  BY DEF Evaluated, from_claims
<1>2. ASSUME name # NoValue PROVE [name |-> name, authorities |-> list] # NoValue
  <2>1. name \in Texts
    BY <1>2, NameIsFirst DEF Evaluated
  <2>2. list \in SUBSET Texts
    <3>1. config.authorities_claim \in ClaimNames
      BY ConfigsAssumption DEF Evaluated
    <3>2. WellFormed(claim_value(claims, config.authorities_claim))
      BY <3>1, TokensAssumption DEF Evaluated
    <3>3. \A value : WellFormed(value) => scalar(value) \in Texts \cup {NoValue}
      BY ScalarMeaning
    <3>4. LET value == claim_value(claims, config.authorities_claim) IN
          value # NoValue /\ value.kind = "array" =>
            \A i \in DOMAIN value.items : WellFormed(value.items[i])
      BY <3>1, TokensAssumption DEF Evaluated
    <3> QED BY <3>2, <3>3, <3>4 DEF claim_as_string_list
  <2>3. [name |-> name, authorities |-> list] \in [name : Texts, authorities : SUBSET Texts]
    <3> HIDE DEF name, list
    <3> QED BY <2>1, <2>2
  <2> HIDE DEF name, list
  <2> QED BY <2>3, TextsAssumption
<1> HIDE DEF name, list
<1>3. name # NoValue => principal.name = name /\ principal.authorities = list
  BY <1>1
<1>4. principal = NoValue <=> name = NoValue
  BY <1>1, <1>2
<1> QED BY <1>3, <1>4 DEF name, list

(* The principal is named by the first source that holds a usable scalar,   *)
(* whatever the sources before it hold (principal.rs:37-56).               *)
THEOREM FirstUsableNames == Spec => []PrincipalIsFirstUsable
<1>1. Evaluated => PrincipalIsFirstUsable
  <2> SUFFICES ASSUME Evaluated, principal # Pending PROVE PrincipalIsFirstUsable
    BY DEF PrincipalIsFirstUsable
  <2>1. claims \in Tokens /\ config \in Configs
    BY DEF Evaluated
  <2>2. LET name == principal_name(claims, config) IN
        /\ principal = NoValue <=> name = NoValue
        /\ principal # NoValue => principal.name = name
    BY PrincipalMeaning
  <2> QED BY <2>1, <2>2, SourcesAreClaims, NameIsFirst DEF PrincipalIsFirstUsable
<1> QED BY <1>1, EvaluatedAlways, PTL

(* Authorities are the non-empty texts of the configured claim, all of them *)
(* (claims.rs:17-34).                                                      *)
THEOREM AuthoritiesAreThoseClaimed == Spec => []AuthoritiesAreTheClaim
<1>1. Evaluated => AuthoritiesAreTheClaim
  <2> SUFFICES ASSUME Evaluated, principal \notin {Pending, NoValue}
               PROVE  LET value == claim_value(claims, config.authorities_claim) IN
                      principal.authorities =
                        IF value = NoValue \/ value.kind \notin {"string", "array"} THEN {}
                        ELSE TextsOf(IF value.kind = "array"
                                       THEN {value.items[i] : i \in DOMAIN value.items}
                                       ELSE {value})
    BY DEF AuthoritiesAreTheClaim
  <2>1. claims \in Tokens /\ config.authorities_claim \in ClaimNames
    BY ConfigsAssumption DEF Evaluated
  <2>2. principal.authorities = claim_as_string_list(claims, config.authorities_claim)
    BY PrincipalMeaning
  <2> QED BY <2>1, <2>2, ListMeaning
<1> QED BY <1>1, EvaluatedAlways, PTL

(* A value in a field of an object in a field of the claims is found under   *)
(* the two names with a dot between them, and nothing else is               *)
(* (claims.rs:6-15).                                                       *)
THEOREM NestedValuesFound == Spec => []NestedValuesAreFound
<1>1. NestedValuesAreFound
  <2> SUFFICES ASSUME NEW outer \in {user, nested, "sub"}, NEW inner \in {user, nested, "sub"}
               PROVE  LET object == get(claims, <<outer>>)
                          found == claim_value(claims, <<outer, inner>>)
                      IN IF object # NoValue /\ object.kind = "object" /\ <<inner>> \in DOMAIN object.fields
                           THEN found = object.fields[<<inner>>]
                           ELSE found = NoValue
    BY DEF NestedValuesAreFound
  <2>1. claim_value(claims, <<outer, inner>>) = get(get(claims, <<outer>>), <<inner>>)
    BY TwoNamesInTurn
  <2> QED BY <2>1 DEF get
<1> QED BY <1>1, PTL

==============================================================================
