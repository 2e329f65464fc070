-------------------------- MODULE ValidatorContract --------------------------
(***************************************************************************)
(* What JwtValidator promises its callers, without the lock, the queue, the *)
(* HTTP exchanges and the clock that JwksCache has: every call is answered  *)
(* in one step, from the cached keys as they are in that step, and the      *)
(* cache only ever moves forward through the sets the provider published.  *)
(***************************************************************************)
EXTENDS Naturals, JwtKeys

CONSTANTS
  Callers,    \* who calls the validator
  Jwk,        \* every JWK the identity provider may ever publish
  Docs,       \* the JWK sets it may publish
  Token,      \* the tokens callers present
  HasRemote   \* FALSE for a validator built from fixed keys

VARIABLES
  published,  \* the JWK set the provider serves now
  rev,        \* how often it has been replaced
  ready,      \* the validator exists
  keys,       \* the keys it trusts
  keysRev,    \* the revision they were taken from
  stale,      \* they are older than max_stale
  call,       \* what each caller asked for
  result,     \* what each caller got
  absent      \* whether the provider lacked the caller's kid during its call

vars == <<published, rev, ready, keys, keysRev, stale, call, result, absent>>

NoCall == [op |-> "none", token |-> None]
Lacks(doc, token) == matching_keys(jwk_set_to_keys(doc), token) = {}
Pending(c) == call[c] # NoCall /\ result[c] = None

Init ==
  /\ published \in Docs
  /\ rev = 0 /\ keysRev = 0
  /\ ready = ~HasRemote
  /\ keys = IF HasRemote THEN {} ELSE jwk_set_to_keys(published)
  /\ stale = FALSE
  /\ call = [c \in Callers |-> NoCall]
  /\ result = [c \in Callers |-> None]
  /\ absent = [c \in Callers |-> FALSE]

(* The provider replaces its JWK set. *)
Publish(doc) ==
  /\ published' = doc
  /\ rev' = rev + 1
  /\ absent' = [c \in Callers |->
       absent[c] \/ (Pending(c) /\ call[c].op = "validate_async"
                       /\ Lacks(doc, call[c].token))]
  /\ UNCHANGED <<ready, keys, keysRev, stale, call, result>>

(* The keys grow too old. *)
Expire ==
  /\ HasRemote /\ ready
  /\ stale' = TRUE
  /\ UNCHANGED <<published, rev, ready, keys, keysRev, call, result, absent>>

(* The cache takes over a set published since the one it holds, with at     *)
(* least one usable key; the set of the current revision is the published  *)
(* one, and the same revision never brings other keys.                     *)
Advance ==
  /\ HasRemote
  /\ keysRev' \in keysRev..rev
  /\ keys' # {} /\ keys' \subseteq jwk_set_to_keys(Jwk)
  /\ keysRev' = rev => keys' = jwk_set_to_keys(published)
  /\ ready /\ keysRev' = keysRev => keys' = keys
  /\ stale' = FALSE
  /\ ready' = TRUE

(* A refresh of the background task, or of an unknown kid. *)
Refresh ==
  /\ Advance
  /\ UNCHANGED <<published, rev, call, result, absent>>

(* The verdict of the cache at this moment. *)
CacheVerdict(token) ==
  IF stale THEN "JwksStale" ELSE validate_with_keys(keys, token)

(* A call the cache can answer at once. *)
Ask(c, op, token) ==
  LET verdict == IF ~token.header THEN "Header" ELSE CacheVerdict(token) IN
  /\ ready /\ call[c] = NoCall
  /\ call' = [call EXCEPT ![c] = [op |-> op, token |-> token]]
  /\ op = "validate" \/ verdict # "NoMatchingKey" \/ token.kid = None \/ ~HasRemote
  /\ result' = [result EXCEPT ![c] = verdict]
  /\ absent' \in {absent, [absent EXCEPT ![c] = Lacks(published, token)]}
  /\ UNCHANGED <<published, rev, ready, keys, keysRev, stale>>

(* A call that has to wait for a refresh: an unknown kid, or refresh_now. *)
AskUnknown(c, token) ==
  /\ ready /\ HasRemote /\ call[c] = NoCall
  /\ token.header /\ CacheVerdict(token) = "NoMatchingKey" /\ token.kid # None
  /\ call' = [call EXCEPT ![c] = [op |-> "validate_async", token |-> token]]
  /\ absent' = [absent EXCEPT ![c] = Lacks(published, token)]
  /\ UNCHANGED <<published, rev, ready, keys, keysRev, stale, result>>

AskRefresh(c) ==
  /\ ready /\ call[c] = NoCall
  /\ call' = [call EXCEPT ![c] = [op |-> "refresh_now", token |-> None]]
  /\ UNCHANGED <<published, rev, ready, keys, keysRev, stale, result, absent>>

(* The answers a pending call may get: the verdict of the cache at this     *)
(* moment, or the failure of a refresh; an unknown kid only if the provider *)
(* lacked it at some moment of the call.  refresh_now succeeds without a   *)
(* refresh only when there is nothing to fetch from.                       *)
Allowed(c, verdict) ==
  /\ \/ verdict \in {"Cancelled", "JwksFetch", "JwksParse", "NoMatchingKey"}
     \/ call[c].op = "refresh_now" /\ ~HasRemote /\ verdict = "Ok"
     \/ call[c].op # "refresh_now" /\ verdict = CacheVerdict(call[c].token)
  /\ verdict = "NoMatchingKey" /\ call[c].op = "validate_async" => absent[c]

Answer(c, verdict) ==
  /\ Pending(c)
  /\ Allowed(c, verdict)
  /\ result' = [result EXCEPT ![c] = verdict]
  /\ UNCHANGED <<published, rev, ready, keys, keysRev, stale, call, absent>>

(* refresh_now answers Ok in the step in which the cache moves. *)
AnswerRefresh(c) ==
  /\ Pending(c)
  /\ call[c].op = "refresh_now"
  /\ Advance
  /\ result' = [result EXCEPT ![c] = "Ok"]
  /\ UNCHANGED <<published, rev, call, absent>>

AnyVerdict == {"Ok", "Header", "JwksStale", "Validation", "Cancelled",
               "JwksFetch", "JwksParse", "NoMatchingKey"}

Next ==
  \/ \E doc \in Docs : Publish(doc)
  \/ Expire
  \/ Refresh
  \/ \E c \in Callers, op \in {"validate", "validate_async"}, token \in Token : Ask(c, op, token)
  \/ \E c \in Callers, token \in Token : AskUnknown(c, token)
  \/ \E c \in Callers : AskRefresh(c)
  \/ \E c \in Callers, verdict \in AnyVerdict : Answer(c, verdict)
  \/ \E c \in Callers : AnswerRefresh(c)

Spec == Init /\ [][Next]_vars

==============================================================================
