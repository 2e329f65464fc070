------------------------- MODULE JwksCacheRefinement -------------------------
(* JwksCache implements ValidatorContract: lock, queue, exchanges and clock *)
(* are hidden, `stale` and `ready` are what the code makes of them.         *)
EXTENDS JwksCache

Contract == INSTANCE ValidatorContract WITH stale <- Stale, ready <- Serving

(* Every call is answered in one step from the cache as it is then, and the *)
(* cache only moves forward through the published sets: what validate,      *)
(* validate_async and refresh_now promise, whatever they wait for.          *)
ImplementsContract == Contract!Spec

==============================================================================
