----------------------------- MODULE TargetCache -----------------------------
(***************************************************************************)
(* The cache of target matches of TargetResolutionExecutor                 *)
(* (experiment/execution/target_resolution.py): a match that a wait_until  *)
(* found may serve the very next resolution of an identical target.  A     *)
(* cache is a counter of resolution attempts and, for each target matched, *)
(* the attempt that matched it and the machine whose screen was searched.  *)
(***************************************************************************)
EXTENDS Naturals, Functions

CONSTANT None

NoMatches == [generation |-> 0, last_match_cache |-> <<>>]

begin_resolution(memo) == [memo EXCEPT !.generation = @ + 1]

Forget(memo, target) ==
  [memo EXCEPT !.last_match_cache = Restrict(@, DOMAIN @ \ {target})]

\* The key is made of the target alone: neither the machine nor an icon is in it.
cache_match(memo, target, machine) ==
  [memo EXCEPT !.last_match_cache =
     [t \in DOMAIN @ \cup {target} |->
        IF t = target THEN [at |-> memo.generation, machine |-> machine] ELSE @[t]]]

\* Mutant: a match stays good for the whole run.
FreshForever(memo, target) == TRUE

\* The attempt under way may use what the attempt just before it found.
Fresh(memo, target) ==
  memo.last_match_cache[target].at + 1 = memo.generation

\* What get_cached_match returns.
Hit(memo, target) ==
  IF target \in DOMAIN memo.last_match_cache /\ Fresh(memo, target)
  THEN memo.last_match_cache[target].machine ELSE None

\* What is left of the cache once a click has looked its target up: a stale
\* entry is dropped, a match that is used is consumed.
get_cached_match(memo, target, use_cache) ==
  IF target \in DOMAIN memo.last_match_cache
       /\ (Hit(memo, target) = None \/ use_cache)
  THEN Forget(memo, target) ELSE memo
=============================================================================
