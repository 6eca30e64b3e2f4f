----------------------------- MODULE MCRecipeCache -----------------------------
(* Two processes with recipes of their own over one base, one recipe plain. *)
EXTENDS RecipeCache, TLC
CONSTANTS p1, p2, msi, chocolatey, bare, win, linux
OneBase == [q \in Recipe |-> IF q = bare THEN linux ELSE win]
OneEach == (p1 :> {msi}) @@ (p2 :> {chocolatey, bare})
=============================================================================
