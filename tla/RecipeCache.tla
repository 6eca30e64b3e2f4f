------------------------------ MODULE RecipeCache ------------------------------
(***************************************************************************)
(* Building the disk of a recipe environment (backend/vm/recipe.py): the   *)
(* cache of base disks that recipes share, behind a file lock per base;    *)
(* the provisioning of a base into the recipe's own disk; the registration *)
(* of that disk as a VM row (backend/vm/registration.py), which is the     *)
(* cache of whole recipes; and `adare vm prune` and the removal of an      *)
(* environment beside it.  Every process runs one command at a time.       *)
(*                                                                         *)
(* A disk image is a number that is never used again: no two builds give   *)
(* the same bytes.  Left out: NVRAM and logs, free space, VMs that are     *)
(* running while their image is replaced, and `rm` by the user.            *)
(***************************************************************************)
EXTENDS Naturals

CONSTANTS
  Proc,     \* processes that run adare commands
  Recipe,   \* recipes
  Plain,    \* those without provisioning steps, built without a base
  Base,     \* base disks of the cache
  BaseOf,   \* the base of a recipe
  Menu,     \* the recipes a process may load
  Images,   \* bound on the images that are ever written
  Commands, \* bound on the commands that are given
  None

Image == 0..Images
Poison == 0   \* what an earlier version that wrote the base in place left behind
Mode == {"load", "reprovision", "force"}

ASSUME RecipesAssumption ==
  /\ Plain \subseteq Recipe /\ BaseOf \in [Recipe -> Base] /\ Menu \in [Proc -> SUBSET Recipe]
  /\ Images \in Nat /\ Commands \in Nat
  /\ None \notin Image \cup Proc \cup Recipe

VARIABLES
  image,    \* what has become of an image
  cache,    \* the file of a base
  partial,  \* the .partial- files of a base
  dest,     \* the file of a recipe in VMS_DIR
  holder,   \* who holds the lock of a base
  row,      \* the VM rows of recipe environments
  pc, job,  \* where a process is, and what it works on
  doomed,   \* the bases a prune has found stale
  commands  \* commands still to be given

files == <<image, cache, partial, dest>>
vars == <<files, holder, row, pc, job, doomed, commands>>

NoJob == [recipe |-> None, mode |-> "load", stale |-> FALSE, own |-> None, over |-> None,
          new |-> None, vm |-> None, created |-> FALSE]
Job == [recipe : Recipe \cup {None}, mode : Mode, stale : BOOLEAN, own : Image \cup {None},
        over : Image \cup {None}, new : Image \cup {None}, vm : Image \cup {None}, created : BOOLEAN]
\* A row is known by the hash of its disk; a retired one points at no file.
Row == [recipe : Recipe, hash : Image, at : {"dest", "lost"}, used : BOOLEAN]

r(p) == job[p].recipe
b(p) == BaseOf[job[p].recipe]
force_base(p) == job[p].mode = "force"
force_disk(p) == job[p].mode # "load" \/ job[p].stale
Present(x) == x.at = "dest" /\ dest[x.recipe] # None
Fresh(d) == image[d] = "unwritten" /\ \A e \in Image : image[e] = "unwritten" => d <= e

Init ==
  /\ image = [d \in Image |-> IF d = Poison THEN "truncated" ELSE "unwritten"]
  /\ cache \in [Base -> {None, Poison}]
  /\ partial = [c \in Base |-> {}] /\ dest = [q \in Recipe |-> None]
  /\ holder = [c \in Base |-> None] /\ row = {}
  /\ pc = [p \in Proc |-> "idle"] /\ job = [p \in Proc |-> NoJob]
  /\ doomed = [p \in Proc |-> {}] /\ commands = Commands

At(p, label) == pc[p] = label /\ UNCHANGED <<doomed, commands>>
Goes(p, label) == pc' = [pc EXCEPT ![p] = label]
\* The command of p is over, with or without success.
Ends(p) == Goes(p, "idle") /\ job' = [job EXCEPT ![p] = NoJob]
Command(p) == pc[p] = "idle" /\ commands > 0 /\ commands' = commands - 1

-----------------------------------------------------------------------------
(* build_or_reuse_recipe_vm: the row of the recipe, if its disk is there.  *)

Begin(p, q, mode) ==
  /\ Command(p)
  /\ LET known == {x \in row : x.recipe = q}
         build(stale) ==
           /\ Goes(p, IF q \in Plain THEN "plain" ELSE "base")
           /\ job' = [job EXCEPT ![p] = [NoJob EXCEPT !.recipe = q, !.mode = mode, !.stale = stale]]
     IN \/ (mode # "load" \/ known = {}) /\ build(FALSE)
        \/ \E x \in known :   \* the first row of the hash, in no order
             /\ mode = "load"
             /\ IF Present(x)
                THEN /\ Goes(p, "version")
                     /\ job' = [job EXCEPT ![p] = [NoJob EXCEPT !.recipe = q, !.vm = x.hash]]
                ELSE build(TRUE)
  /\ UNCHANGED <<files, holder, row, doomed>>

-----------------------------------------------------------------------------
(* Stage 1: _build_base_disk.                                              *)

\* Mutant: any file at the path is a base.
AnyFile(c) == cache[c] # None
_cached_base_is_usable(c) == cache[c] # None /\ image[cache[c]] # "truncated"
Hit(p) == ~force_base(p) /\ _cached_base_is_usable(b(p))

\* The fast path, without the lock.
LookForBase(p) ==
  /\ At(p, "base")
  /\ Goes(p, IF Hit(p) THEN "stage2" ELSE "queue")
  /\ UNCHANGED <<files, holder, row, job>>

\* Mutants: no lock; the re-check forgets force; no re-check.
Unguarded(c) == TRUE
HitForced(p) == _cached_base_is_usable(b(p))
NoSecondLook(p) == FALSE
exclusive_lock(c) == holder[c] = None
HitAgain(p) == Hit(p)

TurnHit(p) ==
  /\ At(p, "queue") /\ exclusive_lock(b(p)) /\ HitAgain(p)
  /\ Goes(p, "stage2")
  /\ UNCHANGED <<files, holder, row, job>>

\* Every partial file is a leftover now; the new one has a name of its own.
Install(p) ==
  /\ At(p, "queue") /\ exclusive_lock(b(p)) /\ ~HitAgain(p)
  /\ holder' = [holder EXCEPT ![b(p)] = p]
  /\ cache' = IF force_base(p) THEN cache ELSE [cache EXCEPT ![b(p)] = None]
  /\ \E d \in Image :
       /\ Fresh(d) /\ image' = [image EXCEPT ![d] = "growing"]
       /\ partial' = [partial EXCEPT ![b(p)] = {d}]
       /\ job' = [job EXCEPT ![p].new = d]
  /\ Goes(p, "install")
  /\ UNCHANGED <<dest, row>>

Publish(p) ==
  /\ At(p, "install") /\ job[p].new \in partial[b(p)]
  /\ image' = [image EXCEPT ![job[p].new] = "whole"]
  /\ cache' = [cache EXCEPT ![b(p)] = job[p].new]
  /\ partial' = [partial EXCEPT ![b(p)] = @ \ {job[p].new}]
  /\ holder' = [holder EXCEPT ![b(p)] = None]
  /\ job' = [job EXCEPT ![p].own = job[p].new, ![p].new = None] /\ Goes(p, "stage2")
  /\ UNCHANGED <<dest, row>>

\* Mutant: an install that fails keeps the lock.
StaysLocked(p) == holder
Unlocked(p) == [c \in Base |-> IF holder[c] = p THEN None ELSE holder[c]]

\* An error the creator knows removes the disk, any other leaves it.
InstallFails(p) ==
  /\ At(p, "install")
  /\ partial' \in {partial, [partial EXCEPT ![b(p)] = @ \ {job[p].new}]}
  /\ holder' = Unlocked(p) /\ Ends(p)
  /\ UNCHANGED <<image, cache, dest, row>>

-----------------------------------------------------------------------------
(* Stage 2: _provision_disk, or the whole build of a plain recipe.         *)

\* A file without a row is not trusted.
Refuses(p) == dest[r(p)] # None /\ ~force_disk(p)

Provision(p) ==
  /\ At(p, "stage2")
  /\ dest' = IF Refuses(p) THEN dest ELSE [dest EXCEPT ![r(p)] = None]
  /\ IF Refuses(p) \/ cache[b(p)] = None THEN Ends(p)
     ELSE Goes(p, "provision") /\ job' = [job EXCEPT ![p].over = cache[b(p)]]
  /\ UNCHANGED <<image, cache, partial, holder, row>>

\* A RecipeProvisionError removes the disk at the recipe's path, any other does not.
ProvisionFails(p) ==
  /\ At(p, "provision") /\ Ends(p)
  /\ dest' \in {dest, [dest EXCEPT ![r(p)] = None]}
  /\ UNCHANGED <<image, cache, partial, holder, row>>

Writes(p) ==
  \E d \in Image :
    /\ Fresh(d) /\ image' = [image EXCEPT ![d] = "growing"]
    /\ dest' = [dest EXCEPT ![r(p)] = d]
    /\ Goes(p, "write")
    /\ job' = [job EXCEPT ![p].new = d, ![p].over = IF @ = cache[b(p)] THEN @ ELSE None]

\* flatten_overlay reads the base by its path once more.
Flatten(p) ==
  /\ At(p, "provision")
  /\ IF cache[b(p)] # None THEN Writes(p)
     ELSE Ends(p) /\ dest' = [dest EXCEPT ![r(p)] = None] /\ UNCHANGED image
  /\ UNCHANGED <<cache, partial, holder, row>>

BuildPlain(p) ==
  /\ At(p, "plain")
  /\ IF Refuses(p) THEN Ends(p) /\ UNCHANGED <<image, dest>> ELSE Writes(p)
  /\ UNCHANGED <<cache, partial, holder, row>>

Written(p) ==
  /\ At(p, "write") /\ (r(p) \in Plain => dest[r(p)] = job[p].new)
  /\ image' = [image EXCEPT ![job[p].new] =
                 IF r(p) \in Plain \/ job[p].over # None THEN "whole" ELSE "mixed"]
  /\ dest' = [dest EXCEPT ![r(p)] = job[p].new]
  /\ Goes(p, "hash")
  /\ UNCHANGED <<cache, partial, holder, row, job>>

\* Only the creator of a plain disk cleans up; a failed flatten leaves what it wrote.
WriteFails(p) ==
  /\ At(p, "write") /\ Ends(p)
  /\ \/ UNCHANGED dest
     \/ r(p) \in Plain /\ dest' = [dest EXCEPT ![r(p)] = None]
  /\ UNCHANGED <<image, cache, partial, holder, row>>

-----------------------------------------------------------------------------
(* load_vm_file_for_environment, and the environment version.              *)

Hash(p) ==
  /\ At(p, "hash")
  /\ IF dest[r(p)] = None THEN Ends(p)
     ELSE Goes(p, "register") /\ job' = [job EXCEPT ![p].new = dest[r(p)]]
  /\ UNCHANGED <<files, holder, row>>

SameHash(p) == {x \in row : x.hash = job[p].new}
SameName(p) == {x \in row : x.recipe = r(p) /\ x.at = "dest"}

Registers(p, rest) ==
  /\ row' = rest \cup {[recipe |-> r(p), hash |-> job[p].new, at |-> "dest", used |-> FALSE]}
  /\ Goes(p, "version") /\ job' = [job EXCEPT ![p].vm = job[p].new, ![p].created = TRUE]
  /\ UNCHANGED dest

Register(p) ==
  /\ At(p, "register")
  /\ IF SameHash(p) # {}
     THEN Goes(p, "version") /\ job' = [job EXCEPT ![p].vm = job[p].new] /\ UNCHANGED <<dest, row>>
     ELSE IF SameName(p) = {}
     THEN IF dest[r(p)] # None THEN Registers(p, row) ELSE Ends(p) /\ UNCHANGED <<dest, row>>
     ELSE \E x \in SameName(p) :
            \/ ~force_disk(p) /\ Ends(p) /\ UNCHANGED <<dest, row>>   \* VMNameConflictError
            \/ /\ force_disk(p) /\ x.used /\ dest[r(p)] # None        \* retire_image
               /\ Registers(p, (row \ {x}) \cup {[x EXCEPT !.at = "lost"]})
            \/ /\ force_disk(p) /\ x.used /\ dest[r(p)] = None
               /\ row' = (row \ {x}) \cup {[x EXCEPT !.at = "lost"]} /\ Ends(p) /\ UNCHANGED dest
            \* teardown_unreferenced_vm removes the disk at the path: the new one
            \/ /\ force_disk(p) /\ ~x.used
               /\ row' = row \ {x} /\ dest' = [dest EXCEPT ![r(p)] = None] /\ Ends(p)
  /\ UNCHANGED <<image, cache, partial, holder>>

\* _register_version, or _cleanup_failed_load.
Version(p) ==
  /\ At(p, "version") /\ Ends(p)
  /\ \E x \in row :
       /\ x.hash = job[p].vm
       /\ \/ row' = (row \ {x}) \cup {[x EXCEPT !.used = TRUE]} /\ UNCHANGED dest
          \/ /\ job[p].created /\ row' = row \ {x}
             /\ dest' = IF x.at = "dest" THEN [dest EXCEPT ![x.recipe] = None] ELSE dest
          \/ ~job[p].created /\ UNCHANGED <<row, dest>>
  /\ UNCHANGED <<image, cache, partial, holder>>

\* The row is gone: the foreign key refuses the version.
NoVersion(p) ==
  /\ At(p, "version") /\ \A x \in row : x.hash # job[p].vm
  /\ Ends(p) /\ UNCHANGED <<files, holder, row>>

-----------------------------------------------------------------------------
(* Beside the loads.                                                       *)

\* `env remove`, with the VMs no other environment uses.
Remove(q) ==
  /\ commands > 0 /\ commands' = commands - 1
  /\ \E x \in row : x.recipe = q /\ x.used
  /\ row' = {x \in row : ~(x.recipe = q /\ x.used)}
  /\ dest' = IF \E x \in row : x.recipe = q /\ x.used /\ x.at = "dest"
             THEN [dest EXCEPT ![q] = None] ELSE dest
  /\ UNCHANGED <<image, cache, partial, holder, pc, job, doomed>>

_live_recipe_base_hashes == {BaseOf[x.recipe] : x \in {y \in row : y.used}}

Prune(p) ==
  /\ Command(p)
  /\ LET stale == {c \in Base : cache[c] # None} \ _live_recipe_base_hashes
     IN stale # {} /\ doomed' = [doomed EXCEPT ![p] = stale]
  /\ Goes(p, "prune") /\ UNCHANGED <<files, holder, row, job>>

Unlink(p) ==
  /\ pc[p] = "prune"
  /\ \E c \in doomed[p] :
       /\ doomed' = [doomed EXCEPT ![p] = @ \ {c}]
       /\ cache' = [cache EXCEPT ![c] = None]
       /\ Goes(p, IF doomed[p] = {c} THEN "idle" ELSE "prune")
  /\ UNCHANGED <<image, partial, dest, holder, row, job, commands>>

\* The kernel lets go of the lock; the files stay.
Crash(p) ==
  /\ pc[p] # "idle" /\ Ends(p)
  /\ holder' = [c \in Base |-> IF holder[c] = p THEN None ELSE holder[c]]
  /\ doomed' = [doomed EXCEPT ![p] = {}]
  /\ UNCHANGED <<files, row, commands>>

Step(p) ==
  \/ LookForBase(p) \/ TurnHit(p) \/ Install(p) \/ Publish(p) \/ InstallFails(p)
  \/ Provision(p) \/ ProvisionFails(p) \/ Flatten(p) \/ BuildPlain(p) \/ Written(p) \/ WriteFails(p)
  \/ Hash(p) \/ Register(p) \/ Version(p) \/ NoVersion(p) \/ Unlink(p)

Next ==
  \/ \E p \in Proc : Step(p) \/ Prune(p) \/ Crash(p)
  \/ \E p \in Proc : \E q \in Menu[p], mode \in Mode : Begin(p, q, mode)
  \/ \E q \in Recipe : Remove(q)

Spec == Init /\ [][Next]_vars
\* A command goes on: an install or a provisioning ends, and flock lets a waiter in.
FairSpec == Spec /\ \A p \in Proc : WF_vars(Step(p))

-----------------------------------------------------------------------------
Label == {"idle", "base", "queue", "install", "stage2", "provision", "plain", "write", "hash",
          "register", "version", "prune"}

\* The state has the shape the code gives it.
TypeOK ==
  /\ image \in [Image -> {"unwritten", "truncated", "growing", "whole", "mixed"}]
  /\ cache \in [Base -> Image \cup {None}] /\ partial \in [Base -> SUBSET Image]
  /\ dest \in [Recipe -> Image \cup {None}] /\ holder \in [Base -> Proc \cup {None}]
  /\ row \subseteq Row /\ pc \in [Proc -> Label] /\ job \in [Proc -> Job]
  /\ doomed \in [Proc -> SUBSET Base] /\ commands \in Nat
  /\ \A p \in Proc : pc[p] \notin {"idle", "prune"} => r(p) # None

\* The disk a running install writes to is never removed under it, by the sweep
\* of another build or by a prune (recipe.py _discard_stale_partial_builds).
LivePartialKept == \A p \in Proc : pc[p] = "install" => job[p].new \in partial[b(p)]

\* A published base is a finished install, also after a crash at any moment, and a
\* registered disk was written to its end (recipe.py _build_base_disk, _provision_disk).
WholeOnly ==
  /\ \A c \in Base : cache[c] # None => image[cache[c]] \in {"truncated", "whole"}
  /\ \A p \in Proc : pc[p] = "provision" => image[job[p].over] = "whole"
  /\ \A x \in row : image[x.hash] \in {"whole", "mixed"}

\* A forced load goes on only with a base it has installed itself, however many
\* other builds have finished while it waited (recipe.py _build_base_disk, "force").
ForceInstalls == \A p \in Proc : pc[p] \in {"stage2", "provision"} /\ force_base(p) => job[p].own # None

\* A usable base is given up only for that of a forced build, or by a prune that found
\* nobody use it: builds that queue for a base collapse into one, and none of them
\* replaces what another has finished (recipe.py _build_base_disk, the re-check).
UsableBaseKept ==
  [][\A c \in Base : _cached_base_is_usable(c) /\ cache'[c] # cache[c] =>
       \E p \in Proc :
          \/ pc[p] = "install" /\ pc'[p] = "stage2" /\ b(p) = c /\ force_base(p)
          \/ pc[p] = "prune" /\ c \in doomed[p]]_vars

\* Every command ends, also when the process that held the lock failed or died.
EveryLoadEnds == \A p \in Proc : pc[p] # "idle" ~> pc[p] = "idle"

\* A load that is neither forced nor a --reprovision builds nothing while a row of
\* its recipe has its disk (vm-image-creation.rst: "reuses it -- no rebuild").
PresentIsReused ==
  [][\A p \in Proc : pc[p] = "idle" /\ pc'[p] \in {"base", "plain"} /\ job'[p].mode = "load"
                       => ~\E x \in row : x.recipe = job'[p].recipe /\ Present(x)]_vars

\* What a load finds as the disk of a row was written to its end.
HitIsWhole == \A x \in row : Present(x) => image[dest[x.recipe]] \in {"whole", "mixed"}

\* No registered disk mixes two bases.
Unmixed == \A x \in row : image[x.hash] # "mixed"
================================================================================
