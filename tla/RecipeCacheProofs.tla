--------------------------- MODULE RecipeCacheProofs ---------------------------
(***************************************************************************)
(* Theorems about the cache of base disks, for any number of processes,    *)
(* recipes, bases and images.                                              *)
(***************************************************************************)
EXTENDS RecipeCache, TLAPS

\* A step of p, of whatever kind.
Acts(p) ==
  \/ Step(p) \/ Prune(p) \/ Crash(p)
  \/ \E q \in Menu[p], mode \in Mode : Begin(p, q, mode)

\* A process that builds loads a recipe of its menu, into an image of its own.
JobOK ==
  \A p \in Proc :
    /\ pc[p] \notin {"idle", "prune"} => r(p) \in Menu[p]
    /\ pc[p] \in {"install", "write", "hash", "register"} => job[p].new \in Image

\* An image that is being written grows, and nobody else writes it.
Growing == \A p \in Proc : pc[p] \in {"install", "write"} => image[job[p].new] = "growing"
Apart ==
  \A p, q \in Proc :
    p # q /\ {pc[p], pc[q]} \subseteq {"install", "write"} => job[p].new # job[q].new

\* Whoever installs a base holds its lock.
Locked == \A p \in Proc : pc[p] = "install" => holder[b(p)] = p

\* A base that was published is whole, unless it was there before.
BasesWhole == \A c \in Base : cache[c] # None => image[cache[c]] \in {"truncated", "whole"}

\* Stage 2 begins with a base that was whole when it was looked at, and a base only
\* gives way to another one that is whole.
OverWhole ==
  \A p \in Proc :
    /\ pc[p] = "stage2" => cache[b(p)] = None \/ image[cache[b(p)]] = "whole"
    /\ pc[p] = "provision" => job[p].over \in Image /\ image[job[p].over] = "whole"

\* Under the lock of an install that is not forced, its base stays absent.
NothingThere == \A p \in Proc : pc[p] = "install" /\ ~force_base(p) => cache[b(p)] = None

Inv == /\ TypeOK /\ JobOK /\ Growing /\ Apart /\ Locked /\ LivePartialKept /\ ForceInstalls
       /\ BasesWhole /\ OverWhole

\* What a process hashes and registers was written to its end: this is true of
\* recipes that only one process loads, since nothing locks the path of a disk.
OneLoader == \A p, q \in Proc : p # q => Menu[p] \cap Menu[q] = {}
DisksWhole ==
  /\ \A p \in Proc :
       /\ pc[p] = "hash" => dest[r(p)] = None \/ image[dest[r(p)]] \in {"whole", "mixed"}
       /\ pc[p] = "register" => image[job[p].new] \in {"whole", "mixed"}
  /\ \A x \in row : image[x.hash] \in {"whole", "mixed"}

-----------------------------------------------------------------------------

LEMMA InitInv == Init => Inv
<1> SUFFICES ASSUME Init PROVE Inv
  OBVIOUS
<1> USE RecipesAssumption
<1>1. TypeOK
  BY DEF Init, TypeOK, NoJob, Job, Mode, Image, Poison, Label, Row
<1>2. JobOK /\ Growing /\ Apart /\ Locked /\ LivePartialKept /\ ForceInstalls /\ OverWhole
  BY DEF Init, JobOK, Growing, Apart, Locked, LivePartialKept, ForceInstalls, OverWhole
<1>3. BasesWhole BY DEF Init, BasesWhole, Image, Poison
<1> QED BY <1>1, <1>2, <1>3 DEF Inv

LEMMA NoJobIsJob == NoJob \in Job
  BY DEF Job, NoJob, Mode

\* A job whose fields are set stays a job.
LEMMA JobSet ==
  ASSUME NEW j \in Job
  PROVE  /\ \A d \in Image \cup {None} :
              /\ [j EXCEPT !.new = d] \in Job /\ [j EXCEPT !.over = d] \in Job
              /\ \A o \in Image \cup {None} : [j EXCEPT !.new = d, !.over = o] \in Job
              /\ [j EXCEPT !.vm = d] \in Job /\ [j EXCEPT !.vm = d, !.created = TRUE] \in Job
         /\ \A q \in Recipe, mode \in Mode :
              /\ \A stale \in BOOLEAN :
                   [NoJob EXCEPT !.recipe = q, !.mode = mode, !.stale = stale] \in Job
              /\ \A d \in Image : [NoJob EXCEPT !.recipe = q, !.vm = d] \in Job
<1>1. ASSUME NEW d \in Image \cup {None}
      PROVE  /\ [j EXCEPT !.new = d] \in Job /\ [j EXCEPT !.over = d] \in Job
             /\ \A o \in Image \cup {None} : [j EXCEPT !.new = d, !.over = o] \in Job
  BY DEF Job
<1>2. ASSUME NEW d \in Image \cup {None}
      PROVE  [j EXCEPT !.vm = d] \in Job /\ [j EXCEPT !.vm = d, !.created = TRUE] \in Job
  BY DEF Job
<1>3. ASSUME NEW q \in Recipe, NEW mode \in Mode, NEW stale \in BOOLEAN
      PROVE  [NoJob EXCEPT !.recipe = q, !.mode = mode, !.stale = stale] \in Job
  BY DEF Job, NoJob
<1>4. ASSUME NEW q \in Recipe, NEW d \in Image PROVE [NoJob EXCEPT !.recipe = q, !.vm = d] \in Job
  BY DEF Job, NoJob, Mode
<1> QED BY <1>1, <1>2, <1>3, <1>4

\* The end of a command keeps all jobs.
LEMMA EndsJob ==
  ASSUME job \in [Proc -> Job], NEW p \in Proc, Ends(p)
  PROVE  /\ job' \in [Proc -> Job]
         /\ \A q \in Proc : q # p => job'[q] = job[q]
  BY NoJobIsJob DEF Ends

\* A build of a disk takes an image that is new, at the recipe's path.
LEMMA WritesJob ==
  ASSUME TypeOK, NEW p \in Proc, Writes(p)
  PROVE  /\ \E d \in Image : /\ Fresh(d) /\ image' = [image EXCEPT ![d] = "growing"]
                             /\ dest' = [dest EXCEPT ![r(p)] = d] /\ job'[p].new = d
         /\ job' \in [Proc -> Job] /\ job'[p].recipe = job[p].recipe
         /\ \A q \in Proc : q # p => job'[q] = job[q]
<1>0. job \in [Proc -> Job] /\ job[p] \in Job BY DEF TypeOK
<1>1. PICK d \in Image :
        /\ Fresh(d) /\ image' = [image EXCEPT ![d] = "growing"] /\ dest' = [dest EXCEPT ![r(p)] = d]
        /\ job' = [job EXCEPT ![p].new = d, ![p].over = IF @ = cache[b(p)] THEN @ ELSE None]
  BY DEF Writes
<1>2. PICK o \in Image \cup {None} : job' = [job EXCEPT ![p] = [job[p] EXCEPT !.new = d, !.over = o]]
  <2> DEFINE o == IF job[p].over = cache[b(p)] THEN job[p].over ELSE None
  <2>1. o \in Image \cup {None} BY <1>0 DEF Job
  <2>2. [job[p] EXCEPT !.new = d].over = job[p].over BY <1>0 DEF Job
  <2>3. job' = [job EXCEPT ![p] = [job[p] EXCEPT !.new = d, !.over = o]] BY <1>0, <1>1, <2>2
  <2> QED BY <2>1, <2>3
<1>3. [job[p] EXCEPT !.new = d, !.over = o] \in Job BY <1>0, JobSet
<1>4. job'[p].new = d /\ job'[p].recipe = job[p].recipe BY <1>0, <1>2 DEF Job
<1> QED BY <1>0, <1>1, <1>2, <1>3, <1>4

\* A step of p changes p's place and job only.
LEMMA Frame ==
  ASSUME TypeOK, JobOK, NEW p \in Proc, Acts(p)
  PROVE  /\ job' \in [Proc -> Job] /\ pc' \in [Proc -> Label]
         /\ \A q \in Proc : q # p => pc'[q] = pc[q] /\ job'[q] = job[q]
<1> DEFINE Typed == job' \in [Proc -> Job] /\ pc' \in [Proc -> Label]
           Others == \A q \in Proc : q # p => pc'[q] = pc[q] /\ job'[q] = job[q]
<1> SUFFICES Typed /\ Others OBVIOUS
<1> USE DEF TypeOK, Goes
<1>0. job[p] \in Job BY DEF TypeOK
<1>1. CASE LookForBase(p) \/ TurnHit(p) BY <1>1 DEF LookForBase, TurnHit, Label
<1>2. CASE InstallFails(p) \/ ProvisionFails(p) \/ WriteFails(p) \/ Crash(p)
  BY <1>2, EndsJob DEF InstallFails, ProvisionFails, WriteFails, Crash, Ends, Label
<1>3. CASE Install(p)
  <2>1. PICK d \in Image : job' = [job EXCEPT ![p].new = d] BY <1>3 DEF Install
  <2>2. job' \in [Proc -> Job] BY <1>0, <2>1, JobSet
  <2> QED BY <1>3, <2>1, <2>2 DEF Install, Label
<1>4. CASE Publish(p)
  <2>1. job' = [job EXCEPT ![p] = [job[p] EXCEPT !.own = job[p].new, !.new = None]]
    BY <1>4 DEF Publish
  <2>2. [job[p] EXCEPT !.own = job[p].new, !.new = None] \in Job BY <1>0 DEF Job
  <2> QED BY <1>4, <2>1, <2>2 DEF Publish, Label
<1>5. CASE Provision(p)
  <2>1. cache[b(p)] \in Image \cup {None}
    BY <1>5, RecipesAssumption DEF Provision, At, b, r, Job
  <2>2. CASE Refuses(p) \/ cache[b(p)] = None
    BY <1>5, <2>2, EndsJob DEF Provision, Ends, Label
  <2>3. CASE ~(Refuses(p) \/ cache[b(p)] = None)
    <3>1. job' = [job EXCEPT ![p].over = cache[b(p)]] BY <1>5, <2>3 DEF Provision
    <3>2. job' \in [Proc -> Job] BY <1>0, <2>1, <3>1, JobSet
    <3> QED BY <1>5, <2>3, <3>1, <3>2 DEF Provision, Label
  <2> QED BY <2>2, <2>3
<1>6. ASSUME Writes(p) PROVE Typed /\ Others
  <2>1. /\ job' \in [Proc -> Job] /\ \A q \in Proc : q # p => job'[q] = job[q]
        /\ pc' = [pc EXCEPT ![p] = "write"]
    BY <1>6, WritesJob DEF Writes
  <2> QED BY <2>1 DEF Label
<1>7. CASE Flatten(p) BY <1>6, <1>7, EndsJob DEF Flatten, Ends, Label
<1>8. CASE BuildPlain(p) BY <1>6, <1>8, EndsJob DEF BuildPlain, Ends, Label
<1>9. CASE Written(p) BY <1>9 DEF Written, Label
<1>10. CASE Hash(p)
  <2>1. dest[r(p)] \in Image \cup {None} BY <1>10 DEF Hash, At, r, Job
  <2>2. CASE dest[r(p)] = None BY <1>10, <2>2, EndsJob DEF Hash, Ends, Label
  <2>3. CASE dest[r(p)] # None
    <3>1. job' = [job EXCEPT ![p].new = dest[r(p)]] BY <1>10, <2>3 DEF Hash
    <3>2. job' \in [Proc -> Job] BY <1>0, <2>1, <3>1, JobSet
    <3> QED BY <1>10, <2>3, <3>1, <3>2 DEF Hash, Label
  <2> QED BY <2>2, <2>3
<1>11. CASE Register(p)
  <2>0. job[p].new \in Image BY <1>11 DEF Register, At, JobOK
  <2>1. ASSUME NEW rest, Registers(p, rest) PROVE Typed /\ Others
    <3>1. job' = [job EXCEPT ![p] = [job[p] EXCEPT !.vm = job[p].new, !.created = TRUE]]
      BY <2>1 DEF Registers
    <3>2. [job[p] EXCEPT !.vm = job[p].new, !.created = TRUE] \in Job BY <1>0, <2>0, JobSet
    <3> QED BY <2>1, <3>1, <3>2 DEF Registers, Label
  <2>2. ASSUME Goes(p, "version"), job' = [job EXCEPT ![p].vm = job[p].new] PROVE Typed /\ Others
    <3>1. job' \in [Proc -> Job] BY <1>0, <2>0, <2>2, JobSet
    <3> QED BY <2>2, <3>1 DEF Label
  <2>3. ASSUME Ends(p) PROVE Typed /\ Others BY <2>3, EndsJob DEF Ends, Label
  <2> QED BY <1>11, <2>1, <2>2, <2>3 DEF Register
<1>12. CASE Version(p) \/ NoVersion(p) BY <1>12, EndsJob DEF Version, NoVersion, Ends, Label
<1>13. CASE Prune(p) \/ Unlink(p) BY <1>13 DEF Prune, Unlink, Label
<1>14. ASSUME NEW q \in Menu[p], NEW mode \in Mode, Begin(p, q, mode) PROVE Typed /\ Others
  <2>0. q \in Recipe BY RecipesAssumption
  <2>1. PICK j \in Job, l \in Label : job' = [job EXCEPT ![p] = j] /\ pc' = [pc EXCEPT ![p] = l]
    <3>1. ASSUME NEW stale \in BOOLEAN PROVE [NoJob EXCEPT !.recipe = q, !.mode = mode, !.stale = stale] \in Job
      BY <1>0, <2>0, JobSet
    <3>2. ASSUME NEW x \in row PROVE [NoJob EXCEPT !.recipe = q, !.vm = x.hash] \in Job
      BY <1>0, <2>0, JobSet DEF Row
    <3> QED BY <1>14, <3>1, <3>2 DEF Begin, Label
  <2> QED BY <2>1
<1> QED
  BY <1>1, <1>2, <1>3, <1>4, <1>5, <1>7, <1>8, <1>9, <1>10, <1>11, <1>12, <1>13, <1>14 DEF
       Acts, Step

\* What a process works on after its step.
LEMMA OwnJob ==
  ASSUME TypeOK, JobOK, NEW p \in Proc, Acts(p)
  PROVE  /\ pc'[p] \notin {"idle", "prune"} => job'[p].recipe \in Menu[p]
         /\ pc'[p] \in {"install", "write", "hash", "register"} => job'[p].new \in Image
<1> DEFINE Own == /\ pc'[p] \notin {"idle", "prune"} => job'[p].recipe \in Menu[p]
                  /\ pc'[p] \in {"install", "write", "hash", "register"} => job'[p].new \in Image
<1> SUFFICES Own OBVIOUS
<1>0. /\ job \in [Proc -> Job] /\ job[p] \in Job /\ pc \in [Proc -> Label]
      /\ dest \in [Recipe -> Image \cup {None}]
  BY DEF TypeOK
<1>1. CASE LookForBase(p) \/ TurnHit(p) \/ Written(p)
  BY <1>0, <1>1 DEF LookForBase, TurnHit, Written, JobOK, r, Goes, At
<1>2. CASE Ends(p) BY <1>0, <1>2 DEF Ends, Goes
<1>3. CASE Install(p)
  <2>1. PICK d \in Image : job' = [job EXCEPT ![p].new = d] BY <1>3 DEF Install
  <2> QED BY <1>0, <1>3, <2>1 DEF Install, JobOK, Job, r, Goes, At
<1>4. CASE Publish(p) BY <1>0, <1>4 DEF Publish, Job, JobOK, r, Goes, At
<1>5. CASE Provision(p) BY <1>0, <1>2, <1>5 DEF Provision, Job, JobOK, r, Goes, At
<1>6. ASSUME Writes(p), pc[p] \in {"provision", "plain"} PROVE Own
  BY <1>6, WritesJob DEF JobOK, r
<1>7. CASE Flatten(p) BY <1>2, <1>6, <1>7 DEF Flatten, At
<1>8. CASE BuildPlain(p) BY <1>2, <1>6, <1>8 DEF BuildPlain, At
<1>9. CASE Hash(p)
  <2>1. job[p].recipe \in Menu[p] BY <1>9 DEF Hash, At, JobOK, r
  <2>2. dest[r(p)] \in Image \cup {None} BY <1>0, <2>1, RecipesAssumption DEF r
  <2> QED BY <1>0, <1>2, <1>9, <2>1, <2>2 DEF Hash, Job, Goes
<1>10. CASE Register(p)
  <2>0. job[p].recipe \in Menu[p] BY <1>10 DEF Register, At, JobOK, r
  <2>1. ASSUME NEW rest, Registers(p, rest) PROVE Own
    BY <1>0, <2>0, <2>1 DEF Registers, Job, Goes
  <2>2. ASSUME Goes(p, "version"), job' = [job EXCEPT ![p].vm = job[p].new] PROVE Own
    BY <1>0, <2>0, <2>2 DEF Job, Goes
  <2> HIDE DEF Own
  <2> QED BY <1>2, <1>10, <2>1, <2>2 DEF Register
<1>11. CASE Unlink(p) BY <1>0, <1>11 DEF Unlink, Goes
<1>12. CASE Prune(p) BY <1>0, <1>12 DEF Prune, Goes
<1>13. ASSUME NEW q \in Menu[p], NEW mode \in Mode, Begin(p, q, mode) PROVE Own
  <2>1. PICK l \in {"plain", "base", "version"} : pc' = [pc EXCEPT ![p] = l]
    BY <1>13 DEF Begin, Goes
  <2>2. job'[p].recipe = q BY <1>0, <1>13 DEF Begin, NoJob
  <2> QED BY <1>0, <2>1, <2>2
<1> HIDE DEF Own
<1> QED
  BY <1>1, <1>2, <1>3, <1>4, <1>5, <1>7, <1>8, <1>9, <1>10, <1>11, <1>12, <1>13
  DEF Acts, Step, InstallFails, ProvisionFails, WriteFails, Version, NoVersion, Crash

\* Every set keeps its type, and a build the recipe it was given.
LEMMA TypeOKStep ==
  ASSUME TypeOK, JobOK, [Next]_vars PROVE TypeOK' /\ JobOK'
<1> USE RecipesAssumption
<1>1. CASE UNCHANGED vars BY <1>1 DEF vars, files, TypeOK, JobOK, r
<1>2. ASSUME NEW p \in Proc, Acts(p) PROVE TypeOK' /\ JobOK'
  <2>1. /\ job' \in [Proc -> Job] /\ pc' \in [Proc -> Label]
        /\ \A q \in Proc : q # p => pc'[q] = pc[q] /\ job'[q] = job[q]
    BY <1>2, Frame
  <2>2. JobOK' BY <1>2, <2>1, OwnJob DEF JobOK, r, TypeOK
  <2>3. \A q \in Proc : pc'[q] \notin {"idle", "prune"} => job'[q].recipe # None
    BY <2>2 DEF JobOK, r
  <2> DEFINE States == {"unwritten", "truncated", "growing", "whole", "mixed"}
             FilesOK == /\ image' \in [Image -> States]
                        /\ cache' \in [Base -> Image \cup {None}] /\ partial' \in [Base -> SUBSET Image]
                        /\ dest' \in [Recipe -> Image \cup {None}]
             RestOK == /\ holder' \in [Base -> Proc \cup {None}] /\ row' \subseteq Row
                       /\ doomed' \in [Proc -> SUBSET Base] /\ commands' \in Nat
  <2>4. FilesOK /\ RestOK
    <3>0. /\ image \in [Image -> States]
          /\ cache \in [Base -> Image \cup {None}] /\ partial \in [Base -> SUBSET Image]
          /\ dest \in [Recipe -> Image \cup {None}]
          /\ holder \in [Base -> Proc \cup {None}] /\ row \subseteq Row
          /\ doomed \in [Proc -> SUBSET Base] /\ commands \in Nat
          /\ job[p] \in Job /\ pc \in [Proc -> Label]
      BY DEF TypeOK
    <3>1. CASE LookForBase(p) \/ TurnHit(p) \/ Hash(p) \/ NoVersion(p)
      BY <3>0, <3>1 DEF LookForBase, TurnHit, Hash, NoVersion, At, files
    <3>2. CASE Install(p)
      <4>1. PICK d \in Image : /\ image' = [image EXCEPT ![d] = "growing"]
                               /\ partial' = [partial EXCEPT ![b(p)] = {d}]
        BY <3>2 DEF Install
      <4>2. image' \in [Image -> States] /\ partial' \in [Base -> SUBSET Image]
        BY <3>0, <4>1
      <4> QED BY <3>0, <3>2, <4>2 DEF Install, At
    <3>3. CASE Publish(p) BY <3>0, <3>3 DEF Publish, Job, At, JobOK
    <3>4. CASE InstallFails(p)
      <4>1. partial' \in [Base -> SUBSET Image] BY <3>0, <3>4 DEF InstallFails
      <4> QED BY <3>0, <3>4, <4>1 DEF InstallFails, Unlocked, At
    <3>5. CASE Provision(p) \/ ProvisionFails(p) \/ WriteFails(p)
      BY <3>0, <3>5 DEF Provision, ProvisionFails, WriteFails, At
    <3>6. ASSUME Writes(p) PROVE image' \in [Image -> States] /\ dest' \in [Recipe -> Image \cup {None}]
      <4>1. PICK d \in Image : /\ image' = [image EXCEPT ![d] = "growing"]
                               /\ dest' = [dest EXCEPT ![r(p)] = d]
        BY <3>6 DEF Writes
      <4> QED BY <3>0, <4>1
    <3>7. CASE Flatten(p) \/ BuildPlain(p) BY <3>0, <3>6, <3>7 DEF Flatten, BuildPlain, At
    <3>8. CASE Written(p) BY <3>0, <3>8 DEF Written, Job, At, JobOK
    <3>9. CASE Register(p)
      <4>0. job[p].new \in Image /\ r(p) \in Recipe BY <3>9 DEF Register, At, JobOK
      <4>1. ASSUME NEW rest \in SUBSET Row, Registers(p, rest) PROVE row' \subseteq Row
        <5>1. [recipe |-> r(p), hash |-> job[p].new, at |-> "dest", used |-> FALSE] \in Row
          BY <4>0 DEF Row
        <5> QED BY <4>1, <5>1 DEF Registers
      <4>2. ASSUME NEW x \in row PROVE row \ {x} \subseteq Row /\ [x EXCEPT !.at = "lost"] \in Row
        BY <3>0, <4>2 DEF Row
      <4>3. row' \subseteq Row
        <5>1. CASE row' = row \/ Registers(p, row) BY <3>0, <4>1, <5>1
        <5>2. ASSUME NEW x \in row, row' = row \ {x} PROVE row' \subseteq Row BY <4>2, <5>2
        <5>3. ASSUME NEW x \in row, row' = (row \ {x}) \cup {[x EXCEPT !.at = "lost"]} PROVE row' \subseteq Row
          BY <4>2, <5>3
        <5>4. ASSUME NEW x \in row, Registers(p, (row \ {x}) \cup {[x EXCEPT !.at = "lost"]})
              PROVE  row' \subseteq Row
          BY <4>1, <4>2, <5>4
        <5> QED BY <3>9, <5>1, <5>2, <5>3, <5>4 DEF Register, SameName
      <4>4. dest' \in [Recipe -> Image \cup {None}] BY <3>0, <3>9 DEF Register, Registers
      <4> QED BY <3>0, <3>9, <4>3, <4>4 DEF Register, At
    <3>10. CASE Version(p)
      <4>1. ASSUME NEW x \in row
            PROVE row \ {x} \subseteq Row /\ (row \ {x}) \cup {[x EXCEPT !.used = TRUE]} \subseteq Row
        <5>1. x \in Row BY <3>0
        <5>2. ASSUME NEW y \in BOOLEAN PROVE [x EXCEPT !.used = y] \in Row BY <5>1 DEF Row
        <5>3. [x EXCEPT !.used = TRUE] \in Row BY <5>2
        <5> QED BY <3>0, <5>3
      <4>2. row' \subseteq Row BY <3>0, <3>10, <4>1 DEF Version
      <4>3. dest' \in [Recipe -> Image \cup {None}] BY <3>0, <3>10 DEF Version
      <4> QED BY <3>0, <3>10, <4>2, <4>3 DEF Version, At
    <3>11. CASE Unlink(p) BY <3>0, <3>11 DEF Unlink
    <3>12. ASSUME Command(p) PROVE commands' \in Nat BY <3>0, <3>12 DEF Command
    <3>13. CASE Prune(p)
      <4>1. PICK stale \in SUBSET Base : doomed' = [doomed EXCEPT ![p] = stale]
        BY <3>13 DEF Prune
      <4> QED BY <3>0, <3>12, <3>13, <4>1 DEF Prune, files
    <3>14. CASE Crash(p) BY <3>0, <3>14 DEF Crash, files
    <3>15. ASSUME NEW q \in Menu[p], NEW mode \in Mode, Begin(p, q, mode) PROVE FilesOK /\ RestOK
      <4>1. UNCHANGED <<files, holder, row, doomed>> /\ Command(p) BY <3>15 DEF Begin
      <4> QED BY <3>0, <3>12, <4>1 DEF files
    <3> HIDE DEF FilesOK, RestOK
    <3> QED
      BY <1>2, <3>1, <3>2, <3>3, <3>4, <3>5, <3>7, <3>8, <3>9, <3>10, <3>11, <3>13, <3>14,
           <3>15
      DEF Acts, Step
  <2> QED BY <2>1, <2>2, <2>3, <2>4 DEF TypeOK, r
<1>3. ASSUME NEW q \in Recipe, Remove(q) PROVE TypeOK' /\ JobOK'
  <2>1. row' \subseteq row /\ commands' \in Nat /\ dest' \in [Recipe -> Image \cup {None}]
    BY <1>3 DEF Remove, TypeOK
  <2> QED BY <1>3, <2>1 DEF Remove, TypeOK, JobOK, r
<1> QED BY <1>1, <1>2, <1>3 DEF Next, Acts

\* Which steps touch what.
LEMMA Changes ==
  ASSUME NEW p \in Proc, Acts(p)
  PROVE  /\ image' # image => Install(p) \/ Publish(p) \/ Written(p) \/ Writes(p)
         /\ cache' # cache => Install(p) \/ Publish(p) \/ Unlink(p)
         /\ partial' # partial => Install(p) \/ Publish(p) \/ InstallFails(p)
         /\ holder' # holder => Install(p) \/ Publish(p) \/ InstallFails(p) \/ Crash(p)
         /\ row' # row => Register(p) \/ Version(p)
<1> USE DEF files
<1>1. CASE LookForBase(p) \/ TurnHit(p) \/ Provision(p) \/ ProvisionFails(p) \/ WriteFails(p) \/ Hash(p)
  BY <1>1 DEF LookForBase, TurnHit, Provision, ProvisionFails, WriteFails, Hash
<1>2. CASE Flatten(p) \/ BuildPlain(p) \/ Written(p)
  BY <1>2 DEF Flatten, BuildPlain, Written
<1>3. CASE Register(p) \/ Version(p) \/ NoVersion(p)
  BY <1>3 DEF Register, Version, NoVersion
<1>4. CASE Prune(p) \/ Unlink(p) \/ Crash(p) BY <1>4 DEF Prune, Unlink, Crash
<1>5. ASSUME NEW q \in Menu[p], NEW mode \in Mode, Begin(p, q, mode) PROVE UNCHANGED <<files, holder, row>>
  BY <1>5 DEF Begin
<1>6. CASE InstallFails(p) BY <1>6 DEF InstallFails
<1>7. CASE Install(p) \/ Publish(p) BY <1>7 DEF Install, Publish
<1> QED BY <1>1, <1>2, <1>3, <1>4, <1>5, <1>6, <1>7 DEF Acts, Step

\* By which steps a process comes to a place.
LEMMA Enters ==
  ASSUME TypeOK, NEW p \in Proc, Acts(p)
  PROVE  /\ pc'[p] = "install" => Install(p)
         /\ pc'[p] = "stage2" => LookForBase(p) \/ TurnHit(p) \/ Publish(p)
         /\ pc'[p] = "provision" => Provision(p)
         /\ pc'[p] = "write" => Writes(p)
         /\ pc'[p] = "hash" => Written(p)
         /\ pc'[p] = "register" => Hash(p)
<1> USE DEF Goes, Ends
<1>0. pc \in [Proc -> Label] BY DEF TypeOK
<1>1. CASE Ends(p) BY <1>0, <1>1
<1>2. CASE LookForBase(p) BY <1>0, <1>2 DEF LookForBase
<1>3. CASE TurnHit(p) \/ Install(p) \/ Publish(p)
  BY <1>0, <1>3 DEF TurnHit, Install, Publish
<1>4. CASE Provision(p) BY <1>0, <1>4 DEF Provision
<1>5. CASE Writes(p) BY <1>0, <1>5 DEF Writes
<1>6. CASE Written(p) BY <1>0, <1>6 DEF Written
<1>7. CASE Hash(p) BY <1>0, <1>7 DEF Hash
<1>8. CASE Register(p) BY <1>0, <1>8 DEF Register, Registers
<1>9. CASE Unlink(p) \/ Prune(p) BY <1>0, <1>9 DEF Unlink, Prune
<1>10. ASSUME NEW q \in Menu[p], NEW mode \in Mode, Begin(p, q, mode)
       PROVE  pc'[p] \in {"plain", "base", "version"}
  BY <1>0, <1>10 DEF Begin
<1> HIDE DEF Goes, Ends
<1> QED
  BY <1>1, <1>2, <1>3, <1>4, <1>5, <1>6, <1>7, <1>8, <1>9, <1>10
  DEF Acts, Step, InstallFails, ProvisionFails, Flatten, BuildPlain, WriteFails, Version, NoVersion, Crash

\* An image is begun once, by a process that then writes it, and does not change
\* once it is whole or mixed.
LEMMA ImageStep ==
  ASSUME TypeOK, JobOK, Growing, NEW p \in Proc, Acts(p)
  PROVE  /\ pc'[p] \in {"install", "write"} =>
              /\ job'[p].new \in Image
              /\ image[job'[p].new] = "unwritten" /\ image'[job'[p].new] = "growing"
         /\ \A d \in Image :
              image'[d] # image[d] =>
                \/ image[d] = "unwritten" /\ image'[d] = "growing"
                   /\ pc'[p] \in {"install", "write"} /\ d = job'[p].new
                \/ image[d] = "growing" /\ image'[d] \in {"whole", "mixed"}
                   /\ pc[p] \in {"install", "write"} /\ d = job[p].new
<1>0. /\ image \in [Image -> {"unwritten", "truncated", "growing", "whole", "mixed"}]
      /\ job \in [Proc -> Job] /\ job[p] \in Job /\ pc \in [Proc -> Label]
  BY DEF TypeOK
<1> DEFINE Begun == pc'[p] \in {"install", "write"} =>
                      /\ job'[p].new \in Image
                      /\ image[job'[p].new] = "unwritten" /\ image'[job'[p].new] = "growing"
           Done == \A d \in Image :
              image'[d] # image[d] =>
                \/ image[d] = "unwritten" /\ image'[d] = "growing"
                   /\ pc'[p] \in {"install", "write"} /\ d = job'[p].new
                \/ image[d] = "growing" /\ image'[d] \in {"whole", "mixed"}
                   /\ pc[p] \in {"install", "write"} /\ d = job[p].new
<1> SUFFICES Begun /\ Done OBVIOUS
<1>1. CASE Install(p)
  <2>1. PICK d \in Image : Fresh(d) /\ image' = [image EXCEPT ![d] = "growing"]
                           /\ job' = [job EXCEPT ![p] = [job[p] EXCEPT !.new = d]]
    BY <1>1 DEF Install
  <2>2. job'[p].new = d /\ pc'[p] = "install" BY <1>0, <1>1, <2>1 DEF Install, Goes, Job
  <2> QED BY <1>0, <2>1, <2>2 DEF Fresh
<1>2. CASE Writes(p)
  <2>1. PICK d \in Image : Fresh(d) /\ image' = [image EXCEPT ![d] = "growing"] /\ job'[p].new = d
    BY <1>2, WritesJob
  <2>2. pc'[p] = "write" BY <1>0, <1>2 DEF Writes, Goes
  <2> QED BY <1>0, <2>1, <2>2 DEF Fresh
<1>3. CASE Publish(p) \/ Written(p)
  <2>1. pc[p] \in {"install", "write"} /\ image[job[p].new] = "growing" /\ job[p].new \in Image
    BY <1>3 DEF Publish, Written, At, Growing, JobOK
  <2>2. pc'[p] \notin {"install", "write"} BY <1>0, <1>3 DEF Publish, Written, Goes
  <2>3. PICK s \in {"whole", "mixed"} : image' = [image EXCEPT ![job[p].new] = s]
    BY <1>3 DEF Publish, Written
  <2> QED BY <1>0, <2>1, <2>2, <2>3
<1>4. CASE image' = image /\ ~Install(p) /\ ~Writes(p) BY <1>0, <1>4, Enters
<1> HIDE DEF Begun, Done
<1> QED BY <1>1, <1>2, <1>3, <1>4, Changes

\* A base only changes into nothing, or into what its lock's holder has installed.
LEMMA CacheStep ==
  ASSUME TypeOK, JobOK, NEW p \in Proc, Acts(p), NEW c \in Base
  PROVE  \/ cache'[c] = cache[c] \/ cache'[c] = None
         \/ Publish(p) /\ c = b(p) /\ cache'[c] = job[p].new /\ image'[job[p].new] = "whole"
<1>0. cache \in [Base -> Image \cup {None}] /\ image \in [Image -> {"unwritten", "truncated", "growing", "whole", "mixed"}]
  BY DEF TypeOK
<1>1. CASE Install(p) BY <1>0, <1>1 DEF Install
<1>2. CASE Publish(p) BY <1>0, <1>2 DEF Publish, At, JobOK
<1>3. CASE Unlink(p) BY <1>0, <1>3 DEF Unlink
<1> QED BY <1>1, <1>2, <1>3, Changes

\* Images are written by one process each.
LEMMA GrowingStep ==
  ASSUME TypeOK, JobOK, Growing, Apart, NEW p \in Proc, Acts(p) PROVE Growing' /\ Apart'
<1>0. \A q \in Proc : q # p => pc'[q] = pc[q] /\ job'[q] = job[q] BY Frame
<1>1. Growing'
  <2> SUFFICES ASSUME NEW q \in Proc, pc'[q] \in {"install", "write"} PROVE image'[job'[q].new] = "growing"
    BY DEF Growing
  <2>1. CASE q = p BY <2>1, ImageStep
  <2>2. CASE q # p
    <3>1. job[q].new \in Image /\ image[job[q].new] = "growing"
      BY <1>0, <2>2 DEF JobOK, Growing
    <3>2. pc[p] \in {"install", "write"} => job[p].new # job[q].new BY <1>0, <2>2 DEF Apart
    <3> QED BY <1>0, <2>2, <3>1, <3>2, ImageStep
  <2> QED BY <2>1, <2>2
<1>2. Apart'
  <2> SUFFICES ASSUME NEW q \in Proc, NEW s \in Proc, q # s,
                      pc'[q] \in {"install", "write"}, pc'[s] \in {"install", "write"}
               PROVE  job'[q].new # job'[s].new
    BY DEF Apart
  <2>1. CASE q # p /\ s # p BY <1>0, <2>1 DEF Apart
  <2>2. ASSUME NEW t \in Proc, t # p, pc'[t] \in {"install", "write"}, pc'[p] \in {"install", "write"}
        PROVE  job'[t].new # job'[p].new
    BY <1>0, <2>2, ImageStep DEF Growing
  <2> QED BY <2>1, <2>2
<1> QED BY <1>1, <1>2

\* An install that runs is alone on its base.
LEMMA AloneOnBase ==
  ASSUME TypeOK, Locked, NEW p \in Proc, NEW q \in Proc, q # p, pc[q] = "install",
         Install(p) \/ Publish(p) \/ InstallFails(p)
  PROVE  b(q) # b(p)
<1> USE RecipesAssumption
<1>0. holder[b(q)] = q BY DEF Locked
<1>1. CASE Install(p) BY <1>0, <1>1 DEF Install, exclusive_lock
<1>2. CASE pc[p] = "install" BY <1>0, <1>2 DEF Locked
<1> QED BY <1>1, <1>2 DEF Publish, InstallFails, At

\* The lock and the partial file of an install are its own.
LEMMA LockStep ==
  ASSUME TypeOK, JobOK, Locked, LivePartialKept, NEW p \in Proc, Acts(p)
  PROVE  Locked' /\ LivePartialKept'
<1> USE RecipesAssumption
<1>0. /\ \A q \in Proc : q # p => pc'[q] = pc[q] /\ job'[q] = job[q]
      /\ holder \in [Base -> Proc \cup {None}] /\ partial \in [Base -> SUBSET Image]
      /\ job \in [Proc -> Job] /\ job[p] \in Job
  BY Frame DEF TypeOK
<1> SUFFICES ASSUME NEW q \in Proc, pc'[q] = "install"
             PROVE  holder'[b(q)'] = q /\ job'[q].new \in partial'[b(q)']
  BY DEF Locked, LivePartialKept
<1>1. CASE q = p
  <2>1. Install(p) /\ pc[p] = "queue" BY <1>1, Enters DEF Install, At
  <2>2. PICK d \in Image : /\ job' = [job EXCEPT ![p] = [job[p] EXCEPT !.new = d]]
                           /\ partial' = [partial EXCEPT ![b(p)] = {d}]
    BY <2>1 DEF Install
  <2>3. job'[p].new = d /\ job'[p].recipe = job[p].recipe BY <1>0, <2>2 DEF Job
  <2>4. b(p)' = b(p) BY <2>3 DEF b
  <2>5. b(p) \in Base BY <2>1 DEF b, JobOK, r
  <2> QED BY <1>0, <1>1, <2>1, <2>2, <2>3, <2>4, <2>5 DEF Install
<1>2. CASE q # p
  <2>1. pc[q] = "install" /\ b(q)' = b(q) /\ job'[q].new = job[q].new BY <1>0, <1>2 DEF b
  <2>2. b(q) \in Base BY <2>1 DEF b, JobOK, r
  <2>3. holder[b(q)] = q /\ job[q].new \in partial[b(q)] BY <2>1 DEF Locked, LivePartialKept
  <2>4. CASE Install(p)
    <3>1. b(q) # b(p) BY <1>2, <2>1, <2>4, AloneOnBase
    <3>2. holder'[b(q)] = holder[b(q)] BY <1>0, <2>2, <2>4, <3>1 DEF Install
    <3>3. PICK d \in Image : partial' = [partial EXCEPT ![b(p)] = {d}] BY <2>4 DEF Install
    <3> QED BY <1>0, <2>1, <2>2, <2>3, <3>1, <3>2, <3>3
  <2>5. CASE Publish(p)
    <3>1. b(q) # b(p) BY <1>2, <2>1, <2>5, AloneOnBase
    <3>2. holder'[b(q)] = holder[b(q)] BY <1>0, <2>2, <2>5, <3>1 DEF Publish
    <3>3. partial'[b(q)] = partial[b(q)] BY <1>0, <2>2, <2>5, <3>1 DEF Publish
    <3> QED BY <2>1, <2>3, <3>2, <3>3
  <2>6. CASE InstallFails(p)
    BY <1>0, <1>2, <2>1, <2>2, <2>3, <2>6, AloneOnBase DEF InstallFails, Unlocked
  <2>7. CASE Crash(p) BY <1>0, <1>2, <2>1, <2>2, <2>3, <2>7 DEF Crash, files
  <2>8. CASE holder' = holder /\ partial' = partial BY <2>1, <2>3, <2>8
  <2> QED BY <2>4, <2>5, <2>6, <2>7, <2>8, Changes
<1> QED BY <1>1, <1>2

\* What is built on is whole, and what is forced was installed.
LEMMA WholeStep ==
  ASSUME TypeOK, JobOK, Growing, ForceInstalls, BasesWhole, OverWhole, NEW p \in Proc, Acts(p)
  PROVE  ForceInstalls' /\ BasesWhole' /\ OverWhole'
<1> USE RecipesAssumption
<1>0. /\ \A q \in Proc : q # p => pc'[q] = pc[q] /\ job'[q] = job[q]
      /\ job \in [Proc -> Job] /\ job[p] \in Job /\ pc \in [Proc -> Label]
      /\ cache \in [Base -> Image \cup {None}]
  BY Frame DEF TypeOK
<1>1. \A d \in Image : image[d] \in {"truncated", "whole"} => image'[d] = image[d]
  BY ImageStep
<1>2. \A c \in Base : \/ cache'[c] \in {cache[c], None}
                      \/ Publish(p) /\ c = b(p) /\ cache'[c] = job[p].new /\ image'[job[p].new] = "whole"
  BY CacheStep
<1>3. BasesWhole' BY <1>0, <1>1, <1>2 DEF BasesWhole
<1> DEFINE Own == /\ pc'[p] = "stage2" => \/ cache'[b(p)'] = None
                                          \/ image'[cache'[b(p)']] = "whole"
                  /\ pc'[p] = "provision" =>
                       job'[p].over \in Image /\ image'[job'[p].over] = "whole"
                  /\ pc'[p] \in {"stage2", "provision"} /\ job'[p].mode = "force" => job'[p].own # None
<1>4. Own
  <2>1. CASE LookForBase(p) \/ TurnHit(p)
    <3>1. job'[p] = job[p] /\ image' = image /\ cache' = cache /\ b(p) \in Base
      BY <2>1 DEF LookForBase, TurnHit, files, At, JobOK, b, r
    <3>2. pc'[p] = "stage2" => job[p].mode # "force" /\ cache[b(p)] # None /\ image[cache[b(p)]] = "whole"
      BY <1>0, <2>1, <3>1
      DEF LookForBase, TurnHit, Goes, Hit, HitAgain, At, force_base, _cached_base_is_usable, BasesWhole
    <3>3. pc'[p] # "provision" BY <1>0, <2>1 DEF LookForBase, TurnHit, Goes
    <3>4. b(p)' = b(p) BY <3>1 DEF b
    <3> QED BY <3>1, <3>2, <3>3, <3>4
  <2>2. CASE Publish(p)
    <3>1. pc[p] = "install" /\ job[p].new \in Image /\ b(p) \in Base
      BY <2>2 DEF Publish, At, JobOK, b, r
    <3>2. job' = [job EXCEPT ![p] = [job[p] EXCEPT !.own = job[p].new, !.new = None]]
      BY <2>2 DEF Publish
    <3>3. job'[p].own # None /\ job'[p].recipe = job[p].recipe BY <1>0, <3>1, <3>2 DEF Job
    <3>4. cache'[b(p)] = job[p].new /\ image'[job[p].new] = "whole"
      BY <1>0, <2>2, <3>1 DEF Publish, TypeOK
    <3>5. pc'[p] = "stage2" BY <1>0, <2>2 DEF Publish, Goes
    <3> QED BY <3>3, <3>4, <3>5 DEF b
  <2>3. CASE Provision(p)
    <3>1. pc[p] = "stage2" /\ image' = image /\ b(p) \in Base
      BY <2>3 DEF Provision, At, JobOK, b, r
    <3>2. CASE Ends(p) BY <1>0, <3>2 DEF Ends, Goes
    <3>3. CASE ~(Refuses(p) \/ cache[b(p)] = None)
      <4>1. job' = [job EXCEPT ![p] = [job[p] EXCEPT !.over = cache[b(p)]]]
        BY <2>3, <3>3 DEF Provision
      <4>2. job'[p].over = cache[b(p)] /\ job'[p].own = job[p].own /\ job'[p].mode = job[p].mode
        BY <1>0, <4>1 DEF Job
      <4>3. cache[b(p)] \in Image /\ image[cache[b(p)]] = "whole"
        BY <1>0, <3>1, <3>3 DEF OverWhole
      <4>4. pc'[p] = "provision" BY <1>0, <2>3, <3>3 DEF Provision, Goes
      <4> QED BY <3>1, <4>2, <4>3, <4>4 DEF ForceInstalls, force_base
    <3> QED BY <2>3, <3>2, <3>3 DEF Provision
  <2>4. CASE pc'[p] \notin {"stage2", "provision"} BY <2>4
  <2> HIDE DEF Own
  <2> QED BY <2>1, <2>2, <2>3, <2>4, Enters
<1>5. ForceInstalls' BY <1>0, <1>4 DEF ForceInstalls, force_base
<1>6. OverWhole'
  <2> SUFFICES ASSUME NEW q \in Proc, q # p
               PROVE  /\ pc'[q] = "stage2" => cache'[b(q)'] = None \/ image'[cache'[b(q)']] = "whole"
                      /\ pc'[q] = "provision" =>
                           job'[q].over \in Image /\ image'[job'[q].over] = "whole"
    BY <1>4 DEF OverWhole
  <2>1. pc'[q] = pc[q] /\ job'[q] = job[q] /\ b(q)' = b(q) BY <1>0 DEF b
  <2>2. pc[q] = "stage2" => b(q) \in Base BY DEF JobOK, b, r
  <2> QED BY <1>0, <1>1, <1>2, <2>1, <2>2 DEF OverWhole
<1> QED BY <1>3, <1>5, <1>6

\* The steps no process takes keep what matters here.
LEMMA QuietInv ==
  ASSUME Inv, UNCHANGED vars \/ \E q \in Recipe : Remove(q)
  PROVE  Growing' /\ Apart' /\ Locked' /\ LivePartialKept' /\ ForceInstalls' /\ BasesWhole' /\ OverWhole'
<1>1. UNCHANGED <<image, cache, partial, holder, pc, job>> BY DEF vars, files, Remove
<1>2. Growing' /\ Apart' BY <1>1 DEF Inv, Growing, Apart
<1>3. Locked' /\ LivePartialKept' BY <1>1 DEF Inv, Locked, LivePartialKept, b
<1>4. ForceInstalls' /\ BasesWhole' /\ OverWhole'
  BY <1>1 DEF Inv, ForceInstalls, force_base, BasesWhole, OverWhole, b
<1> QED BY <1>2, <1>3, <1>4

LEMMA InvStep == Inv /\ [Next]_vars => Inv'
<1> SUFFICES ASSUME Inv, [Next]_vars PROVE Inv'
  OBVIOUS
<1>1. TypeOK' /\ JobOK' BY TypeOKStep DEF Inv
<1>2. CASE UNCHANGED vars \/ \E q \in Recipe : Remove(q) BY <1>1, <1>2, QuietInv DEF Inv
<1>3. ASSUME NEW p \in Proc, Acts(p) PROVE Inv'
  <2>1. Growing' /\ Apart' BY <1>3, GrowingStep DEF Inv
  <2>2. Locked' /\ LivePartialKept' BY <1>3, LockStep DEF Inv
  <2>3. ForceInstalls' /\ BasesWhole' /\ OverWhole' BY <1>3, WholeStep DEF Inv
  <2> QED BY <1>1, <2>1, <2>2, <2>3 DEF Inv
<1> QED BY <1>2, <1>3 DEF Next, Acts

-----------------------------------------------------------------------------

\* A path changes only at the hand of a process that loads its recipe, or to nothing.
LEMMA DestStep ==
  ASSUME TypeOK, JobOK, NEW p \in Proc, Acts(p), NEW q \in Recipe
  PROVE  \/ dest'[q] \in {dest[q], None}
         \/ pc[p] \in {"provision", "plain", "write"} /\ q = r(p)
<1>0. dest \in [Recipe -> Image \cup {None}] BY DEF TypeOK
<1>1. CASE Writes(p) /\ pc[p] \in {"provision", "plain"}
  <2>1. PICK d \in Image : dest' = [dest EXCEPT ![r(p)] = d] BY <1>1 DEF Writes
  <2> QED BY <1>0, <1>1, <2>1
<1>2. CASE Provision(p) \/ ProvisionFails(p) \/ WriteFails(p) \/ Written(p)
  BY <1>0, <1>2 DEF Provision, ProvisionFails, WriteFails, Written, At
<1>3. CASE Flatten(p) \/ BuildPlain(p) BY <1>0, <1>1, <1>3 DEF Flatten, BuildPlain, At
<1>4. CASE Register(p) BY <1>0, <1>4 DEF Register, Registers
<1>5. CASE Version(p) BY <1>0, <1>5 DEF Version
<1>6. CASE dest' = dest BY <1>6
<1>7. ASSUME NEW s \in Menu[p], NEW mode \in Mode, Begin(p, s, mode) PROVE dest' = dest
  BY <1>7 DEF Begin, files
<1> QED
  BY <1>2, <1>3, <1>4, <1>5, <1>6, <1>7
  DEF Acts, Step, LookForBase, TurnHit, Install, Publish, InstallFails, Hash, NoVersion, Unlink,
      Prune, Crash, files

\* A row that is new is one that p registers, or an old one that was retired or is used now.
LEMMA RowStep ==
  ASSUME TypeOK, NEW p \in Proc, Acts(p)
  PROVE  \A x \in row' : (\E y \in row : y.hash = x.hash) \/ (Register(p) /\ x.hash = job[p].new)
<1>0. row \subseteq Row BY DEF TypeOK
<1> DEFINE Old(x) == \E y \in row : y.hash = x.hash
<1>1. ASSUME NEW y \in row
      PROVE  [y EXCEPT !.at = "lost"].hash = y.hash /\ [y EXCEPT !.used = TRUE].hash = y.hash
  BY <1>0 DEF Row
<1>2. \A x \in row : Old(x) OBVIOUS
<1>3. ASSUME NEW y \in row
      PROVE  \A x \in (row \ {y}) \cup {[y EXCEPT !.at = "lost"], [y EXCEPT !.used = TRUE]} : Old(x)
  BY <1>1, <1>2
<1> HIDE DEF Old
<1>4. ASSUME NEW x, x \in row' PROVE Old(x) \/ (Register(p) /\ x.hash = job[p].new)
  <2>1. CASE row' = row BY <1>2, <1>4, <2>1
  <2>2. CASE Register(p)
    <3>1. ASSUME NEW rest, Registers(p, rest) PROVE x \in rest \/ x.hash = job[p].new
      BY <1>4, <3>1 DEF Registers
    <3>2. ASSUME NEW y \in row, row' = row \ {y} PROVE Old(x) BY <1>2, <1>4, <3>2
    <3>3. ASSUME NEW y \in row, row' = (row \ {y}) \cup {[y EXCEPT !.at = "lost"]} PROVE Old(x)
      BY <1>3, <1>4, <3>3
    <3>4. ASSUME NEW y \in row, Registers(p, (row \ {y}) \cup {[y EXCEPT !.at = "lost"]})
          PROVE  Old(x) \/ x.hash = job[p].new
      BY <1>3, <3>1, <3>4
    <3>5. Registers(p, row) => Old(x) \/ x.hash = job[p].new BY <1>2, <3>1
    <3> QED BY <2>1, <2>2, <3>2, <3>3, <3>4, <3>5 DEF Register, SameName
  <2>3. CASE Version(p) BY <1>2, <1>3, <1>4, <2>3 DEF Version
  <2> QED BY <2>1, <2>2, <2>3, Changes
<1> QED BY <1>4 DEF Old

\* With one loader to a recipe, nobody touches a disk between its last write and its row.
LEMMA DisksStep ==
  ASSUME OneLoader, Inv, DisksWhole, [Next]_vars PROVE DisksWhole'
<1> USE RecipesAssumption
<1>0. TypeOK /\ JobOK /\ Growing BY DEF Inv
<1>1. CASE UNCHANGED vars BY <1>1 DEF vars, files, DisksWhole, r
<1>2. ASSUME NEW q \in Recipe, Remove(q) PROVE DisksWhole'
  <2>1. /\ UNCHANGED <<image, pc, job>> /\ row' \subseteq row
        /\ \A s \in Recipe : dest'[s] \in {dest[s], None}
    BY <1>0, <1>2 DEF Remove, TypeOK
  <2>2. \A p \in Proc : pc[p] = "hash" => r(p) \in Recipe BY <1>0 DEF JobOK
  <2> QED BY <2>1, <2>2 DEF DisksWhole, r
<1>3. ASSUME NEW p \in Proc, Acts(p) PROVE DisksWhole'
  <2>0. /\ \A q \in Proc : q # p => pc'[q] = pc[q] /\ job'[q] = job[q]
        /\ job \in [Proc -> Job] /\ job[p] \in Job /\ pc \in [Proc -> Label]
        /\ dest \in [Recipe -> Image \cup {None}] /\ row \subseteq Row
        /\ image \in [Image -> {"unwritten", "truncated", "growing", "whole", "mixed"}]
    BY <1>0, <1>3, Frame DEF TypeOK
  <2>1. \A d \in Image : image[d] \in {"whole", "mixed"} => image'[d] = image[d]
    BY <1>0, <1>3, ImageStep
  <2>2. ASSUME NEW q \in Proc, pc'[q] = "hash" PROVE dest'[r(q)'] = None \/ image'[dest'[r(q)']] \in {"whole", "mixed"}
    <3>1. CASE q = p
      <4>1. Written(p) BY <1>0, <1>3, <2>2, <3>1, Enters
      <4>2. job[p].new \in Image /\ r(p) \in Recipe BY <1>0, <4>1 DEF Written, At, JobOK
      <4>3. r(p)' = r(p) BY <4>1 DEF Written, r
      <4>4. image'[job[p].new] \in {"whole", "mixed"} BY <2>0, <4>1, <4>2 DEF Written
      <4>5. dest'[r(p)] = job[p].new BY <2>0, <4>1, <4>2 DEF Written
      <4> QED BY <3>1, <4>3, <4>4, <4>5
    <3>2. CASE q # p
      <4>1. pc[q] = "hash" /\ r(q)' = r(q) /\ r(q) \in Menu[q] /\ r(q) \in Recipe
        BY <1>0, <2>0, <2>2, <3>2 DEF JobOK, r
      <4>2. pc[p] \in {"provision", "plain", "write"} => r(p) # r(q)
        BY <1>0, <3>2, <4>1 DEF JobOK, OneLoader
      <4>3. dest'[r(q)] \in {dest[r(q)], None} BY <1>0, <1>3, <4>1, <4>2, DestStep
      <4> QED BY <2>0, <2>1, <4>1, <4>3 DEF DisksWhole
    <3> QED BY <3>1, <3>2
  <2>3. ASSUME NEW q \in Proc, pc'[q] = "register" PROVE image'[job'[q].new] \in {"whole", "mixed"}
    <3>1. CASE q = p
      <4>1. Hash(p) /\ pc[p] = "hash" BY <1>0, <1>3, <2>3, <3>1, Enters DEF Hash, At
      <4>2. r(p) \in Recipe BY <1>0, <4>1 DEF JobOK
      <4>3. dest[r(p)] # None BY <2>0, <2>3, <3>1, <4>1 DEF Hash, Ends, Goes
      <4>4. job'[p].new = dest[r(p)] BY <2>0, <4>1, <4>3 DEF Hash, Job
      <4> QED BY <2>0, <2>1, <3>1, <4>1, <4>2, <4>3, <4>4 DEF DisksWhole
    <3>2. CASE q # p BY <1>0, <2>0, <2>1, <2>3, <3>2 DEF DisksWhole, JobOK
    <3> QED BY <3>1, <3>2
  <2>4. ASSUME NEW x \in row' PROVE image'[x.hash] \in {"whole", "mixed"}
    <3>1. ASSUME NEW y \in row PROVE y.hash \in Image /\ image[y.hash] \in {"whole", "mixed"}
      BY <2>0 DEF DisksWhole, Row
    <3>2. Register(p) => job[p].new \in Image /\ image[job[p].new] \in {"whole", "mixed"}
      BY <1>0 DEF Register, At, JobOK, DisksWhole
    <3> QED BY <1>0, <1>3, <2>1, <2>4, <3>1, <3>2, RowStep
  <2> QED BY <2>2, <2>3, <2>4 DEF DisksWhole
<1> QED BY <1>1, <1>2, <1>3 DEF Next, Acts

\* The lock keeps the place of an install empty.
LEMMA NothingThereStep ==
  ASSUME Inv, NothingThere, [Next]_vars PROVE NothingThere'
<1> USE RecipesAssumption
<1>0. TypeOK /\ JobOK /\ Locked /\ cache \in [Base -> Image \cup {None}] BY DEF Inv, TypeOK
<1>1. CASE UNCHANGED vars \/ \E q \in Recipe : Remove(q)
  BY <1>1 DEF vars, files, Remove, NothingThere, b, force_base
<1>2. ASSUME NEW p \in Proc, Acts(p) PROVE NothingThere'
  <2>0. /\ \A q \in Proc : q # p => pc'[q] = pc[q] /\ job'[q] = job[q]
        /\ job \in [Proc -> Job] /\ job[p] \in Job
    BY <1>0, <1>2, Frame DEF TypeOK
  <2> SUFFICES ASSUME NEW q \in Proc, pc'[q] = "install", ~force_base(q)'
               PROVE  cache'[b(q)'] = None
    BY DEF NothingThere
  <2>1. CASE q = p
    <3>1. Install(p) /\ pc[p] = "queue" BY <1>0, <1>2, <2>1, Enters DEF Install, At
    <3>2. PICK d \in Image : job' = [job EXCEPT ![p] = [job[p] EXCEPT !.new = d]]
      BY <3>1 DEF Install
    <3>3. job'[p].recipe = job[p].recipe /\ job'[p].mode = job[p].mode BY <2>0, <3>2 DEF Job
    <3>4. b(p)' = b(p) /\ force_base(p)' = force_base(p) BY <3>3 DEF b, force_base
    <3>5. b(p) \in Base BY <1>0, <3>1 DEF b, JobOK, r
    <3> QED BY <1>0, <2>1, <3>1, <3>4, <3>5 DEF Install
  <2>2. CASE q # p
    <3>1. pc[q] = "install" /\ b(q)' = b(q) /\ force_base(q)' = force_base(q)
      BY <2>0, <2>2 DEF b, force_base
    <3>2. b(q) \in Base /\ cache[b(q)] = None BY <1>0, <3>1 DEF b, JobOK, r, NothingThere
    <3>3. Publish(p) => b(q) # b(p) BY <1>0, <2>2, <3>1, AloneOnBase
    <3> QED BY <1>0, <1>2, <3>1, <3>2, <3>3, CacheStep
  <2> QED BY <2>1, <2>2
<1> QED BY <1>1, <1>2 DEF Next, Acts

-----------------------------------------------------------------------------

LEMMA Invariant == Spec => []Inv
BY InitInv, InvStep, PTL DEF Spec

\* The state keeps its shape, whatever the recipes, bases and processes.
THEOREM TypeCorrect == Spec => []TypeOK
BY Invariant, PTL DEF Inv

\* No sweep, by however many builds of the same base, removes the disk a running
\* install writes to (_discard_stale_partial_builds under exclusive_lock).
THEOREM LivePartialSafe == Spec => []LivePartialKept
BY Invariant, PTL DEF Inv

\* A forced load never goes on with a base that somebody else installed.
THEOREM ForceSafe == Spec => []ForceInstalls
BY Invariant, PTL DEF Inv

\* Whatever fails or dies and whenever, a base that is published is a finished install,
\* and a provisioning starts on one (_build_base_disk: install, then rename).
THEOREM BasesSafe ==
  Spec => [](BasesWhole /\ \A p \in Proc : pc[p] = "provision" => image[job[p].over] = "whole")
<1>1. Inv => BasesWhole /\ \A p \in Proc : pc[p] = "provision" => image[job[p].over] = "whole"
  BY DEF Inv, OverWhole
<1> QED BY <1>1, Invariant, PTL

\* Where no two processes load the same recipe, no row is made of a disk that was not
\* written to its end.
THEOREM WholeSafe == ASSUME OneLoader PROVE Spec => []WholeOnly
<1>1. Init => DisksWhole BY DEF Init, DisksWhole
<1>2. Inv /\ DisksWhole /\ [Next]_vars => DisksWhole' BY DisksStep
<1>3. Inv /\ DisksWhole => WholeOnly
  BY DEF Inv, BasesWhole, OverWhole, DisksWhole, WholeOnly
<1> QED BY <1>1, <1>2, <1>3, Invariant, PTL DEF Spec

\* A usable base changes only by a forced load or by a prune that found nobody use it:
\* builds that queue collapse into one, and none replaces what another has finished.
THEOREM BaseKept == Spec => UsableBaseKept
<1> DEFINE GivenUp(c, p) == \/ pc[p] = "install" /\ pc'[p] = "stage2" /\ b(p) = c /\ force_base(p)
                            \/ pc[p] = "prune" /\ c \in doomed[p]
           Kept == \A c \in Base : _cached_base_is_usable(c) /\ cache'[c] # cache[c]
                                     => \E p \in Proc : GivenUp(c, p)
<1>1. Init => NothingThere BY DEF Init, NothingThere
<1>2. Inv /\ NothingThere /\ [Next]_vars => NothingThere' BY NothingThereStep
<1>3. Inv /\ NothingThere /\ [Next]_vars => [Kept]_vars
  <2> SUFFICES ASSUME Inv, NothingThere, Next,
                      NEW c \in Base, _cached_base_is_usable(c), cache'[c] # cache[c]
               PROVE  \E p \in Proc : GivenUp(c, p)
    OBVIOUS
  <2>0. cache \in [Base -> Image \cup {None}] /\ pc \in [Proc -> Label] BY DEF Inv, TypeOK
  <2>1. CASE \E s \in Recipe : Remove(s) BY <2>1 DEF Remove
  <2>2. ASSUME NEW p \in Proc, Acts(p) PROVE GivenUp(c, p)
    <3>1. CASE Install(p)
      BY <2>0, <3>1 DEF Install, HitAgain, Hit, _cached_base_is_usable
    <3>2. CASE Publish(p)
      <4>1. c = b(p) /\ pc[p] = "install" BY <2>0, <3>2 DEF Publish, At
      <4>2. force_base(p) BY <4>1 DEF NothingThere, _cached_base_is_usable
      <4>3. pc'[p] = "stage2" BY <2>0, <3>2 DEF Publish, Goes
      <4> QED BY <4>1, <4>2, <4>3
    <3>3. CASE Unlink(p) BY <2>0, <3>3 DEF Unlink
    <3> QED BY <2>2, <3>1, <3>2, <3>3, Changes
  <2> QED BY <2>1, <2>2 DEF Next, Acts
<1> QED BY <1>1, <1>2, <1>3, Invariant, PTL DEF Spec, UsableBaseKept
=============================================================================
