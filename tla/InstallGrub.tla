---------------------------- MODULE InstallGrub ----------------------------
(***************************************************************************)
(* install-grub.pl: one run after another of the boot loader installer,    *)
(* each stopped at any step or carried to its end.  A run                  *)
(*   - goes over the default system and the generations of the profiles,   *)
(*     copies their kernels and initrds to kernels/ unless a file of that  *)
(*     name is there, has their secrets appended, and collects the menu;   *)
(*   - renames the new grub.cfg over the old one;                          *)
(*   - removes what the new menu does not name;                            *)
(*   - runs grub-install where the parameters differ from the state file,  *)
(*     then renames a new state file into place.                           *)
(* Files are names: a store path keeps its name in kernels/, so one name   *)
(* means one content.  The boot partition is not that of the store, so     *)
(* copyKernels is 1; the splash image, the theme, the wording of grub.cfg, *)
(* extraPrepareConfig and what os-prober appends are left out.             *)
(***************************************************************************)
EXTENDS Naturals, Sequences

CONSTANTS Systems,    \* systems in the store, specialisations included
          Names,      \* names of files in kernels/
          Secrets,    \* the names that append-initrd-secrets writes
          Parts,      \* the files of each system in the order they are handled
          Complete,   \* the systems with a kernel and an initrd
          Versions,   \* name, version, EFI directory and arguments of GRUB
          Targets,    \* devices and EFI directories GRUB is installed to
          Requests,   \* what the script may be run for
          Limit,      \* configurationLimit
          None, Torn

Params == [version : Versions, targets : SUBSET Targets]

\* A generation: its system, then its specialisations.  A corrupt one has no
\* nixos-version.
Generations == [systems : Seq(Systems), corrupt : BOOLEAN, current : BOOLEAN]

Asked == [default : Generations, profiles : Seq(Seq(Generations)),
          params : Params, force : BOOLEAN]

ASSUME ConstantsAssumption ==
  /\ Secrets \subseteq Names
  /\ Complete \subseteq Systems
  /\ Parts \in [Systems -> Seq(Names)]
  /\ Requests \subseteq Asked
  /\ \A r \in Requests : ~r.default.corrupt
  /\ Limit \in Nat
  /\ None \notin Requests
  /\ {None, Torn} \cap Params = {}
  /\ Versions # {}

VARIABLES
  pc,         \* where the script is
  request,    \* what it was run for
  profiles,   \* profiles still to add
  gens,       \* generations of the current profile still to add
  gen,        \* the generation being added
  todo,       \* its systems still to add
  parts,      \* files of the first of them still to handle
  files,      \* the names its entry has so far
  conf,       \* the menu collected so far ($conf)
  copied,     \* %copied
  kernels,    \* the files in kernels/ under their own name
  whole,      \* those of them whose content is complete
  temps,      \* the names a temporary file was left for in kernels/
  cfg,        \* the menu in grub.cfg
  state,      \* the parameters in the state file, or None
  loader,     \* what grub-install has put on each target
  left,       \* targets of this run still to install to
  cut         \* an installation was begun and its state never recorded

script == <<request, profiles, gens, gen, todo, parts, files, conf, copied>>
dir    == <<kernels, whole, temps>>
grub   == <<state, loader, left, cut>>
vars   == <<pc, script, dir, cfg, grub>>

Ended == {"idle", "stopped", "died", "done"}

Entries == [system : Systems, files : SUBSET Names]

(***************************************************************************)
(* The menu.                                                               *)
(***************************************************************************)
NoGen == [systems |-> <<>>, corrupt |-> FALSE, current |-> FALSE]

\* The generations of a profile up to configurationLimit, newest first, as
\* addGeneration gets them.
Newest(profile) ==
  [i \in 1 .. (IF Len(profile) < Limit THEN Len(profile) ELSE Limit) |->
     [profile[i] EXCEPT !.current = FALSE]]

DefaultGeneration(r) == <<[r.default EXCEPT !.current = TRUE]>>

\* addGeneration passes its own $current for the system and 1 for each
\* specialisation.
Current == gen.current \/ Len(todo) < Len(gen.systems)

Init == /\ pc = "idle"
        /\ request = None
        /\ profiles = <<>> /\ gens = <<>> /\ gen = NoGen
        /\ todo = <<>> /\ parts = <<>> /\ files = {}
        /\ conf = <<>> /\ copied = {}
        /\ kernels = {} /\ whole = {} /\ temps = {}
        /\ cfg = <<>>
        /\ state = None
        /\ loader = [t \in Targets |-> None]
        /\ left = {}
        /\ cut = FALSE

Start(r) == /\ pc \in Ended
            /\ pc' = "generation"
            /\ request' = r
            /\ profiles' = r.profiles
            /\ gens' = DefaultGeneration(r)
            /\ gen' = NoGen
            /\ todo' = <<>> /\ parts' = <<>> /\ files' = {}
            /\ conf' = <<>> /\ copied' = {}
            /\ left' = {}
            /\ UNCHANGED <<dir, cfg, state, loader, cut>>

addProfile == /\ pc = "generation"
              /\ gens = <<>> /\ profiles # <<>>
              /\ gens' = Newest(Head(profiles))
              /\ profiles' = Tail(profiles)
              /\ UNCHANGED <<pc, request, gen, todo, parts, files, conf, copied,
                             dir, cfg, grub>>

SkipCorrupt == /\ pc = "generation"
               /\ gens # <<>>
               /\ Head(gens).corrupt
               /\ gens' = Tail(gens)
               /\ UNCHANGED <<pc, request, profiles, gen, todo, parts, files,
                              conf, copied, dir, cfg, grub>>

addGeneration == /\ pc = "generation"
                 /\ gens # <<>>
                 /\ ~Head(gens).corrupt
                 /\ gen' = Head(gens)
                 /\ gens' = Tail(gens)
                 /\ todo' = Head(gens).systems
                 /\ pc' = "entry"
                 /\ UNCHANGED <<request, profiles, parts, files, conf, copied,
                                dir, cfg, grub>>

GenerationEnds == /\ pc = "entry"
                  /\ todo = <<>>
                  /\ pc' = "generation"
                  /\ UNCHANGED <<script, dir, cfg, grub>>

SkipIncomplete == /\ pc = "entry"
                  /\ todo # <<>>
                  /\ Head(todo) \notin Complete
                  /\ todo' = Tail(todo)
                  /\ UNCHANGED <<pc, request, profiles, gens, gen, parts, files,
                                 conf, copied, dir, cfg, grub>>

addEntry == /\ pc = "entry"
            /\ todo # <<>>
            /\ Head(todo) \in Complete
            /\ parts' = Parts[Head(todo)]
            /\ files' = {}
            /\ pc' = "part"
            /\ UNCHANGED <<request, profiles, gens, gen, todo, conf, copied,
                           dir, cfg, grub>>

EntryEnds == /\ pc = "part"
             /\ parts = <<>>
             /\ conf' = Append(conf, [system |-> Head(todo), files |-> files])
             /\ todo' = Tail(todo)
             /\ pc' = "entry"
             /\ UNCHANGED <<request, profiles, gens, gen, parts, files, copied,
                            dir, cfg, grub>>

(***************************************************************************)
(* The files of an entry.                                                  *)
(***************************************************************************)
\* The entry names file n and the removal below leaves it alone.
NamesFile(n) == /\ files' = files \cup {n}
             /\ copied' = copied \cup {n}

PartEnds == /\ parts' = Tail(parts)
            /\ pc' = "part"
            /\ UNCHANGED <<request, profiles, gens, gen, todo, conf, cfg, grub>>

\* copyToKernelsDir finds $dst.
CopySkips == /\ pc = "part"
             /\ parts # <<>>
             /\ Head(parts) \in kernels \ Secrets
             /\ NamesFile(Head(parts))
             /\ PartEnds
             /\ UNCHANGED dir

\* Mutant: the file is copied to $dst itself.
CopyBeginsInPlace == /\ pc = "part"
                     /\ parts # <<>>
                     /\ Head(parts) \notin kernels \cup Secrets
                     /\ kernels' = kernels \cup {Head(parts)}
                     /\ pc' = "copying"
                     /\ UNCHANGED <<script, whole, temps, cfg, grub>>

\* It does not and starts to copy to $dst.tmp ...
CopyBegins == /\ pc = "part"
              /\ parts # <<>>
              /\ Head(parts) \notin kernels \cup Secrets
              /\ temps' = temps \cup {Head(parts)}
              /\ pc' = "copying"
              /\ UNCHANGED <<script, kernels, whole, cfg, grub>>

\* ... and renames the copy to $dst.
CopyEnds == /\ pc = "copying"
            /\ temps' = temps \ {Head(parts)}
            /\ kernels' = kernels \cup {Head(parts)}
            /\ whole' = whole \cup {Head(parts)}
            /\ NamesFile(Head(parts))
            /\ PartEnds

\* append-initrd-secrets starts to write a temporary file.
SecretsBegin == /\ pc = "part"
                /\ parts # <<>>
                /\ Head(parts) \in Secrets
                /\ temps' = temps \cup {Head(parts)}
                /\ pc' = "secrets"
                /\ UNCHANGED <<script, kernels, whole, cfg, grub>>

\* The file is there and not empty: it is renamed into place, complete or,
\* after a failure for an older generation, as it is.
SecretsRenamed == /\ pc = "secrets"
                  /\ temps' = temps \ {Head(parts)}
                  /\ kernels' = kernels \cup {Head(parts)}
                  /\ \/ whole' = whole \cup {Head(parts)}
                     \/ ~Current /\ whole' = whole \ {Head(parts)}
                  /\ NamesFile(Head(parts))
                  /\ PartEnds

\* Mutant: the name counts as copied whether or not there were secrets.
SecretsUnlinkedCopied == /\ pc = "secrets"
                         /\ temps' = temps \ {Head(parts)}
                         /\ copied' = copied \cup {Head(parts)}
                         /\ PartEnds
                         /\ UNCHANGED <<files, kernels, whole>>

\* No secrets, or a failure for an older generation that wrote nothing.
SecretsUnlinked == /\ pc = "secrets"
                   /\ temps' = temps \ {Head(parts)}
                   /\ PartEnds
                   /\ UNCHANGED <<files, copied, kernels, whole>>

SecretsDie == /\ pc = "secrets"
              /\ Current
              /\ pc' = "died"
              /\ UNCHANGED <<script, dir, cfg, grub>>

(***************************************************************************)
(* The switch and the removal of what nothing names.                       *)
(***************************************************************************)
\* Mutant: grub.cfg itself is opened for writing.
WriteConfInPlace == /\ pc = "generation"
                    /\ gens = <<>> /\ profiles = <<>>
                    /\ cfg' = <<>>
                    /\ pc' = "switch"
                    /\ UNCHANGED <<script, dir, grub>>

\* The menu is complete and written to grub.cfg.tmp.
WriteConf == /\ pc = "generation"
             /\ gens = <<>> /\ profiles = <<>>
             /\ pc' = "switch"
             /\ UNCHANGED <<script, dir, cfg, grub>>

SwitchConf == /\ pc = "switch"
              /\ cfg' = conf
              /\ pc' = "remove"
              /\ UNCHANGED <<script, dir, grub>>

Remove(n) == /\ pc = "remove"
             /\ n \in kernels \ copied
             /\ kernels' = kernels \ {n}
             /\ whole' = whole \ {n}
             /\ UNCHANGED <<pc, script, temps, cfg, grub>>

RemoveTemp(n) == /\ pc = "remove"
                 /\ n \in temps
                 /\ temps' = temps \ {n}
                 /\ UNCHANGED <<pc, script, kernels, whole, cfg, grub>>

(***************************************************************************)
(* The installation of GRUB.                                               *)
(***************************************************************************)
\* Mutant: a change of the targets is overlooked.
RequireForVersion == \/ state = None
                     \/ state # None /\ state.version # request.params.version
                     \/ request.force

requireNewInstall == state # request.params \/ request.force

\* The glob over kernels/ is at its end; the state file is read.
ReadState == /\ pc = "remove"
             /\ kernels \subseteq copied
             /\ temps = {}
             /\ IF requireNewInstall
                THEN pc' = "install" /\ left' = request.params.targets
                ELSE pc' = "done" /\ UNCHANGED left
             /\ UNCHANGED <<script, dir, cfg, state, loader, cut>>

\* grub-install starts to write to a target: from here to the rename of the
\* state file the target and the file may disagree.
InstallBegins(t) == /\ pc = "install"
                    /\ t \in left
                    /\ loader' = [loader EXCEPT ![t] = Torn]
                    /\ left' = left \ {t}
                    /\ cut' = TRUE
                    /\ pc' = "installing"
                    /\ UNCHANGED <<script, dir, cfg, state>>

InstallEnds(t) == /\ pc = "installing"
                  /\ loader[t] = Torn
                  /\ t \in request.params.targets \ left
                  /\ loader' = [loader EXCEPT ![t] = request.params]
                  /\ pc' = "install"
                  /\ UNCHANGED <<script, dir, cfg, state, left, cut>>

WriteState == /\ pc = "install"
              /\ left = {}
              /\ state' = request.params
              /\ cut' = FALSE
              /\ pc' = "done"
              /\ UNCHANGED <<script, dir, cfg, loader, left>>

\* Killed, or dead of a failed call, at any step; the kernel may finish no
\* rename halfway.
Stop == /\ pc \notin Ended
        /\ pc' = "stopped"
        /\ UNCHANGED <<script, dir, cfg, grub>>

Menu == addProfile \/ SkipCorrupt \/ addGeneration \/ GenerationEnds
          \/ SkipIncomplete \/ addEntry \/ EntryEnds
Copy == CopySkips \/ CopyBegins \/ CopyEnds
          \/ SecretsBegin \/ SecretsRenamed \/ SecretsUnlinked \/ SecretsDie
Switch == WriteConf \/ SwitchConf
            \/ (\E n \in Names : Remove(n) \/ RemoveTemp(n))
Install == ReadState \/ (\E t \in Targets : InstallBegins(t) \/ InstallEnds(t))
             \/ WriteState

Next == (\E r \in Requests : Start(r))
          \/ Menu \/ Copy \/ Switch \/ Install \/ Stop

Spec == Init /\ [][Next]_vars
-----------------------------------------------------------------------------
(* Properties.                                                             *)

TypeOK ==
  /\ pc \in Ended \cup {"generation", "entry", "part", "copying", "secrets",
                       "switch", "remove", "install", "installing"}
  /\ request \in Requests \cup {None}
  /\ profiles \in Seq(Seq(Generations))
  /\ gens \in Seq(Generations)
  /\ gen \in Generations
  /\ todo \in Seq(Systems)
  /\ parts \in Seq(Names)
  /\ files \subseteq Names
  /\ conf \in Seq(Entries)
  /\ copied \subseteq Names
  /\ kernels \subseteq Names
  /\ whole \subseteq kernels
  /\ temps \subseteq Names
  /\ cfg \in Seq(Entries)
  /\ state \in Params \cup {None}
  /\ loader \in [Targets -> Params \cup {None, Torn}]
  /\ left \subseteq Targets
  /\ cut \in BOOLEAN

\* GRUB finds every file the entry names, and those of the store are complete.
Boots(entry) == /\ entry.files \subseteq kernels
                /\ entry.files \ Secrets \subseteq whole

\* Wherever a run was stopped, and whatever the runs before it left behind, the
\* grub.cfg on disk names only files that are there and were copied completely
\* ("we have to create $dst atomically to prevent partially copied kernels").
EveryEntryBoots == \A i \in DOMAIN cfg : Boots(cfg[i])

NamedIn(menu) == UNION {menu[i].files : i \in DOMAIN menu}

\* Once a run has passed the removal, kernels/ holds what the menu names and
\* nothing else: what earlier and interrupted runs left is gone.
OnlyNamedFilesRemain ==
  pc \in {"install", "installing", "done"} =>
    kernels = NamedIn(cfg) /\ temps = {}

\* After a run that ended well GRUB is on each of its targets as asked, also
\* where the run found nothing to install; unless the last installation was cut
\* short, which the state file does not tell.
LoaderIsWhatWasAsked ==
  pc = "done" /\ ~cut =>
    \A t \in request.params.targets : loader[t] = request.params

\* "warning: failed to create initrd secrets for ..., an older generation":
\* missing secrets of an older generation are no reason to die.  For its
\* specialisations addGeneration passes 1 as $current, and the script dies.
OldGenerationsDoNotDie == [][~gen.current => pc' # "died"]_vars

(***************************************************************************)
(* The boot partition as BootDisk sees it: from its start to its rename of *)
(* grub.cfg a run is a request, and the menu is what can be booted of it.  *)
(***************************************************************************)
InGenerations(gs) ==
  {s \in Complete : \E g \in DOMAIN gs :
     ~gs[g].corrupt /\ \E i \in DOMAIN gs[g].systems : gs[g].systems[i] = s}
InProfiles(ps) == UNION {InGenerations(Newest(ps[p])) : p \in DOMAIN ps}
Offers(r) == InGenerations(DefaultGeneration(r)) \cup InProfiles(r.profiles)

Asking == {"generation", "entry", "part", "copying", "secrets", "switch"}

BootMenu == {cfg[i].system : i \in {j \in DOMAIN cfg : Boots(cfg[j])}}
Request == IF pc \in Asking THEN request ELSE None

Disk == INSTANCE BootDisk WITH
          menu <- BootMenu,
          request <- Request,
          Offered <- [r \in Requests |-> Offers(r)],
          NoRequest <- None

\* The menu changes in one step, to exactly what the request asks for, and no
\* system drops out of it otherwise.
MenuSwitchesAtOnce == Disk!Spec
-----------------------------------------------------------------------------
(* The inductive invariant behind them.                                    *)

\* What makes it safe not to copy a file that is there.
StoreFilesAreWhole == kernels \ Secrets \subseteq whole

\* What the run has named is there, and is what its menu names.
InEntry == {"part", "copying", "secrets"}
CopiedIsNamed ==
  pc \notin {"idle", "stopped", "died"} =>
    /\ copied \subseteq kernels
    /\ copied = NamedIn(conf) \cup (IF pc \in InEntry THEN files ELSE {})

\* Past the rename the menu on disk is the one collected.
Switched == {"remove", "install", "installing", "done"}
CfgIsThere == /\ NamedIn(cfg) \subseteq kernels
              /\ pc \in Switched => cfg = conf

KernelsAreCopied ==
  pc \in {"install", "installing", "done"} =>
    kernels \subseteq copied /\ temps = {}

\* Of the targets the run has begun all but the last one carry its parameters.
Begun == request.params.targets \ left
InstallGoesOn ==
  /\ pc \notin {"idle", "stopped", "died"} => request \in Requests
  /\ pc = "install" => \A t \in Begun : loader[t] = request.params
  /\ pc = "installing" =>
       /\ \A t \in Begun : loader[t] \in {Torn, request.params}
       /\ \A t, u \in Begun : loader[t] = Torn /\ loader[u] = Torn => t = u
       /\ cut
  /\ pc = "done" => state = request.params

StateIsTrue ==
  state # None /\ ~cut => \A t \in state.targets : loader[t] = state

\* The systems that the rest of the run will add.
Pending ==
  {s \in Complete : \E i \in DOMAIN todo : todo[i] = s}
    \cup InGenerations(gens) \cup InProfiles(profiles)
Collected == {conf[i].system : i \in DOMAIN conf}

MenuComes ==
  pc \in Asking => /\ Collected \cup Pending = Offers(request)
                   /\ pc \in {"generation", "switch"} => todo = <<>>
                   /\ pc = "switch" => gens = <<>> /\ profiles = <<>>
                   /\ pc \in InEntry => todo # <<>> /\ Head(todo) \in Complete
                   /\ pc \in {"copying", "secrets"} => parts # <<>>
                   /\ pc = "copying" => Head(parts) \notin Secrets
                   /\ pc = "secrets" => Head(parts) \in Secrets

IInv == TypeOK /\ StoreFilesAreWhole /\ CopiedIsNamed /\ CfgIsThere
          /\ KernelsAreCopied /\ InstallGoesOn /\ StateIsTrue /\ MenuComes
=============================================================================
