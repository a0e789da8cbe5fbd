---------------------------- MODULE ScriptProofs ----------------------------
(***************************************************************************)
(* Theorems about the two scripts of the NixOS modules that keep a state.  *)
(*                                                                         *)
(* install-grub.pl, for every set of systems, requests and targets and     *)
(* every limit: the menu on disk can be booted, nothing but what it names  *)
(* is left in kernels/ after a run, GRUB is where the state file says      *)
(* unless an installation was cut short, and the script implements         *)
(* BootDisk.                                                               *)
(*                                                                         *)
(* usb-ether.nix, for any number of device controllers: only a whole       *)
(* gadget is bound, and when all scripts have ended it is bound to a       *)
(* controller that is there, unless one left under them.                   *)
(***************************************************************************)
EXTENDS InstallGrub, UsbEther, TLAPS, SequenceTheorems

-----------------------------------------------------------------------------
(* Sequences and their elements.                                           *)

RangeOf(s) == {s[i] : i \in DOMAIN s}

LEMMA TailRange ==
  ASSUME NEW S, NEW s \in Seq(S), s # <<>>
  PROVE  /\ Head(s) \in S
         /\ Tail(s) \in Seq(S)
         /\ RangeOf(s) = {Head(s)} \cup RangeOf(Tail(s))
<1>1. /\ Head(s) \in S
      /\ Tail(s) \in Seq(S)
      /\ Len(Tail(s)) = Len(s) - 1
      /\ \A i \in 1..Len(Tail(s)) : Tail(s)[i] = s[i + 1]
  BY HeadTailProperties
<1>2. Len(s) \in Nat \ {0} /\ DOMAIN s = 1..Len(s) /\ Head(s) = s[1]
  BY EmptySeq, LenProperties
<1>3. DOMAIN Tail(s) = 1..(Len(s) - 1)
  BY <1>1, LenProperties
<1>4. \A i \in DOMAIN s : i # 1 => i - 1 \in DOMAIN Tail(s) /\ Tail(s)[i - 1] = s[i]
  BY <1>1, <1>2, <1>3
<1>5. \A i \in DOMAIN Tail(s) : i + 1 \in DOMAIN s /\ Tail(s)[i] = s[i + 1]
  BY <1>1, <1>2, <1>3
<1>6. ASSUME NEW x \in RangeOf(s)
      PROVE  x \in {Head(s)} \cup RangeOf(Tail(s))
  <2>1. PICK i \in DOMAIN s : x = s[i]
    BY <1>6 DEF RangeOf
  <2>2. CASE i = 1
    BY <1>2, <2>1, <2>2
  <2>3. CASE i # 1
    BY <1>4, <2>1, <2>3 DEF RangeOf
  <2> QED BY <2>2, <2>3
<1>7. ASSUME NEW x \in {Head(s)} \cup RangeOf(Tail(s))
      PROVE  x \in RangeOf(s)
  <2>1. CASE x = Head(s)
    BY <1>2, <2>1 DEF RangeOf
  <2>2. CASE x \in RangeOf(Tail(s))
    BY <1>5, <2>2 DEF RangeOf
  <2> QED BY <1>7, <2>1, <2>2
<1> QED BY <1>1, <1>6, <1>7

LEMMA AppendRange ==
  ASSUME NEW S, NEW s \in Seq(S), NEW e \in S
  PROVE  /\ Append(s, e) \in Seq(S)
         /\ RangeOf(Append(s, e)) = RangeOf(s) \cup {e}
<1>1. /\ Append(s, e) \in Seq(S)
      /\ Len(Append(s, e)) = Len(s) + 1
      /\ \A i \in 1..Len(s) : Append(s, e)[i] = s[i]
      /\ Append(s, e)[Len(s) + 1] = e
  BY AppendProperties
<1>2. Len(s) \in Nat /\ DOMAIN s = 1..Len(s) /\ DOMAIN Append(s, e) = 1..(Len(s) + 1)
  BY <1>1, LenProperties
<1>3. \A i \in DOMAIN Append(s, e) : i \in DOMAIN s \/ i = Len(s) + 1
  BY <1>2
<1>4. \A i \in DOMAIN s : i \in DOMAIN Append(s, e)
  BY <1>2
<1>5. Len(s) + 1 \in DOMAIN Append(s, e)
  BY <1>2
<1> QED BY <1>1, <1>2, <1>3, <1>4, <1>5 DEF RangeOf

LEMMA EmptyRange == RangeOf(<<>>) = {}
  BY DEF RangeOf

\* NamedIn and Collected in terms of the elements of a menu.
LEMMA NamedInRange == \A m : NamedIn(m) = UNION {e.files : e \in RangeOf(m)}
  BY DEF NamedIn, RangeOf

LEMMA CollectedRange == /\ Collected = {e.system : e \in RangeOf(conf)}
                        /\ Collected' = {e.system : e \in RangeOf(conf')}
  BY DEF Collected, RangeOf

LEMMA NewestIsSeq ==
  ASSUME NEW p \in Seq(Generations)
  PROVE  Newest(p) \in Seq(Generations)
<1> DEFINE n == IF Len(p) < Limit THEN Len(p) ELSE Limit
<1>1. Len(p) \in Nat /\ \A i \in 1..Len(p) : p[i] \in Generations
  BY LenProperties, ElementOfSeq
<1>2. n \in Nat /\ n <= Len(p)
  BY <1>1, ConstantsAssumption
<1>3. \A g \in Generations : [g EXCEPT !.current = FALSE] \in Generations
  BY DEF Generations
<1>4. \A i \in 1..n : [p[i] EXCEPT !.current = FALSE] \in Generations
  BY <1>1, <1>2, <1>3
<1>5. Newest(p) \in [1..n -> Generations]
  BY <1>4 DEF Newest
<1> QED BY <1>2, <1>5

LEMMA DefaultIsSeq ==
  ASSUME NEW r \in Requests
  PROVE  /\ DefaultGeneration(r) \in Seq(Generations)
         /\ r.profiles \in Seq(Seq(Generations))
         /\ r.params \in Params
         /\ r # None
<1>1. r \in Asked /\ r # None
  BY ConstantsAssumption
<1>2. r.default \in Generations /\ r.profiles \in Seq(Seq(Generations)) /\ r.params \in Params
  BY <1>1 DEF Asked
<1>3. [r.default EXCEPT !.current = TRUE] \in Generations
  BY <1>2 DEF Generations
<1> QED BY <1>1, <1>2, <1>3 DEF DefaultGeneration

-----------------------------------------------------------------------------
(* Types.                                                                  *)

LEMMA TypingMenu ==
  ASSUME TypeOK, MenuComes, Menu
  PROVE  TypeOK'
<1> USE DEF TypeOK, Ended
<1>1. CASE addProfile
  <2>1. Head(profiles) \in Seq(Generations) /\ Tail(profiles) \in Seq(Seq(Generations))
    BY <1>1, HeadTailProperties DEF addProfile
  <2>2. gens' \in Seq(Generations)
    BY <1>1, <2>1, NewestIsSeq DEF addProfile
  <2> QED BY <1>1, <2>1, <2>2 DEF addProfile, dir, grub
<1>2. CASE SkipCorrupt
  <2>1. Tail(gens) \in Seq(Generations)
    BY <1>2, HeadTailProperties DEF SkipCorrupt
  <2> QED BY <1>2, <2>1 DEF SkipCorrupt, dir, grub
<1>3. CASE addGeneration
  <2>1. Head(gens) \in Generations /\ Tail(gens) \in Seq(Generations)
    BY <1>3, HeadTailProperties DEF addGeneration
  <2>2. Head(gens).systems \in Seq(Systems)
    BY <2>1 DEF Generations
  <2> QED BY <1>3, <2>1, <2>2 DEF addGeneration, dir, grub
<1>4. CASE GenerationEnds
  BY <1>4 DEF GenerationEnds, script, dir, grub
<1>5. CASE SkipIncomplete
  <2>1. Tail(todo) \in Seq(Systems)
    BY <1>5, HeadTailProperties DEF SkipIncomplete
  <2> QED BY <1>5, <2>1 DEF SkipIncomplete, dir, grub
<1>6. CASE addEntry
  <2>1. Parts[Head(todo)] \in Seq(Names)
    BY <1>6, HeadTailProperties, ConstantsAssumption DEF addEntry
  <2> QED BY <1>6, <2>1 DEF addEntry, dir, grub
<1>7. CASE EntryEnds /\ todo # <<>>
  <2>1. Head(todo) \in Systems /\ Tail(todo) \in Seq(Systems)
    BY <1>7, HeadTailProperties
  <2>2. [system |-> Head(todo), files |-> files] \in Entries
    BY <2>1 DEF Entries
  <2>3. conf' \in Seq(Entries)
    BY <1>7, <2>2, AppendProperties DEF EntryEnds
  <2> QED BY <1>7, <2>1, <2>3 DEF EntryEnds, dir, grub
<1>8. EntryEnds => todo # <<>>
  BY DEF EntryEnds, MenuComes, Asking, InEntry
<1> QED BY <1>1, <1>2, <1>3, <1>4, <1>5, <1>6, <1>7, <1>8 DEF Menu

LEMMA TypingCopy ==
  ASSUME TypeOK, MenuComes, Copy
  PROVE  TypeOK'
<1> USE DEF TypeOK, Ended
<1>1. parts # <<>>
  BY DEF Copy, CopySkips, CopyBegins, CopyEnds, SecretsBegin, SecretsRenamed,
         SecretsUnlinked, SecretsDie, MenuComes, Asking
<1>2. Head(parts) \in Names /\ Tail(parts) \in Seq(Names)
  BY <1>1, HeadTailProperties
<1>3. CASE CopySkips
  BY <1>2, <1>3 DEF CopySkips, NamesFile, PartEnds, dir, grub
<1>4. CASE CopyBegins
  BY <1>2, <1>4 DEF CopyBegins, script, grub
<1>5. CASE CopyEnds
  BY <1>2, <1>5 DEF CopyEnds, NamesFile, PartEnds, grub
<1>6. CASE SecretsBegin
  BY <1>2, <1>6 DEF SecretsBegin, script, grub
<1>7. CASE SecretsRenamed
  BY <1>2, <1>7 DEF SecretsRenamed, NamesFile, PartEnds, grub
<1>8. CASE SecretsUnlinked
  BY <1>2, <1>8 DEF SecretsUnlinked, PartEnds, grub
<1>9. CASE SecretsDie
  BY <1>9 DEF SecretsDie, script, dir, grub
<1> QED BY <1>3, <1>4, <1>5, <1>6, <1>7, <1>8, <1>9 DEF Copy

LEMMA TypingRest ==
  ASSUME TypeOK, InstallGoesOn, Switch \/ Install \/ Stop
  PROVE  TypeOK'
<1> USE DEF TypeOK, Ended
<1>1. pc \in Switched => request.params \in Params /\ request.params.targets \subseteq Targets
  BY DefaultIsSeq DEF InstallGoesOn, Switched, Params
<1>2. CASE WriteConf
  BY <1>2 DEF WriteConf, script, dir, grub
<1>3. CASE SwitchConf
  BY <1>3 DEF SwitchConf, script, dir, grub
<1>4. ASSUME NEW n \in Names, Remove(n)
      PROVE  TypeOK'
  BY <1>4 DEF Remove, script, grub
<1>5. ASSUME NEW n \in Names, RemoveTemp(n)
      PROVE  TypeOK'
  BY <1>5 DEF RemoveTemp, script, grub
<1>6. CASE ReadState
  BY <1>1, <1>6 DEF ReadState, Switched, script, dir
<1>7. ASSUME NEW t \in Targets, InstallBegins(t)
      PROVE  TypeOK'
  BY <1>7 DEF InstallBegins, script, dir
<1>8. ASSUME NEW t \in Targets, InstallEnds(t)
      PROVE  TypeOK'
  BY <1>1, <1>8 DEF InstallEnds, Switched, script, dir
<1>9. CASE WriteState
  BY <1>1, <1>9 DEF WriteState, Switched, script, dir
<1>10. CASE Stop
  BY <1>10 DEF Stop, script, dir, grub
<1> QED BY <1>2, <1>3, <1>4, <1>5, <1>6, <1>7, <1>8, <1>9, <1>10 DEF Switch, Install

LEMMA TypingStart ==
  ASSUME TypeOK, NEW r \in Requests, Start(r)
  PROVE  TypeOK'
<1>1. DefaultGeneration(r) \in Seq(Generations) /\ r.profiles \in Seq(Seq(Generations))
  BY DefaultIsSeq
<1>2. NoGen \in Generations
  BY EmptySeq DEF NoGen, Generations
<1> QED BY <1>1, <1>2, EmptySeq DEF Start, TypeOK, Ended, dir

LEMMA Typing ==
  ASSUME IInv, [Next]_vars
  PROVE  TypeOK'
<1> USE DEF IInv
<1>1. CASE UNCHANGED vars
  BY <1>1 DEF vars, script, dir, grub, TypeOK, Ended
<1> QED BY <1>1, TypingStart, TypingMenu, TypingCopy, TypingRest DEF Next

-----------------------------------------------------------------------------
(* Files.                                                                  *)

LEMMA StoreFilesStayWhole ==
  ASSUME IInv, [Next]_vars
  PROVE  StoreFilesAreWhole'
<1> USE DEF StoreFilesAreWhole
<1>1. StoreFilesAreWhole /\ MenuComes
  BY DEF IInv
<1>2. CASE UNCHANGED <<kernels, whole>>
  BY <1>1, <1>2
<1>3. CASE CopyEnds
  BY <1>1, <1>3 DEF CopyEnds
<1>4. CASE SecretsRenamed
  <2>1. Head(parts) \in Secrets
    BY <1>1, <1>4 DEF SecretsRenamed, MenuComes, Asking
  <2> QED BY <1>1, <1>4, <2>1 DEF SecretsRenamed
<1>5. ASSUME NEW n \in Names, Remove(n)
      PROVE  StoreFilesAreWhole'
  BY <1>1, <1>5 DEF Remove
<1>6. CASE UNCHANGED vars
  BY <1>2, <1>6 DEF vars, dir
<1>7. ASSUME NEW r \in Requests, Start(r)
      PROVE  UNCHANGED <<kernels, whole>>
  BY <1>7 DEF Start, dir
<1>8. CASE Menu
  BY <1>2, <1>8 DEF Menu, addProfile, SkipCorrupt, addGeneration, GenerationEnds,
                    SkipIncomplete, addEntry, EntryEnds, dir
<1>9. CASE Copy
  BY <1>2, <1>3, <1>4, <1>9 DEF Copy, CopySkips, CopyBegins, SecretsBegin,
                                SecretsUnlinked, SecretsDie, dir
<1>10. CASE Switch
  BY <1>2, <1>5, <1>10 DEF Switch, WriteConf, SwitchConf, RemoveTemp, dir
<1>11. CASE Install
  BY <1>2, <1>11 DEF Install, ReadState, InstallBegins, InstallEnds, WriteState, dir
<1>12. CASE Stop
  BY <1>2, <1>12 DEF Stop, dir
<1> QED BY <1>2, <1>6, <1>7, <1>8, <1>9, <1>10, <1>11, <1>12 DEF Next

LEMMA NamedInEmpty == NamedIn(<<>>) = {}
  BY EmptyRange, NamedInRange

LEMMA NamedInAppend ==
  ASSUME NEW m \in Seq(Entries), NEW e \in Entries
  PROVE  NamedIn(Append(m, e)) = NamedIn(m) \cup e.files
<1>1. RangeOf(Append(m, e)) = RangeOf(m) \cup {e}
  BY AppendRange
<1> QED BY <1>1, NamedInRange

LEMMA CopiedStaysNamed ==
  ASSUME IInv, [Next]_vars
  PROVE  CopiedIsNamed'
<1> USE DEF CopiedIsNamed
<1>1. CopiedIsNamed /\ MenuComes /\ TypeOK
  BY DEF IInv
<1>2. CASE /\ UNCHANGED <<kernels, copied, conf, files>>
           /\ \/ pc' \in {"idle", "stopped", "died"}
              \/ /\ pc' \in InEntry <=> pc \in InEntry
                 /\ pc \notin {"idle", "stopped", "died"}
  BY <1>1, <1>2 DEF InEntry
<1>3. ASSUME NEW r \in Requests, Start(r)
      PROVE  CopiedIsNamed'
  BY <1>3, NamedInEmpty DEF Start, InEntry
<1>4. CASE addEntry
  BY <1>1, <1>4 DEF addEntry, dir, InEntry
<1>5. CASE EntryEnds
  <2>1. todo # <<>> /\ Head(todo) \in Systems
    BY <1>1, <1>5, HeadTailProperties DEF EntryEnds, MenuComes, Asking, InEntry, TypeOK
  <2>2. [system |-> Head(todo), files |-> files] \in Entries
    BY <1>1, <2>1 DEF Entries, TypeOK
  <2>3. NamedIn(conf') = NamedIn(conf) \cup files
    BY <1>1, <1>5, <2>2, NamedInAppend DEF EntryEnds, TypeOK
  <2> QED BY <1>1, <1>5, <2>3 DEF EntryEnds, dir, InEntry
<1>6. CASE CopySkips
  BY <1>1, <1>6 DEF CopySkips, NamesFile, PartEnds, dir, InEntry
<1>7. CASE CopyEnds
  BY <1>1, <1>7 DEF CopyEnds, NamesFile, PartEnds, InEntry
<1>8. CASE SecretsRenamed
  BY <1>1, <1>8 DEF SecretsRenamed, NamesFile, PartEnds, InEntry
<1>9. ASSUME NEW n \in Names, Remove(n)
      PROVE  CopiedIsNamed'
  BY <1>1, <1>9 DEF Remove, script, InEntry
<1>10. CASE UNCHANGED vars
  BY <1>1, <1>10 DEF vars, dir, script
<1>11. CASE Menu
  BY <1>2, <1>4, <1>5, <1>11
     DEF Menu, addProfile, SkipCorrupt, addGeneration, GenerationEnds,
         SkipIncomplete, script, dir, InEntry
<1>12. CASE Copy
  BY <1>2, <1>6, <1>7, <1>8, <1>12
     DEF Copy, CopyBegins, SecretsBegin, SecretsUnlinked, SecretsDie, PartEnds,
         script, InEntry, dir
<1>13. CASE Switch
  BY <1>2, <1>9, <1>13 DEF Switch, WriteConf, SwitchConf, RemoveTemp, script, dir, InEntry
<1>14. CASE Install
  BY <1>2, <1>14 DEF Install, ReadState, InstallBegins, InstallEnds, WriteState,
                     script, dir, InEntry
<1>15. CASE Stop
  BY <1>2, <1>15 DEF Stop, script, dir, InEntry
<1> QED BY <1>3, <1>10, <1>11, <1>12, <1>13, <1>14, <1>15 DEF Next

LEMMA CfgStaysThere ==
  ASSUME IInv, [Next]_vars
  PROVE  CfgIsThere'
<1> USE DEF CfgIsThere
<1>1. CfgIsThere /\ CopiedIsNamed
  BY DEF IInv
<1>2. CASE /\ UNCHANGED <<cfg, conf>>
           /\ kernels \subseteq kernels'
           /\ pc' \in Switched => pc \in Switched
  BY <1>1, <1>2
<1>3. CASE /\ UNCHANGED cfg
           /\ kernels \subseteq kernels'
           /\ pc' \notin Switched
  BY <1>1, <1>3
<1>4. CASE SwitchConf
  BY <1>1, <1>4 DEF SwitchConf, CopiedIsNamed, InEntry, script, dir
<1>5. ASSUME NEW n \in Names, Remove(n)
      PROVE  CfgIsThere'
  BY <1>1, <1>5 DEF Remove, CopiedIsNamed, InEntry, Switched, script
<1>6. CASE UNCHANGED vars
  BY <1>1, <1>6 DEF vars, script, dir
<1>7. ASSUME NEW r \in Requests, Start(r)
      PROVE  CfgIsThere'
  BY <1>3, <1>7 DEF Start, Switched, dir
<1>8. CASE Menu
  BY <1>3, <1>8 DEF Menu, addProfile, SkipCorrupt, addGeneration, GenerationEnds,
                    SkipIncomplete, addEntry, EntryEnds, Switched, dir
<1>9. CASE Copy
  BY <1>3, <1>9 DEF Copy, CopySkips, CopyBegins, CopyEnds, SecretsBegin,
                    SecretsRenamed, SecretsUnlinked, SecretsDie, PartEnds, Switched, dir
<1>10. CASE Switch
  BY <1>2, <1>3, <1>4, <1>5, <1>10 DEF Switch, WriteConf, RemoveTemp, Switched, script, dir
<1>11. CASE Install
  BY <1>2, <1>11 DEF Install, ReadState, InstallBegins, InstallEnds, WriteState,
                     Switched, script, dir
<1>12. CASE Stop
  BY <1>3, <1>12 DEF Stop, Switched, dir
<1> QED BY <1>6, <1>7, <1>8, <1>9, <1>10, <1>11, <1>12 DEF Next

LEMMA KernelsStayCopied ==
  ASSUME IInv, [Next]_vars
  PROVE  KernelsAreCopied'
<1> USE DEF KernelsAreCopied
<1>1. KernelsAreCopied
  BY DEF IInv
<1>2. CASE pc' \notin {"install", "installing", "done"}
  BY <1>2
<1>3. CASE UNCHANGED vars
  BY <1>1, <1>3 DEF vars, script, dir
<1>4. CASE Install
  BY <1>1, <1>4 DEF Install, ReadState, InstallBegins, InstallEnds, WriteState, script, dir
<1>5. CASE Menu
  BY <1>2, <1>5 DEF Menu, addProfile, SkipCorrupt, addGeneration, GenerationEnds,
                    SkipIncomplete, addEntry, EntryEnds
<1>6. CASE Copy
  BY <1>2, <1>6 DEF Copy, CopySkips, CopyBegins, CopyEnds, SecretsBegin,
                    SecretsRenamed, SecretsUnlinked, SecretsDie, PartEnds
<1>7. CASE (\E r \in Requests : Start(r)) \/ Switch \/ Stop
  BY <1>2, <1>7 DEF Start, Switch, WriteConf, SwitchConf, Remove, RemoveTemp, Stop
<1> QED BY <1>3, <1>4, <1>5, <1>6, <1>7 DEF Next

-----------------------------------------------------------------------------
(* The installation.                                                       *)

\* Neither the menu nor the copies touch what the installation goes by.
LEMMA OthersKeepGrub ==
  ASSUME IInv, Menu \/ Copy \/ Switch
  PROVE  /\ UNCHANGED <<request, state, loader, cut>>
         /\ pc \notin {"idle", "stopped", "died"}
         /\ pc' \notin {"install", "installing", "done"}
<1>1. CASE Menu
  BY <1>1 DEF Menu, addProfile, SkipCorrupt, addGeneration, GenerationEnds,
              SkipIncomplete, addEntry, EntryEnds, script, grub
<1>2. CASE Copy
  BY <1>2 DEF Copy, CopySkips, CopyBegins, CopyEnds, SecretsBegin, SecretsRenamed,
              SecretsUnlinked, SecretsDie, PartEnds, script, grub
<1>3. CASE Switch
  BY <1>3 DEF Switch, WriteConf, SwitchConf, Remove, RemoveTemp, script, grub
<1> QED BY <1>1, <1>2, <1>3

LEMMA InstallKeepsOn ==
  ASSUME IInv, [Next]_vars
  PROVE  InstallGoesOn'
<1> USE DEF InstallGoesOn, Begun
<1>1. InstallGoesOn /\ TypeOK
  BY DEF IInv
<1>2. CASE UNCHANGED vars
  BY <1>1, <1>2 DEF vars, script, grub
<1>3. ASSUME NEW r \in Requests, Start(r)
      PROVE  InstallGoesOn'
  BY <1>3 DEF Start
<1>4. CASE Menu \/ Copy \/ Switch
  BY <1>1, <1>4, OthersKeepGrub
<1>5. CASE ReadState
  BY <1>1, <1>5 DEF ReadState, requireNewInstall, script
<1>6. ASSUME NEW t \in Targets, InstallBegins(t)
      PROVE  InstallGoesOn'
  <2>1. request' = request /\ request \in Requests /\ pc' = "installing" /\ cut'
    BY <1>1, <1>6 DEF InstallBegins, script
  <2>2. Begun' \subseteq Begun \cup {t} /\ t \notin Begun
    BY <1>6, <2>1 DEF InstallBegins
  <2>3. \A u \in Begun : u # t /\ loader[u] = request.params /\ loader[u] # Torn
    BY <1>1, <1>6, <2>2, ConstantsAssumption, DefaultIsSeq DEF InstallBegins
  <2>4. loader' = [loader EXCEPT ![t] = Torn] /\ loader \in [Targets -> Params \cup {None, Torn}]
    BY <1>1, <1>6 DEF InstallBegins, TypeOK
  <2>5. Begun \subseteq Targets
    BY <2>1, DefaultIsSeq DEF Params
  <2>6. \A u \in Begun : loader'[u] = request.params /\ loader'[u] # Torn
    BY <2>3, <2>4, <2>5
  <2>7. loader'[t] = Torn
    BY <2>4
  <2> HIDE DEF Begun
  <2>8. /\ \A u \in Begun' : loader'[u] \in {Torn, request.params}
        /\ \A u, v \in Begun' : loader'[u] = Torn /\ loader'[v] = Torn => u = v
    BY <2>2, <2>6, <2>7
  <2> QED BY <2>1, <2>8
<1>7. ASSUME NEW t \in Targets, InstallEnds(t)
      PROVE  InstallGoesOn'
  BY <1>1, <1>7 DEF InstallEnds, script, TypeOK
<1>8. CASE WriteState
  BY <1>1, <1>8 DEF WriteState, script
<1>9. CASE Stop
  BY <1>1, <1>9 DEF Stop, script, grub
<1> QED BY <1>2, <1>3, <1>4, <1>5, <1>6, <1>7, <1>8, <1>9 DEF Next, Install

LEMMA StateStaysTrue ==
  ASSUME IInv, [Next]_vars
  PROVE  StateIsTrue'
<1> USE DEF StateIsTrue
<1>1. StateIsTrue /\ InstallGoesOn /\ TypeOK
  BY DEF IInv
<1>2. CASE UNCHANGED <<state, loader, cut>>
  BY <1>1, <1>2
<1>3. ASSUME NEW t \in Targets, InstallEnds(t)
      PROVE  StateIsTrue'
  BY <1>1, <1>3 DEF InstallEnds, InstallGoesOn
<1>4. CASE WriteState
  BY <1>1, <1>4 DEF WriteState, InstallGoesOn, Begun
<1>5. ASSUME NEW t \in Targets, InstallBegins(t)
      PROVE  StateIsTrue'
  BY <1>5 DEF InstallBegins
<1>6. ASSUME NEW r \in Requests, Start(r)
      PROVE  StateIsTrue'
  BY <1>2, <1>6 DEF Start
<1>7. CASE Menu \/ Copy \/ Switch
  BY <1>2, <1>7, OthersKeepGrub
<1>8. CASE ReadState \/ Stop \/ UNCHANGED vars
  BY <1>2, <1>8 DEF ReadState, Stop, vars, grub
<1> QED BY <1>3, <1>4, <1>5, <1>6, <1>7, <1>8 DEF Next, Install

-----------------------------------------------------------------------------
(* The menu.                                                               *)

\* What is still to come, in terms of elements.
Adds(g) == Complete \cap RangeOf(g.systems)

LEMMA InGenerationsRange ==
  \A gs : InGenerations(gs) = UNION {Adds(g) : g \in {h \in RangeOf(gs) : ~h.corrupt}}
<1> SUFFICES ASSUME NEW gs
             PROVE  InGenerations(gs) = UNION {Adds(g) : g \in {h \in RangeOf(gs) : ~h.corrupt}}
  OBVIOUS
<1>1. ASSUME NEW s \in InGenerations(gs)
      PROVE  s \in UNION {Adds(g) : g \in {h \in RangeOf(gs) : ~h.corrupt}}
  <2>1. s \in Complete
    BY <1>1 DEF InGenerations
  <2>2. PICK k \in DOMAIN gs : /\ ~gs[k].corrupt
                               /\ \E i \in DOMAIN gs[k].systems : gs[k].systems[i] = s
    BY <1>1 DEF InGenerations
  <2>3. s \in Adds(gs[k])
    BY <2>1, <2>2 DEF Adds, RangeOf
  <2>4. gs[k] \in {h \in RangeOf(gs) : ~h.corrupt}
    BY <2>2 DEF RangeOf
  <2> QED BY <2>3, <2>4
<1>2. ASSUME NEW s \in UNION {Adds(g) : g \in {h \in RangeOf(gs) : ~h.corrupt}}
      PROVE  s \in InGenerations(gs)
  <2>1. PICK g \in RangeOf(gs) : ~g.corrupt /\ s \in Adds(g)
    BY <1>2
  <2>2. PICK k \in DOMAIN gs : g = gs[k]
    BY DEF RangeOf
  <2> QED BY <2>1, <2>2 DEF Adds, RangeOf, InGenerations
<1> QED BY <1>1, <1>2

LEMMA InGenerationsTail ==
  ASSUME NEW gs \in Seq(Generations), gs # <<>>
  PROVE  InGenerations(gs) = (IF Head(gs).corrupt THEN {} ELSE Adds(Head(gs)))
                               \cup InGenerations(Tail(gs))
<1>1. RangeOf(gs) = {Head(gs)} \cup RangeOf(Tail(gs))
  BY TailRange
<1> QED BY <1>1, InGenerationsRange

LEMMA InProfilesTail ==
  ASSUME NEW ps \in Seq(Seq(Generations)), ps # <<>>
  PROVE  InProfiles(ps) = InGenerations(Newest(Head(ps))) \cup InProfiles(Tail(ps))
<1>1. \A qs : InProfiles(qs) = UNION {InGenerations(Newest(q)) : q \in RangeOf(qs)}
  BY DEF InProfiles, RangeOf
<1>2. RangeOf(ps) = {Head(ps)} \cup RangeOf(Tail(ps))
  BY TailRange
<1> QED BY <1>1, <1>2

LEMMA InEmpty == InGenerations(<<>>) = {} /\ InProfiles(<<>>) = {}
<1>1. InGenerations(<<>>) = {}
  BY EmptyRange, InGenerationsRange
<1>2. InProfiles(<<>>) = {}
  BY DEF InProfiles
<1> QED BY <1>1, <1>2

LEMMA PendingRange ==
  /\ Pending = (Complete \cap RangeOf(todo)) \cup InGenerations(gens) \cup InProfiles(profiles)
  /\ Pending' = (Complete \cap RangeOf(todo')) \cup InGenerations(gens')
                  \cup InProfiles(profiles')
<1>1. \A ts : {s \in Complete : \E i \in DOMAIN ts : ts[i] = s} = Complete \cap RangeOf(ts)
  BY DEF RangeOf
<1> QED BY <1>1 DEF Pending

\* The conjuncts of MenuComes other than the first.
MenuSteps ==
  pc \in Asking => /\ pc \in {"generation", "switch"} => todo = <<>>
                   /\ pc = "switch" => gens = <<>> /\ profiles = <<>>
                   /\ pc \in InEntry => todo # <<>> /\ Head(todo) \in Complete
                   /\ pc \in {"copying", "secrets"} => parts # <<>>
                   /\ pc = "copying" => Head(parts) \notin Secrets
                   /\ pc = "secrets" => Head(parts) \in Secrets

LEMMA MenuStepsKeep ==
  ASSUME MenuSteps, [Next]_vars
  PROVE  MenuSteps'
<1> USE DEF MenuSteps, Asking, InEntry
<1>1. CASE UNCHANGED vars
  BY <1>1 DEF vars, script
<1>2. ASSUME NEW r \in Requests, Start(r)
      PROVE  MenuSteps'
  BY <1>2 DEF Start
<1>3. CASE Menu
  BY <1>3 DEF Menu, addProfile, SkipCorrupt, addGeneration, GenerationEnds,
              SkipIncomplete, addEntry, EntryEnds, script
<1>4. CASE Copy
  BY <1>4 DEF Copy, CopySkips, CopyBegins, CopyEnds, SecretsBegin, SecretsRenamed,
              SecretsUnlinked, SecretsDie, PartEnds, NamesFile, script
<1>5. CASE Switch
  BY <1>5 DEF Switch, WriteConf, SwitchConf, Remove, RemoveTemp, script
<1>6. CASE Install
  BY <1>6 DEF Install, ReadState, InstallBegins, InstallEnds, WriteState, script
<1>7. CASE Stop
  BY <1>7 DEF Stop
<1> QED BY <1>1, <1>2, <1>3, <1>4, <1>5, <1>6, <1>7 DEF Next

MenuSum == pc \in Asking => Collected \cup Pending = Offers(request)

LEMMA MenuSumKeeps ==
  ASSUME TypeOK, MenuSum, MenuSteps, [Next]_vars
  PROVE  MenuSum'
<1> USE DEF MenuSum
<1>1. CASE /\ UNCHANGED <<conf, todo, gens, profiles, request>>
           /\ pc' \in Asking => pc \in Asking
  BY <1>1 DEF Collected, Pending
<1>2. CASE pc' \notin Asking
  BY <1>2
<1>3. ASSUME NEW r \in Requests, Start(r)
      PROVE  MenuSum'
  <2>1. /\ RangeOf(conf') = {} /\ RangeOf(todo') = {}
        /\ gens' = DefaultGeneration(r) /\ profiles' = r.profiles /\ request' = r
    BY <1>3, EmptyRange DEF Start
  <2>2. Collected' = {}
    BY <2>1, CollectedRange
  <2>3. Pending' = InGenerations(DefaultGeneration(r)) \cup InProfiles(r.profiles)
    BY <2>1, PendingRange
  <2> QED BY <2>1, <2>2, <2>3 DEF Offers
<1>4. CASE addProfile
  <2>1. InGenerations(gens) = {}
    BY <1>4, InEmpty DEF addProfile
  <2>2. InProfiles(profiles) = InGenerations(gens') \cup InProfiles(profiles')
    BY <1>4, InProfilesTail DEF addProfile, TypeOK
  <2>3. Pending' = Pending
    BY <1>4, <2>1, <2>2, PendingRange DEF addProfile
  <2> QED BY <1>4, <2>3 DEF addProfile, Collected
<1>5. CASE SkipCorrupt
  <2>1. InGenerations(gens) = InGenerations(gens')
    BY <1>5, InGenerationsTail DEF SkipCorrupt, TypeOK
  <2>2. Pending' = Pending
    BY <1>5, <2>1, PendingRange DEF SkipCorrupt
  <2> QED BY <1>5, <2>2 DEF SkipCorrupt, Collected
<1>6. CASE addGeneration
  <2>1. InGenerations(gens) = (Complete \cap RangeOf(todo')) \cup InGenerations(gens')
    BY <1>6, InGenerationsTail DEF addGeneration, TypeOK, Adds
  <2>2. RangeOf(todo) = {}
    BY <1>6, EmptyRange DEF addGeneration, MenuSteps, Asking
  <2>3. Pending' = Pending
    BY <1>6, <2>1, <2>2, PendingRange DEF addGeneration
  <2> QED BY <1>6, <2>3 DEF addGeneration, Collected, Asking
<1>7. CASE SkipIncomplete
  <2>1. Complete \cap RangeOf(todo) = Complete \cap RangeOf(todo')
    BY <1>7, TailRange DEF SkipIncomplete, TypeOK
  <2>2. Pending' = Pending
    BY <1>7, <2>1, PendingRange DEF SkipIncomplete
  <2> QED BY <1>7, <2>2 DEF SkipIncomplete, Collected
<1>8. CASE EntryEnds
  <2>1. todo # <<>> /\ Head(todo) \in Complete
    BY <1>8 DEF EntryEnds, MenuSteps, Asking, InEntry
  <2>2. Head(todo) \in Systems /\ RangeOf(todo) = {Head(todo)} \cup RangeOf(todo')
    BY <1>8, <2>1, TailRange DEF EntryEnds, TypeOK
  <2> DEFINE e == [system |-> Head(todo), files |-> files]
  <2>3. e \in Entries /\ e.system = Head(todo)
    BY <2>2 DEF Entries, TypeOK
  <2>4. conf' = Append(conf, e)
    BY <1>8 DEF EntryEnds
  <2> HIDE DEF e
  <2>5. RangeOf(conf') = RangeOf(conf) \cup {e}
    BY <2>3, <2>4, AppendRange DEF TypeOK
  <2>6. Collected' = Collected \cup {Head(todo)}
    BY <2>3, <2>5, CollectedRange
  <2>7. Pending \cup {Head(todo)} = Pending' \cup {Head(todo)}
    BY <1>8, <2>1, <2>2, PendingRange DEF EntryEnds
  <2>8. Head(todo) \in Pending
    BY <2>1, <2>2, PendingRange
  <2> QED BY <1>8, <2>6, <2>7, <2>8 DEF EntryEnds, Asking
<1>9. CASE UNCHANGED vars
  BY <1>1, <1>9 DEF vars, script
<1>10. CASE Menu
  BY <1>1, <1>4, <1>5, <1>6, <1>7, <1>8, <1>10
     DEF Menu, GenerationEnds, addEntry, script, Asking
<1>11. CASE Copy
  BY <1>1, <1>11 DEF Copy, CopySkips, CopyBegins, CopyEnds, SecretsBegin, NamesFile,
                     SecretsRenamed, SecretsUnlinked, SecretsDie, PartEnds, script, Asking
<1>12. CASE Switch
  BY <1>1, <1>2, <1>12 DEF Switch, WriteConf, SwitchConf, Remove, RemoveTemp, script, Asking
<1>13. CASE Install
  BY <1>2, <1>13 DEF Install, ReadState, InstallBegins, InstallEnds, WriteState, Asking
<1>14. CASE Stop
  BY <1>2, <1>14 DEF Stop, Asking
<1> QED BY <1>3, <1>9, <1>10, <1>11, <1>12, <1>13, <1>14 DEF Next

LEMMA MenuKeepsComing ==
  ASSUME IInv, [Next]_vars
  PROVE  MenuComes'
<1>1. TypeOK /\ MenuComes
  BY DEF IInv
<1>2. MenuSum /\ MenuSteps
  BY <1>1 DEF MenuComes, MenuSum, MenuSteps
<1>3. MenuSum' /\ MenuSteps'
  BY <1>1, <1>2, MenuSumKeeps, MenuStepsKeep
<1> QED BY <1>3 DEF MenuComes, MenuSum, MenuSteps

-----------------------------------------------------------------------------
(* The invariant.                                                          *)

LEMMA InitInvariant ==
  ASSUME Init
  PROVE  IInv
<1> USE DEF Init
<1>1. TypeOK
  <2>1. NoGen \in Generations
    BY EmptySeq DEF NoGen, Generations
  <2> QED BY <2>1, EmptySeq DEF TypeOK, Ended
<1>2. StoreFilesAreWhole /\ CopiedIsNamed /\ KernelsAreCopied /\ StateIsTrue
  BY DEF StoreFilesAreWhole, CopiedIsNamed, KernelsAreCopied, StateIsTrue
<1>3. CfgIsThere /\ InstallGoesOn /\ MenuComes
  BY NamedInEmpty DEF CfgIsThere, Switched, InstallGoesOn, MenuComes, Asking
<1> QED BY <1>1, <1>2, <1>3 DEF IInv

LEMMA StepInvariant ==
  ASSUME IInv, [Next]_vars
  PROVE  IInv'
<1>1. /\ TypeOK' /\ StoreFilesAreWhole' /\ CopiedIsNamed' /\ CfgIsThere'
      /\ KernelsAreCopied' /\ InstallGoesOn' /\ StateIsTrue' /\ MenuComes'
  BY Typing, StoreFilesStayWhole, CopiedStaysNamed, CfgStaysThere, KernelsStayCopied,
     InstallKeepsOn, StateStaysTrue, MenuKeepsComing
<1> QED BY <1>1 DEF IInv

\* The invariant behind the four theorems below: a store file in kernels/ is
\* whole, the run's copies are what its menu names, the menu on disk is there.
THEOREM Invariant == Spec => []IInv
<1>1. Init => IInv
  BY InitInvariant
<1>2. IInv /\ [Next]_vars => IInv'
  BY StepInvariant
<1> QED BY <1>1, <1>2, PTL DEF Spec

\* The variables keep their types.
THEOREM TypeCorrect == Spec => []TypeOK
<1>1. IInv => TypeOK
  BY DEF IInv
<1> QED BY <1>1, Invariant, PTL

LEMMA IInvBoots == IInv => EveryEntryBoots
<1> SUFFICES ASSUME IInv, NEW i \in DOMAIN cfg
             PROVE  Boots(cfg[i])
  BY DEF EveryEntryBoots
<1>1. cfg[i].files \subseteq NamedIn(cfg)
  BY DEF NamedIn
<1> QED BY <1>1 DEF IInv, CfgIsThere, StoreFilesAreWhole, Boots

\* Whenever the machine is switched off, grub.cfg names only files that are there
\* and, those of the store, copied to the end.
THEOREM MenuBoots == Spec => []EveryEntryBoots
BY IInvBoots, Invariant, PTL

\* Past the removal kernels/ holds what the menu names and nothing else.
THEOREM NothingElseRemains == Spec => []OnlyNamedFilesRemain
<1>1. IInv => OnlyNamedFilesRemain
  BY DEF IInv, CopiedIsNamed, CfgIsThere, KernelsAreCopied, OnlyNamedFilesRemain, InEntry,
         Switched
<1> QED BY <1>1, Invariant, PTL

\* A run that ends well finds or leaves GRUB as asked, unless an installation
\* was cut short.
THEOREM LoaderIsRight == Spec => []LoaderIsWhatWasAsked
<1>1. IInv => LoaderIsWhatWasAsked
  <2> SUFFICES ASSUME IInv, pc = "done", ~cut
               PROVE  \A t \in request.params.targets : loader[t] = request.params
    BY DEF LoaderIsWhatWasAsked
  <2>1. request \in Requests /\ state = request.params
    BY DEF IInv, InstallGoesOn
  <2>2. state # None
    BY <2>1, DefaultIsSeq, ConstantsAssumption
  <2> QED BY <2>1, <2>2 DEF IInv, StateIsTrue
<1> QED BY <1>1, Invariant, PTL

-----------------------------------------------------------------------------
(* The refinement.                                                         *)

\* Of a menu that can be booted BootMenu is every system.
LEMMA BootMenuIsAll ==
  ASSUME EveryEntryBoots
  PROVE  BootMenu = {e.system : e \in RangeOf(cfg)}
BY DEF BootMenu, EveryEntryBoots, RangeOf

\* Every step but the rename of grub.cfg leaves what can be booted alone.
LEMMA MenuStays ==
  ASSUME EveryEntryBoots, EveryEntryBoots', cfg' = cfg
  PROVE  BootMenu' = BootMenu
<1>1. BootMenu = {e.system : e \in RangeOf(cfg)}
  BY BootMenuIsAll
<1>2. BootMenu' = {e.system : e \in RangeOf(cfg')}
  BY DEF BootMenu, EveryEntryBoots, RangeOf
<1> QED BY <1>1, <1>2

LEMMA SwitchRefines ==
  ASSUME IInv, EveryEntryBoots', SwitchConf
  PROVE  request \in Requests /\ BootMenu' = Offers(request)
<1>1. pc = "switch" /\ request \in Requests /\ cfg' = conf
  BY DEF SwitchConf, IInv, InstallGoesOn
<1>2. Collected \cup Pending = Offers(request) /\ todo = <<>> /\ gens = <<>> /\ profiles = <<>>
  BY <1>1 DEF IInv, MenuComes, Asking
<1>3. Pending = {}
  BY <1>2, PendingRange, InEmpty, EmptyRange
<1>4. BootMenu' = {e.system : e \in RangeOf(cfg')}
  BY DEF BootMenu, EveryEntryBoots, RangeOf
<1> QED BY <1>1, <1>2, <1>3, <1>4, CollectedRange

\* The script implements BootDisk: the menu changes in one step, to what was
\* asked for, or not at all.
THEOREM ImplementsBootDisk == Spec => MenuSwitchesAtOnce
<1>1. Init => Disk!Init
  BY DEF Init, Disk!Init, BootMenu, Request, Asking
<1>2. IInv /\ EveryEntryBoots /\ EveryEntryBoots' /\ [Next]_vars => [Disk!Next]_(Disk!disk)
  <2> SUFFICES ASSUME IInv, EveryEntryBoots, EveryEntryBoots', [Next]_vars
               PROVE  [Disk!Next]_(Disk!disk)
    OBVIOUS
  <2>1. pc \notin {"idle", "stopped", "died"} => request \in Requests
    BY DEF IInv, InstallGoesOn
  <2>2. CASE UNCHANGED <<BootMenu, Request>>
    BY <2>2 DEF Disk!disk
  <2>3. CASE cfg' = cfg /\ UNCHANGED <<request>> /\ (pc' \in Asking <=> pc \in Asking)
    BY <2>2, <2>3, MenuStays DEF Request
  <2>4. CASE cfg' = cfg /\ pc \in Asking /\ pc' \notin Asking
    <3>1. BootMenu' = BootMenu
      BY <2>4, MenuStays
    <3>2. Request \in Requests /\ Request' = None
      BY <2>1, <2>4 DEF Request, Asking
    <3> QED BY <3>1, <3>2 DEF Disk!Next, Disk!GiveUp
  <2>5. CASE cfg' = cfg /\ pc \notin Asking /\ pc' \notin Asking
    BY <2>2, <2>5, MenuStays DEF Request
  <2>6. ASSUME NEW r \in Requests, Start(r)
        PROVE  Disk!Next
    <3>1. cfg' = cfg /\ pc \notin Asking /\ pc' \in Asking /\ request' = r
      BY <2>6 DEF Start, Ended, Asking
    <3>2. BootMenu' = BootMenu /\ Request = None /\ Request' = r
      BY <3>1, MenuStays DEF Request
    <3> QED BY <3>2 DEF Disk!Next, Disk!Ask
  <2>7. CASE SwitchConf
    <3>1. request \in Requests /\ BootMenu' = Offers(request)
      BY <2>7, SwitchRefines
    <3>2. Request = request /\ Request' = None
      BY <2>7 DEF SwitchConf, Request, Asking
    <3>3. BootMenu' = [r \in Requests |-> Offers(r)][Request]
      BY <3>1, <3>2
    <3> QED BY <3>1, <3>2, <3>3 DEF Disk!Next, Disk!Switch
  <2>8. CASE UNCHANGED vars
    BY <2>3, <2>8 DEF vars, script, dir
  <2>9. CASE Menu
    BY <2>3, <2>9 DEF Menu, addProfile, SkipCorrupt, addGeneration, GenerationEnds,
                      SkipIncomplete, addEntry, EntryEnds, Asking, script
  <2>10. CASE Copy
    BY <2>3, <2>4, <2>10
       DEF Copy, CopySkips, CopyBegins, CopyEnds, SecretsBegin, SecretsRenamed,
           SecretsUnlinked, SecretsDie, PartEnds, Asking, script
  <2>11. CASE Switch
    BY <2>3, <2>7, <2>11 DEF Switch, WriteConf, Remove, RemoveTemp, Asking, script
  <2>12. CASE Install
    BY <2>5, <2>12 DEF Install, ReadState, InstallBegins, InstallEnds, WriteState, Asking
  <2>13. CASE Stop
    BY <2>4, <2>5, <2>13 DEF Stop, Asking
  <2> QED BY <2>6, <2>7, <2>8, <2>9, <2>10, <2>11, <2>12, <2>13 DEF Next
<1>3. Spec => []EveryEntryBoots
  BY MenuBoots
<1> QED BY <1>1, <1>2, <1>3, Invariant, PTL DEF Spec, MenuSwitchesAtOnce, Disk!Spec

-----------------------------------------------------------------------------
(* usb-ether.nix.                                                          *)

\* Controllers that come and go: a new one is announced, and the ports are calm
\* only with no script past its test; when one leaves they are not.
LEMMA PortsKeep ==
  ASSUME EtherInv, NEW u \in UDCs,
         Appear(u) \/ Vanish(u)
  PROVE  EtherInv'
<1> USE NamesAssumption DEF EtherInv
<1>1. CASE Appear(u)
  <2>1. EtherTypeOK'
    BY <1>1 DEF Appear, units, scripts, EtherTypeOK
  <2>2. UnitsInOrder'
    BY <1>1 DEF Appear, units, scripts, UnitsInOrder
  <2>3. GadgetInOrder'
    BY <1>1 DEF Appear, units, scripts, GadgetInOrder
  <2>4. CalmInOrder'
    BY <1>1 DEF Appear, PastTest, units, scripts, CalmInOrder, ServedOrComing, Served,
       Comes, Announced
  <2> QED BY <2>1, <2>2, <2>3, <2>4
<1>2. CASE Vanish(u)
  <2>1. EtherTypeOK'
    BY <1>2 DEF Vanish, units, scripts, EtherTypeOK
  <2>2. UnitsInOrder'
    BY <1>2 DEF Vanish, units, scripts, UnitsInOrder
  <2>3. GadgetInOrder'
    BY <1>2 DEF Vanish, units, scripts, GadgetInOrder
  <2>4. CalmInOrder'
    BY <1>2 DEF Vanish, CalmInOrder
  <2> QED BY <2>1, <2>2, <2>3, <2>4
<1> QED BY <1>1, <1>2

\* What udev and systemd do with the unit of a controller: an announcement that
\* is taken makes a unit wait, unless it has gone or usb-ether.service is stopped.
LEMMA UnitsKeep ==
  ASSUME EtherInv, NEW u \in UDCs, UdevAdds(u) \/ UdevDrops(u) \/ UnitStarts(u)
  PROVE  EtherInv'
<1> USE NamesAssumption DEF EtherInv
<1>1. CASE UdevAdds(u)
  <2>1. EtherTypeOK'
    BY <1>1 DEF UdevAdds, Handles, scripts, Starts, EtherTypeOK
  <2>2. UnitsInOrder'
    BY <1>1 DEF UdevAdds, Handles, scripts, Starts, EtherTypeOK, UnitsInOrder
  <2>3. GadgetInOrder'
    BY <1>1 DEF UdevAdds, Handles, scripts, Starts, GadgetInOrder
  <2>4. CalmInOrder'
    BY <1>1 DEF UdevAdds, Handles, scripts, Starts, EtherTypeOK, Scripts, UnitsInOrder,
       CalmInOrder, PastTest, ServedOrComing, Served, Comes, Announced
  <2> QED BY <2>1, <2>2, <2>3, <2>4
<1>2. CASE UdevDrops(u)
  <2>1. EtherTypeOK'
    BY <1>2 DEF UdevDrops, Handles, scripts, EtherTypeOK
  <2>2. UnitsInOrder'
    BY <1>2 DEF UdevDrops, Handles, scripts, UnitsInOrder
  <2>3. GadgetInOrder'
    BY <1>2 DEF UdevDrops, Handles, scripts, GadgetInOrder
  <2>4. CalmInOrder'
    BY <1>2 DEF UdevDrops, Handles, scripts, UnitsInOrder, CalmInOrder, PastTest,
       ServedOrComing, Served, Comes, Announced
  <2> QED BY <2>1, <2>2, <2>3, <2>4
<1>3. CASE UnitStarts(u)
  <2>1. EtherTypeOK'
    BY <1>3 DEF UnitStarts, ports, EtherTypeOK
  <2>2. UnitsInOrder'
    BY <1>3 DEF UnitStarts, EtherTypeOK, Scripts, UnitsInOrder
  <2>3. GadgetInOrder'
    BY <1>3 DEF UnitStarts, GadgetInOrder
  <2>4. CalmInOrder'
    BY <1>3 DEF UnitStarts, ports, EtherTypeOK, UnitsInOrder, CalmInOrder, PastTest,
       ServedOrComing, Served, Comes
  <2> QED BY <2>1, <2>2, <2>3, <2>4
<1> QED BY <1>1, <1>2, <1>3

\* Starts and stops of usb-ether.service.
LEMMA ServicesKeep ==
  ASSUME EtherInv, StartEther \/ StopBegins \/ Teardown
  PROVE  EtherInv'
<1> USE NamesAssumption DEF EtherInv
<1>1. CASE StartEther
  <2>1. EtherTypeOK'
    BY <1>1 DEF StartEther, Starts, ports, scripts, EtherTypeOK
  <2>2. UnitsInOrder'
    BY <1>1 DEF StartEther, Starts, scripts, UnitsInOrder
  <2>3. GadgetInOrder'
    BY <1>1 DEF StartEther, Starts, scripts, GadgetInOrder
  <2>4. CalmInOrder'
    BY <1>1 DEF StartEther, Starts, ports, scripts, CalmInOrder, PastTest
  <2> QED BY <2>1, <2>2, <2>3, <2>4
<1>2. CASE StopBegins
  <2>1. EtherTypeOK'
    BY <1>2 DEF StopBegins, ports, EtherTypeOK
  <2>2. UnitsInOrder'
    BY <1>2 DEF StopBegins, Scripts, UnitsInOrder
  <2>3. GadgetInOrder'
    BY <1>2 DEF StopBegins, Scripts, GadgetInOrder
  <2>4. CalmInOrder'
    BY <1>2 DEF StopBegins, ports, CalmInOrder, PastTest
  <2> QED BY <2>1, <2>2, <2>3, <2>4
<1>3. CASE Teardown
  <2>1. EtherTypeOK'
    BY <1>3 DEF Teardown, ports, scripts, EtherTypeOK
  <2>2. UnitsInOrder'
    BY <1>3 DEF Teardown, scripts, UnitsInOrder
  <2>3. GadgetInOrder'
    BY <1>3 DEF Teardown, scripts, UnitsInOrder, GadgetInOrder
  <2>4. CalmInOrder'
    BY <1>3 DEF Teardown, ports, scripts, CalmInOrder, PastTest, Announced
  <2> QED BY <2>1, <2>2, <2>3, <2>4
<1> QED BY <1>1, <1>2, <1>3

\* setupScript runs alone: no unit runs while usb-ether.service is starting.
LEMMA SetupKeeps ==
  ASSUME EtherInv,
         cleanup_gadget \/ SetupMakes \/ SetupLinks \/ SetupLists \/ SetupPicks
  PROVE  EtherInv'
<1> USE NamesAssumption DEF EtherInv
<1>1. CASE cleanup_gadget
  <2>1. EtherTypeOK'
    BY <1>1 DEF cleanup_gadget, ports, scripts, EtherTypeOK
  <2>2. UnitsInOrder'
    BY <1>1 DEF cleanup_gadget, scripts, UnitsInOrder
  <2>3. GadgetInOrder'
    BY <1>1 DEF cleanup_gadget, scripts, UnitsInOrder, GadgetInOrder
  <2>4. CalmInOrder'
    BY <1>1 DEF cleanup_gadget, ports, scripts, UnitsInOrder, CalmInOrder, PastTest
  <2> QED BY <2>1, <2>2, <2>3, <2>4
<1>2. CASE SetupMakes
  <2>1. EtherTypeOK'
    BY <1>2 DEF SetupMakes, ports, scripts, EtherTypeOK
  <2>2. UnitsInOrder'
    BY <1>2 DEF SetupMakes, scripts, UnitsInOrder
  <2>3. GadgetInOrder'
    BY <1>2 DEF SetupMakes, scripts, UnitsInOrder, GadgetInOrder
  <2>4. CalmInOrder'
    BY <1>2 DEF SetupMakes, ports, scripts, CalmInOrder, PastTest, ServedOrComing,
       Served, Comes
  <2> QED BY <2>1, <2>2, <2>3, <2>4
<1>3. CASE SetupLinks
  <2>1. EtherTypeOK'
    BY <1>3 DEF SetupLinks, ports, scripts, EtherTypeOK
  <2>2. UnitsInOrder'
    BY <1>3 DEF SetupLinks, scripts, UnitsInOrder
  <2>3. GadgetInOrder'
    BY <1>3 DEF SetupLinks, scripts, GadgetInOrder
  <2>4. CalmInOrder'
    BY <1>3 DEF SetupLinks, ports, scripts, CalmInOrder, PastTest, ServedOrComing,
       Served, Comes
  <2> QED BY <2>1, <2>2, <2>3, <2>4
<1>4. CASE SetupLists
  <2>1. EtherTypeOK'
    BY <1>4 DEF SetupLists, ports, scripts, EtherTypeOK
  <2>2. UnitsInOrder'
    BY <1>4 DEF SetupLists, scripts, UnitsInOrder
  <2>3. GadgetInOrder'
    BY <1>4 DEF SetupLists, scripts, GadgetInOrder
  <2>4. CalmInOrder'
    BY <1>4 DEF SetupLists, ports, scripts, CalmInOrder, PastTest, ServedOrComing,
       Served, Comes
  <2> QED BY <2>1, <2>2, <2>3, <2>4
<1>5. CASE SetupPicks
  <2>1. EtherTypeOK'
    BY <1>5 DEF SetupPicks, SetupExits, ports, EtherTypeOK
  <2>2. UnitsInOrder'
    BY <1>5 DEF SetupPicks, SetupExits, EtherTypeOK, Scripts, UnitsInOrder
  <2>3. GadgetInOrder'
    BY <1>5 DEF SetupPicks, EtherTypeOK, Scripts, GadgetInOrder
  <2>4. CalmInOrder'
    BY <1>5 DEF SetupPicks, SetupExits, ports, EtherTypeOK, Scripts, UnitsInOrder,
       CalmInOrder, PastTest, ServedOrComing, Comes, Announced
  <2> QED BY <2>1, <2>2, <2>3, <2>4
<1> QED BY <1>1, <1>2, <1>3, <1>4, <1>5

\* bindScript: a test makes a script come; from then on, while the ports are calm,
\* a script that gives up does so because another serves the gadget or comes.
LEMMA BindKeeps ==
  ASSUME EtherInv, NEW p \in Scripts,
         Tests(p) \/ Reads(p) \/ Clears(p) \/ Writes(p) \/ Verifies(p)
  PROVE  EtherInv'
<1> USE NamesAssumption DEF EtherInv
<1>1. CASE Tests(p)
  <2>1. EtherTypeOK'
    BY <1>1 DEF Tests, Exits, SetupExits, Goes, ports, EtherTypeOK
  <2>2. UnitsInOrder'
    BY <1>1 DEF Tests, Exits, SetupExits, Goes, EtherTypeOK, Scripts, UnitsInOrder
  <2>3. GadgetInOrder'
    BY <1>1 DEF Tests, Exits, SetupExits, Goes, EtherTypeOK, Scripts, UnitsInOrder,
       GadgetInOrder
  <2>4. CalmInOrder'
    BY <1>1 DEF Tests, Exits, SetupExits, Goes, ports, EtherTypeOK, Scripts,
       UnitsInOrder, GadgetInOrder, CalmInOrder, PastTest, ServedOrComing, Served,
       Comes, Announced
  <2> QED BY <2>1, <2>2, <2>3, <2>4
<1>2. CASE Reads(p)
  <2>1. EtherTypeOK'
    BY <1>2 DEF Reads, Exits, SetupExits, Goes, ports, EtherTypeOK
  <2>2. UnitsInOrder'
    BY <1>2 DEF Reads, Exits, SetupExits, Goes, EtherTypeOK, Scripts, UnitsInOrder
  <2>3. GadgetInOrder'
    BY <1>2 DEF Reads, Exits, SetupExits, Goes, EtherTypeOK, Scripts, UnitsInOrder,
       GadgetInOrder
  <2>4. CalmInOrder'
    BY <1>2 DEF Reads, Exits, SetupExits, Goes, ports, EtherTypeOK, UnitsInOrder,
       CalmInOrder, PastTest, ServedOrComing, Served, Comes, Announced
  <2> QED BY <2>1, <2>2, <2>3, <2>4
<1>3. CASE Clears(p)
  <2>1. EtherTypeOK'
    BY <1>3 DEF Clears, Exits, SetupExits, Goes, ports, EtherTypeOK
  <2>2. UnitsInOrder'
    BY <1>3 DEF Clears, Exits, SetupExits, Goes, EtherTypeOK, Scripts, UnitsInOrder
  <2>3. GadgetInOrder'
    BY <1>3 DEF Clears, Exits, Goes, EtherTypeOK, Scripts, UnitsInOrder, GadgetInOrder
  <2>4. CalmInOrder'
    BY <1>3 DEF Clears, Exits, SetupExits, Goes, ports, EtherTypeOK, UnitsInOrder,
       GadgetInOrder, CalmInOrder, PastTest, ServedOrComing, Served, Comes, Announced
  <2> QED BY <2>1, <2>2, <2>3, <2>4
<1>4. CASE Writes(p)
  <2>1. EtherTypeOK'
    BY <1>4 DEF Writes, Goes, Exits, SetupExits, ports, EtherTypeOK
  <2>2. UnitsInOrder'
    BY <1>4 DEF Writes, Goes, Exits, SetupExits, EtherTypeOK, Scripts, UnitsInOrder
  <2>3. GadgetInOrder'
    BY <1>4 DEF Writes, Goes, Exits, SetupExits, EtherTypeOK, Scripts, UnitsInOrder,
       GadgetInOrder
  <2>4. CalmInOrder'
    BY <1>4 DEF Writes, Goes, Exits, SetupExits, ports, EtherTypeOK, UnitsInOrder,
       GadgetInOrder, CalmInOrder, PastTest, ServedOrComing, Served, Comes, Announced
  <2> QED BY <2>1, <2>2, <2>3, <2>4
<1>5. CASE Verifies(p)
  <2>1. EtherTypeOK'
    BY <1>5 DEF Verifies, Exits, SetupExits, ports, EtherTypeOK
  <2>2. UnitsInOrder'
    BY <1>5 DEF Verifies, Exits, SetupExits, EtherTypeOK, UnitsInOrder
  <2>3. GadgetInOrder'
    BY <1>5 DEF Verifies, Exits, SetupExits, UnitsInOrder, GadgetInOrder
  <2>4. CalmInOrder'
    BY <1>5 DEF Verifies, Exits, SetupExits, ports, EtherTypeOK, UnitsInOrder,
       GadgetInOrder, CalmInOrder, PastTest, ServedOrComing, Served, Comes, Announced
  <2> QED BY <2>1, <2>2, <2>3, <2>4
<1> QED BY <1>1, <1>2, <1>3, <1>4, <1>5

LEMMA EtherInit ==
  ASSUME InitEther
  PROVE  EtherInv
<1> USE NamesAssumption DEF InitEther
<1>1. EtherTypeOK
  BY DEF EtherTypeOK, Scripts
<1>2. UnitsInOrder
  BY DEF UnitsInOrder, Scripts
<1>3. GadgetInOrder
  BY DEF GadgetInOrder, Scripts
<1>4. CalmInOrder
  BY DEF CalmInOrder
<1> QED BY <1>1, <1>2, <1>3, <1>4 DEF EtherInv

LEMMA EtherStays ==
  ASSUME EtherInv, UNCHANGED etherVars
  PROVE  EtherInv'
<1>1. EtherTypeOK' /\ UnitsInOrder' /\ GadgetInOrder'
  BY DEF EtherInv, EtherTypeOK, UnitsInOrder, GadgetInOrder, etherVars, ports, units, scripts
<1>2. CalmInOrder'
  BY DEF EtherInv, CalmInOrder, PastTest, ServedOrComing, Served, Comes, Announced, etherVars,
     ports, units, scripts
<1> QED BY <1>1, <1>2 DEF EtherInv

LEMMA EtherStep ==
  ASSUME EtherInv, [NextEther]_etherVars
  PROVE  EtherInv'
<1>1. CASE \E u \in UDCs :
             Appear(u) \/ Vanish(u) \/ UdevAdds(u) \/ UdevDrops(u) \/ UnitStarts(u)
  BY <1>1, PortsKeep, UnitsKeep
<1>2. CASE StartEther \/ StopBegins \/ Teardown
  BY <1>2, ServicesKeep
<1>3. CASE setupScript
  BY <1>3, SetupKeeps DEF setupScript
<1>4. CASE \E p \in Scripts : bindScript(p)
  BY <1>4, BindKeeps DEF bindScript
<1> QED BY <1>1, <1>2, <1>3, <1>4, EtherStays DEF NextEther

\* The inductive invariant of the gadget's scripts and services holds in every
\* state, for any number of device controllers.
THEOREM EtherInvariant == EtherSpec => []EtherInv
BY EtherInit, EtherStep, PTL DEF EtherSpec

\* Whatever controllers come and go, the gadget is bound only when it is whole,
\* and bindScript runs only for a whole gadget, under setup or under a service
\* that is active (usb-ether.nix, after and requires of usb-ether-bind@).
THEOREM WholeIsBound == EtherSpec => []OnlyWholeIsBound
<1>1. EtherInv => OnlyWholeIsBound
  BY NamesAssumption DEF EtherInv, EtherTypeOK, UnitsInOrder, GadgetInOrder, OnlyWholeIsBound,
     Scripts
<1> QED BY <1>1, EtherInvariant, PTL

\* However the scripts of any number of controllers read, clear and write the
\* one file, when all have ended, and no controller left under one of them, the
\* gadget is bound to a controller that is there (bindScript).
THEOREM RestServed == EtherSpec => []RestIsServed
<1>1. EtherInv => RestIsServed
  BY DEF EtherInv, CalmInOrder, RestIsServed, AtRest, ServedOrComing, Comes, Scripts
<1> QED BY <1>1, EtherInvariant, PTL

\* A script that gives up because it finds the file cleared or written leaves
\* another that comes: while no controller leaves, what would serve the gadget
\* is never lost (bindScript runs without a lock).
THEOREM ComingStays == EtherSpec => ComingIsNotLost
<1>1. ASSUME EtherInv, [NextEther]_etherVars, calm, calm', ether' = "active", ServedOrComing
      PROVE  ServedOrComing'
  <2> USE NamesAssumption DEF EtherInv, ServedOrComing, Served, Comes
  <2>1. CASE \E u \in UDCs : Appear(u) \/ Vanish(u)
    BY <1>1, <2>1 DEF Appear, Vanish, units, scripts
  <2>2. CASE \E u \in UDCs : UdevAdds(u) \/ UdevDrops(u) \/ UnitStarts(u)
    BY <1>1, <2>2 DEF UdevAdds, UdevDrops, UnitStarts, Handles, Starts, ports, units, scripts,
       EtherTypeOK, UnitsInOrder, Scripts
  <2>3. CASE StartEther \/ StopBegins \/ Teardown
    BY <1>1, <2>3 DEF StartEther, StopBegins, Teardown, Starts
  <2>4. CASE setupScript
    BY <1>1, <2>4 DEF setupScript, cleanup_gadget, SetupMakes, SetupLinks, SetupLists,
       SetupPicks, SetupExits, ports, UnitsInOrder, Scripts
  <2>5. ASSUME NEW p \in Scripts, bindScript(p)
        PROVE  ServedOrComing'
    <3>1. CASE Tests(p) \/ Reads(p) \/ Verifies(p)
      BY <1>1, <3>1 DEF Tests, Reads, Verifies, Exits, SetupExits, Goes, ports, EtherTypeOK,
         UnitsInOrder, GadgetInOrder, CalmInOrder, PastTest, Scripts
    <3>2. CASE Clears(p) \/ Writes(p)
      BY <1>1, <3>2 DEF Clears, Writes, Exits, SetupExits, Goes, ports, EtherTypeOK,
         UnitsInOrder, GadgetInOrder, CalmInOrder, PastTest, Scripts
    <3> QED BY <2>5, <3>1, <3>2 DEF bindScript
  <2>6. CASE UNCHANGED etherVars
    BY <1>1, <2>6 DEF etherVars, ports, units, scripts
  <2> QED BY <1>1, <2>1, <2>2, <2>3, <2>4, <2>5, <2>6 DEF NextEther
<1> QED BY <1>1, EtherInvariant, PTL DEF EtherSpec, ComingIsNotLost
=============================================================================
