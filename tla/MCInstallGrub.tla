--------------------------- MODULE MCInstallGrub ---------------------------
(* Small instances of InstallGrub: an upgrade that shares a kernel with the *)
(* generation before it, secrets, and a specialisation.                    *)
EXTENDS InstallGrub

Generation(systems, corrupt) ==
  [systems |-> systems, corrupt |-> corrupt, current |-> FALSE]

\* old and new share a kernel; new has secrets and the specialisation alt, whose
\* secrets are its own; bad has no initrd.
MCSystems == {"old", "new", "alt", "bad"}
MCNames == {"kernel", "initrd1", "initrd2", "new-secrets", "alt-secrets"}
MCSecrets == {"new-secrets", "alt-secrets"}
MCParts ==
  [s \in MCSystems |->
     CASE s = "old" -> <<"kernel", "initrd1">>
       [] s = "new" -> <<"kernel", "initrd2", "new-secrets">>
       [] s = "alt" -> <<"kernel", "initrd2", "alt-secrets">>
       [] s = "bad" -> <<"kernel">>]
MCComplete == MCSystems \ {"bad"}

Old == Generation(<<"old">>, FALSE)
New == Generation(<<"new", "alt">>, FALSE)
Bad == Generation(<<"bad">>, FALSE)
Corrupt == Generation(<<"old">>, TRUE)

Ask(default, profs, version, targets, force) ==
  [default |-> default, profiles |-> profs, force |-> force,
   params |-> [version |-> version, targets |-> targets]]

\* The first system; the upgrade, with an older generation over the limit; back
\* to the first with the upgrade as the newest generation; profiles with only an
\* incomplete and a corrupt generation, and more targets.
MCRequests ==
  {Ask(Old, <<>>, 1, {"esp"}, FALSE),
   Ask(New, <<<<New, Old, Bad>>>>, 2, {"esp"}, FALSE),
   Ask(Old, <<<<New, Old>>>>, 1, {"esp"}, TRUE),
   Ask(Old, <<<<Bad>>, <<Corrupt>>>>, 1, {"esp", "disk"}, FALSE)}
=============================================================================
