------------------------------ MODULE UsbEther ------------------------------
(***************************************************************************)
(* usb-ether.nix: the service that makes a USB gadget (setupScript,        *)
(* teardownScript), and the service udev starts for each device controller *)
(* (UDC) that appears, which binds the gadget to it (bindScript).  Setup   *)
(* runs bindScript too, for the first UDC it finds.  UDCs come and go with *)
(* the role of the Type-C port, and several may be there.                  *)
(*                                                                         *)
(* External: the kernel has one gadget, bound to the UDC its file UDC      *)
(* names while that UDC is there, also when it comes back; writing a name  *)
(* over another or of a UDC that is not there fails, and so does clearing  *)
(* an empty file.  systemd starts a unit once those it comes after are     *)
(* active and fails it if one it requires fails; a start of a unit that is *)
(* already being started is merged with that one.  Left out: what the      *)
(* files of the gadget say, failures of any other command than a write to  *)
(* UDC, and systemd's limit on starts in a short time.                     *)
(***************************************************************************)
CONSTANTS
  UDCs,    \* names of device controllers
  NoUDC,   \* the file UDC is empty or not there
  Setup    \* the run of bindScript in setupScript

ASSUME NamesAssumption == {NoUDC, Setup} \intersect UDCs = {} /\ NoUDC # Setup

VARIABLES
  present,  \* entries of /sys/class/udc
  pending,  \* UDCs whose "add" udev has not handled yet
  gadget,   \* the directory g1: "none", "partial" or "whole"
  file,     \* content of g1/UDC
  ether,    \* usb-ether.service
  setup,    \* where setupScript is
  listed,   \* the UDCs its loop goes over
  unit,     \* usb-ether-bind@ of each UDC
  step,     \* where each run of bindScript is
  udc,      \* its argument
  current,  \* its CURRENT
  calm      \* history: a UDC appeared while no script was past its test of
            \* the UDC, and none has left since

units == <<ether, setup, listed, unit>>
scripts == <<step, udc, current>>
ports == <<present, pending, calm>>
etherVars == <<ports, gadget, file, units, scripts>>

Scripts == UDCs \union {Setup}
PastTest(p) == step[p] \in {"read", "clear", "write", "verify"}

InitEther ==
  /\ present = {} /\ pending = {} /\ calm = FALSE
  /\ gadget = "none" /\ file = NoUDC
  /\ ether = "inactive" /\ setup = "idle" /\ listed = {}
  /\ unit = [u \in UDCs |-> "idle"]
  /\ step = [p \in Scripts |-> "idle"]
  /\ udc = [p \in Scripts |-> IF p = Setup THEN NoUDC ELSE p]
  /\ current = [p \in Scripts |-> NoUDC]

-----------------------------------------------------------------------------
(* The ports (external).                                                   *)

Appear(u) ==
  /\ u \notin present
  /\ present' = present \union {u}
  /\ pending' = pending \union {u}
  /\ calm' = (calm \/ ~\E p \in Scripts : PastTest(p))
  /\ UNCHANGED <<gadget, file, units, scripts>>

Vanish(u) ==
  /\ u \in present
  /\ present' = present \ {u}
  /\ calm' = FALSE
  /\ UNCHANGED <<pending, gadget, file, units, scripts>>

-----------------------------------------------------------------------------
(* The units.                                                              *)

Starts == ether' = "starting" /\ setup' = "clean"

\* At boot, or for a user.
StartEther ==
  /\ ether \in {"inactive", "failed"}
  /\ Starts
  /\ UNCHANGED <<ports, gadget, file, listed, unit, scripts>>

Handles(u) ==
  /\ u \in pending
  /\ pending' = pending \ {u}
  /\ UNCHANGED <<present, calm, gadget, file, listed, scripts>>

\* Mutant: the unit only comes after usb-ether.service, without requiring it.
UdevAddsOnly(u) ==
  /\ Handles(u)
  /\ ether # "stopping"
  /\ unit' = [unit EXCEPT ![u] = IF @ = "idle" THEN "waiting" ELSE @]
  /\ UNCHANGED <<ether, setup>>

\* The rule starts the unit of the UDC, which requires usb-ether.service.
UdevAdds(u) ==
  /\ Handles(u)
  /\ ether # "stopping"
  /\ unit' = [unit EXCEPT ![u] = IF @ = "idle" THEN "waiting" ELSE @]
  /\ IF ether \in {"inactive", "failed"} THEN Starts ELSE UNCHANGED <<ether, setup>>

\* The UDC has gone meanwhile, or the service it requires is being stopped.
UdevDrops(u) ==
  /\ Handles(u)
  /\ u \notin present \/ ether = "stopping"
  /\ UNCHANGED <<ether, setup, unit>>

\* Mutant: the unit does not wait for usb-ether.service.
UnitStartsEarly(u) ==
  /\ unit[u] = "waiting"
  /\ unit' = [unit EXCEPT ![u] = "running"]
  /\ step' = [step EXCEPT ![u] = "test"]
  /\ UNCHANGED <<ports, gadget, file, ether, setup, listed, udc, current>>

UnitStarts(u) ==
  /\ unit[u] = "waiting" /\ ether = "active"
  /\ unit' = [unit EXCEPT ![u] = "running"]
  /\ step' = [step EXCEPT ![u] = "test"]
  /\ UNCHANGED <<ports, gadget, file, ether, setup, listed, udc, current>>

\* A stop of usb-ether.service kills setupScript, or first the units that
\* require it and then runs teardownScript.
StopBegins ==
  /\ ether \in {"starting", "active"}
  /\ ether' = IF ether = "active" THEN "stopping" ELSE "inactive"
  /\ setup' = "idle"
  /\ unit' = [u \in UDCs |-> "idle"]
  /\ step' = [p \in Scripts |-> "idle"]
  /\ UNCHANGED <<ports, gadget, file, listed, udc, current>>

Teardown ==
  /\ ether = "stopping" /\ ether' = "inactive"
  /\ gadget' = "none" /\ file' = NoUDC
  /\ UNCHANGED <<ports, setup, listed, unit, scripts>>

\* setupScript ends; if it failed, so do the units that wait for it.
SetupExits(ok) ==
  /\ setup' = "idle"
  /\ ether' = IF ok THEN "active" ELSE "failed"
  /\ unit' = IF ok THEN unit ELSE [u \in UDCs |-> "idle"]

-----------------------------------------------------------------------------
(* setupScript, up to its call of bindScript.                              *)

\* What a setup that failed or was killed left is removed.
cleanup_gadget ==
  /\ setup = "clean" /\ setup' = "make"
  /\ gadget' = "none" /\ file' = NoUDC
  /\ UNCHANGED <<ports, ether, listed, unit, scripts>>

SetupMakes ==
  /\ setup = "make" /\ setup' = "link"
  /\ gadget' = "partial"
  /\ UNCHANGED <<ports, file, ether, listed, unit, scripts>>

SetupLinks ==
  /\ setup = "link" /\ setup' = "list"
  /\ gadget' = "whole"
  /\ UNCHANGED <<ports, file, ether, listed, unit, scripts>>

SetupLists ==
  /\ setup = "list" /\ setup' = "pick"
  /\ listed' = present
  /\ UNCHANGED <<ports, gadget, file, ether, unit, scripts>>

\* The first that is still there is bound; which one that is does not matter.
SetupPicks ==
  /\ setup = "pick"
  /\ \/ /\ listed \intersect present = {}
        /\ SetupExits(TRUE)
        /\ UNCHANGED <<step, udc>>
     \/ \E u \in listed \intersect present :
          /\ setup' = "bind"
          /\ step' = [step EXCEPT ![Setup] = "test"]
          /\ udc' = [udc EXCEPT ![Setup] = u]
          /\ UNCHANGED <<ether, unit>>
  /\ UNCHANGED <<ports, gadget, file, listed, current>>

setupScript == cleanup_gadget \/ SetupMakes \/ SetupLinks \/ SetupLists \/ SetupPicks

-----------------------------------------------------------------------------
(* bindScript.  It holds no lock: that of another UDC may run at the same  *)
(* time.                                                                   *)

Exits(p, ok) ==
  /\ step' = [step EXCEPT ![p] = "idle"]
  /\ IF p = Setup THEN SetupExits(ok)
     ELSE unit' = [unit EXCEPT ![p] = "idle"] /\ UNCHANGED <<ether, setup>>

Goes(p, to) ==
  /\ step' = [step EXCEPT ![p] = to]
  /\ UNCHANGED <<ether, setup, unit>>

Tests(p) ==
  /\ step[p] = "test"
  /\ IF udc[p] \notin present THEN Exits(p, TRUE)
     ELSE IF gadget = "none" THEN Exits(p, FALSE) ELSE Goes(p, "read")
  /\ UNCHANGED <<ports, gadget, file, listed, udc, current>>

\* Mutant: any name in the file is good enough.
ReadsAnyName(p) ==
  /\ step[p] = "read"
  /\ current' = [current EXCEPT ![p] = file]
  /\ IF file = NoUDC THEN Goes(p, "write") ELSE Exits(p, TRUE)
  /\ UNCHANGED <<ports, gadget, file, listed, udc>>

Reads(p) ==
  /\ step[p] = "read"
  /\ current' = [current EXCEPT ![p] = file]
  /\ IF file = udc[p] THEN Exits(p, TRUE)
     ELSE Goes(p, IF file = NoUDC THEN "write" ELSE "clear")
  /\ UNCHANGED <<ports, gadget, file, listed, udc>>

\* Another script may have cleared the file since it was read.
Clears(p) ==
  /\ step[p] = "clear"
  /\ IF file = NoUDC THEN Exits(p, FALSE) ELSE Goes(p, "write")
  /\ file' = NoUDC
  /\ UNCHANGED <<ports, gadget, listed, udc, current>>

\* The UDC may have gone, or another script may have written, since the test.
Writes(p) ==
  /\ step[p] = "write"
  /\ IF file = NoUDC /\ udc[p] \in present
     THEN file' = udc[p] /\ Goes(p, "verify")
     ELSE Exits(p, FALSE) /\ UNCHANGED file
  /\ UNCHANGED <<ports, gadget, listed, udc, current>>

Verifies(p) ==
  /\ step[p] = "verify"
  /\ Exits(p, file = udc[p])
  /\ UNCHANGED <<ports, gadget, file, listed, udc, current>>

bindScript(p) == Tests(p) \/ Reads(p) \/ Clears(p) \/ Writes(p) \/ Verifies(p)

-----------------------------------------------------------------------------
NextEther ==
  \/ \E u \in UDCs :
       Appear(u) \/ Vanish(u) \/ UdevAdds(u) \/ UdevDrops(u) \/ UnitStarts(u)
  \/ StartEther \/ StopBegins \/ Teardown
  \/ setupScript
  \/ \E p \in Scripts : bindScript(p)

EtherSpec == InitEther /\ [][NextEther]_etherVars

\* Scripts run, and udev and systemd do what they are asked for.
Fairness ==
  /\ WF_etherVars(setupScript) /\ WF_etherVars(Teardown)
  /\ \A p \in Scripts : WF_etherVars(bindScript(p))
  /\ \A u \in UDCs : WF_etherVars(UdevAdds(u) \/ UdevDrops(u)) /\ WF_etherVars(UnitStarts(u))
FairSpec == EtherSpec /\ Fairness

-----------------------------------------------------------------------------
\* The gadget is bound only when it is whole, and no script binds while setup
\* makes or teardown removes it: "USB gadget has not been configured" is never
\* said.
OnlyWholeIsBound ==
  /\ file # NoUDC => gadget = "whole"
  /\ \A p \in Scripts : step[p] # "idle" =>
       gadget = "whole" /\ ether = IF p = Setup THEN "starting" ELSE "active"

AtRest ==
  /\ pending = {} /\ ether \notin {"starting", "stopping"}
  /\ \A p \in Scripts : step[p] = "idle"
  /\ \A u \in UDCs : unit[u] = "idle"

Served == file \in present

\* However the scripts of several UDCs read, clear and write the file, when
\* all have ended the gadget is bound to a UDC that is there, and the service
\* did not fail; unless a UDC left after one of them had tested for it.
RestIsServed == AtRest /\ calm => ether # "failed" /\ (ether = "active" => Served)

\* A UDC that appears gets the gadget, or another one does, also if setup
\* failed before or is still running, unless one leaves or a user stops the
\* service.
CalmIsServed ==
  calm ~> \/ Served
          \/ ~calm
          \/ ether = "stopping" \/ (ether = "inactive" /\ pending = {})

-----------------------------------------------------------------------------
(* The inductive invariant behind OnlyWholeIsBound and RestIsServed.       *)

EtherTypeOK ==
  /\ present \subseteq UDCs /\ pending \subseteq UDCs /\ listed \subseteq UDCs
  /\ calm \in BOOLEAN
  /\ gadget \in {"none", "partial", "whole"} /\ file \in UDCs \union {NoUDC}
  /\ ether \in {"inactive", "failed", "starting", "active", "stopping"}
  /\ setup \in {"idle", "clean", "make", "link", "list", "pick", "bind"}
  /\ unit \in [UDCs -> {"idle", "waiting", "running"}]
  /\ step \in [Scripts -> {"idle", "test", "read", "clear", "write", "verify"}]
  /\ udc \in [Scripts -> UDCs \union {NoUDC}]
  /\ current \in [Scripts -> UDCs \union {NoUDC}]

\* Who may run while usb-ether.service is in each of its states.
UnitsInOrder ==
  /\ setup # "idle" <=> ether = "starting"
  /\ step[Setup] # "idle" <=> setup = "bind"
  /\ \A u \in UDCs :
       /\ step[u] # "idle" <=> unit[u] = "running"
       /\ unit[u] = "running" => ether = "active"
       /\ unit[u] = "waiting" => ether \in {"starting", "active"}
       /\ udc[u] = u
  /\ setup = "bind" => udc[Setup] \in UDCs

\* What there is of the gadget, and which name its file holds.
GadgetInOrder ==
  /\ file # NoUDC => gadget = "whole"
  /\ setup \in {"list", "pick", "bind"} \/ ether \in {"active", "stopping"} => gadget = "whole"
  /\ setup \in {"make", "link", "list", "pick"} => file = NoUDC
  /\ step[Setup] \in {"test", "read", "write"} => file = NoUDC
  /\ step[Setup] = "verify" => file = udc[Setup]
  /\ step[Setup] # "clear"

\* A script on its way to a write, or a unit that will run one.
Comes(p) ==
  /\ udc[p] \in present
  /\ \/ p \in UDCs /\ unit[p] = "waiting"
     \/ step[p] \in {"test", "read"}
     \/ step[p] = "clear" /\ file # NoUDC
     \/ step[p] = "write" /\ file = NoUDC
ServedOrComing == Served \/ \E p \in Scripts : Comes(p)
Announced ==
  \/ pending \intersect present # {}
  \/ \E u \in UDCs : u \in present /\ unit[u] = "waiting"

\* While the ports are calm: a controller is there, scripts past their test
\* have one that is, and the gadget is served, about to be, or will be by
\* what udev or systemd has still to do.
CalmInOrder ==
  calm =>
    /\ present # {}
    /\ \A p \in Scripts : PastTest(p) => udc[p] \in present
    /\ ether = "failed" => pending \intersect present # {}
    /\ ether = "active" => ServedOrComing \/ pending \intersect present # {}
    /\ ether = "active" /\ (\E p \in Scripts : PastTest(p)) => ServedOrComing
    /\ setup = "pick" => Announced \/ listed \intersect present # {}
    /\ setup = "bind" => Announced \/ udc[Setup] \in present

EtherInv == EtherTypeOK /\ UnitsInOrder /\ GadgetInOrder /\ CalmInOrder

\* Once the gadget is served or a script is on its way to serve it, nothing
\* that the scripts, udev or systemd do loses that while the ports are calm and
\* the service stays active.
ComingIsNotLost ==
  [][calm /\ calm' /\ ether' = "active" /\ ServedOrComing => ServedOrComing']_etherVars
=============================================================================
