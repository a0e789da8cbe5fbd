------------------------------ MODULE BootDisk ------------------------------
(***************************************************************************)
(* What install-grub.pl promises of the boot partition, seen by whoever    *)
(* switches the machine on: a menu of systems that can be booted.  A       *)
(* request to change the menu either replaces it as a whole or, when the   *)
(* script is stopped, leaves it as it was.  No system ever leaves the menu *)
(* in another way, and none is ever offered that cannot be booted.         *)
(***************************************************************************)
CONSTANTS Requests,   \* what may be asked of the script
          Offered,    \* for each request, the systems the menu has to offer
          NoRequest

VARIABLES menu,       \* the systems the boot loader can boot
          request     \* the request being served, or NoRequest

disk == <<menu, request>>

Init == menu = {} /\ request = NoRequest

Ask == /\ request = NoRequest
       /\ request' \in Requests
       /\ UNCHANGED menu

Switch == /\ request \in Requests
          /\ menu' = Offered[request]
          /\ request' = NoRequest

GiveUp == /\ request \in Requests
          /\ request' = NoRequest
          /\ UNCHANGED menu

Next == Ask \/ Switch \/ GiveUp

Spec == Init /\ [][Next]_disk
=============================================================================
