--------------------------- MODULE RegisterAccess ---------------------------
(***************************************************************************)
(* What the transfer functions of the sec-ts driver promise their callers: *)
(* each call acts on the registers of the sensor at one instant between    *)
(* its start and its end.  A call that succeeds did act; one that fails    *)
(* may have acted all the same.  A read returns what its register held; a  *)
(* read without an address goes on where the sensor's pointer stands,      *)
(* which any call with an address moves.                                   *)
(***************************************************************************)
CONSTANTS
  Callers, Registers, Values,
  NoValue   \* no answer: not one of Values

VARIABLES
  regs,      \* content of the sensor's registers
  pointer,   \* the register a read without address continues
  request,   \* what each caller asked for, or Nothing
  acted,     \* the call of each caller has acted
  answer     \* what the call of each caller has read

vars == <<regs, pointer, request, acted, answer>>

Nothing == [kind |-> "nothing"]
Requests ==
  [kind : {"write"}, reg : Registers, val : Values]
    \union [kind : {"read"}, reg : Registers]
    \union {[kind |-> "continue"]}

Init ==
  /\ regs \in [Registers -> Values]
  /\ pointer \in Registers
  /\ request = [c \in Callers |-> Nothing]
  /\ acted = [c \in Callers |-> FALSE]
  /\ answer = [c \in Callers |-> NoValue]

Call(c) ==
  /\ request[c] = Nothing
  /\ \E r \in Requests : request' = [request EXCEPT ![c] = r]
  /\ UNCHANGED <<regs, pointer, acted, answer>>

Answers(c, value) ==
  /\ acted' = [acted EXCEPT ![c] = TRUE]
  /\ answer' = [answer EXCEPT ![c] = value]

Write(c) ==
  /\ request[c].kind = "write" /\ ~acted[c]
  /\ regs' = [regs EXCEPT ![request[c].reg] = request[c].val]
  /\ pointer' = request[c].reg
  /\ Answers(c, NoValue)
  /\ UNCHANGED request

\* A read may move the pointer and fail.
Address(c) ==
  /\ request[c].kind = "read" /\ ~acted[c]
  /\ pointer' = request[c].reg
  /\ UNCHANGED <<regs, request, acted, answer>>

Read(c) ==
  /\ request[c].kind = "read" /\ ~acted[c]
  /\ pointer' = request[c].reg
  /\ Answers(c, regs[request[c].reg])
  /\ UNCHANGED <<regs, request>>

Continue(c) ==
  /\ request[c].kind = "continue" /\ ~acted[c]
  /\ Answers(c, regs[pointer])
  /\ UNCHANGED <<regs, pointer, request>>

Ends(c) ==
  /\ request[c] # Nothing
  /\ request' = [request EXCEPT ![c] = Nothing]
  /\ acted' = [acted EXCEPT ![c] = FALSE]
  /\ answer' = [answer EXCEPT ![c] = NoValue]
  /\ UNCHANGED <<regs, pointer>>

Succeed(c) == acted[c] /\ Ends(c)
Fail(c) == answer[c] = NoValue /\ Ends(c)

Next == \E c \in Callers :
  \/ Call(c) \/ Write(c) \/ Address(c) \/ Read(c) \/ Continue(c)
  \/ Succeed(c) \/ Fail(c)

Spec == Init /\ [][Next]_vars
=============================================================================
