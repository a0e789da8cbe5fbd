------------------------------ MODULE SecTsCmd ------------------------------
(***************************************************************************)
(* The factory command files of the sec-ts driver (sec_ts_fn.c): a write   *)
(* to "cmd" runs a command in the writer's own system call, a read of      *)
(* "cmd_result" returns its answer and lets the next command in.  The      *)
(* answer, the status, the text of the command and its parameters are      *)
(* single buffers of the driver; cmd_lock guards cmd_is_running alone and  *)
(* only while it is assigned.                                              *)
(*                                                                         *)
(* A command is the set of ways it can end, each a sequence of accesses to *)
(* those buffers in the code's order.  Texts are abstracted to their kind; *)
(* a read of "cmd_status" changes nothing and is left out, as are the      *)
(* files cmd_list, scrub_pos and edge_pos, which share no state with these.*)
(***************************************************************************)
EXTENDS Integers, FiniteSets, Sequences

CONSTANTS
  Users,      \* system calls in progress at a time
  Requests    \* what may be written to "cmd": a name and how its parameters read

\* ft_cmds; any other name is answered by not_support_cmd.
FtCmds ==
  {"fw_update", "get_fw_ver_bin", "get_fw_ver_ic", "get_config_ver",
   "get_threshold", "module_off_master", "module_on_master",
   "get_chip_vendor", "get_chip_name", "get_x_num", "get_y_num",
   "get_x_cross_routing", "get_y_cross_routing", "get_checksum_data",
   "run_force_calibration", "get_force_calibration", "glove_mode",
   "hover_enable", "set_lowpower_mode", "set_log_level", "not_support_cmd"}

Params == {"in range", "out of range"}
NoRequest == [name |-> "", params |-> "in range"]

ASSUME UsersAssumption == IsFiniteSet(Users)
ASSUME RequestsAssumption ==
  Requests \subseteq [name : STRING, params : Params \union {"malformed"}]

Texts == Requests \union {NoRequest}
Statuses == {"WAITING", "RUNNING", "OK", "FAIL", "NOT_APPLICABLE"}

\* "NG" stands for every text that reports a failure, "garbage" for one made
\* of variables the command never set.
Answers == {"", "OK", "NG", "turned off", "value", "garbage"}
Refusals == {"NG", "turned off"}

VARIABLES
  cmd_is_running, cmd_state, cmd, cmd_param, cmd_buff,
  cmd_result,    \* the text set_default_result copied, the answers after it
  power_status,  \* ts->power_status is SEC_TS_STATE_POWER_ON
  pc,            \* step of each user
  call,          \* the request of each call of cmd_store in progress
  todo,          \* the accesses that remain of each user's command
  last, alone    \* history: the request started last, and whether no
                 \* other was in progress then

command == <<cmd, cmd_param>>
answer == <<cmd_buff, cmd_result>>
history == <<last, alone>>
vars == <<cmd_is_running, cmd_state, command, answer, power_status,
          pc, call, todo, history>>

StoreSteps == {"take", "start", "parse", "power", "default", "work", "finish"}
ShowSteps == {"clear", "wait"}

\* Users whose command is in progress: cmd_is_running is set for them.
Active == {u \in Users : pc[u] \in StoreSteps \ {"take"}}

Steps ==
  [op : {"state"}, arg : Statuses \ {"RUNNING"}] 
    \union [op : {"append", "buff"}, arg : Answers]
    \union [op : {"append_buff", "clear"}, arg : {""}]

TypeOK ==
  /\ cmd_is_running \in BOOLEAN
  /\ cmd_state \in Statuses
  /\ cmd \in Texts
  /\ cmd_param \in Params
  /\ cmd_buff \in Answers
  /\ cmd_result \in [name : Texts, answers : Seq(Answers)]
  /\ power_status \in BOOLEAN
  /\ pc \in [Users -> {"idle"} \union StoreSteps \union ShowSteps]
  /\ call \in [Users -> Texts]
  /\ todo \in [Users -> Seq(Steps)]
  /\ \A u \in Users : pc[u] # "finish" => todo[u] = <<>>
  /\ last \in Texts
  /\ alone \in BOOLEAN

Init ==
  /\ cmd_is_running = FALSE
  /\ cmd_state = "WAITING"
  /\ cmd = NoRequest
  /\ cmd_param = "in range"
  /\ cmd_buff = ""
  /\ cmd_result = [name |-> NoRequest, answers |-> <<>>]
  /\ power_status = TRUE
  /\ pc = [u \in Users |-> "idle"]
  /\ call = [u \in Users |-> NoRequest]
  /\ todo = [u \in Users |-> <<>>]
  /\ last = NoRequest
  /\ alone = TRUE

-----------------------------------------------------------------------------
(* The accesses a command makes, and the ways they follow each other.      *)

State(s) == [op |-> "state", arg |-> s]
Puts(a) == [op |-> "append", arg |-> a]
Buff(a) == [op |-> "buff", arg |-> a]
AppendBuff == [op |-> "append_buff", arg |-> ""]
Clear == [op |-> "clear", arg |-> ""]

\* Most commands append their answer, then set the status.
Says(a, s) == <<Puts(a), State(s)>>
TurnedOff == Says("turned off", "NOT_APPLICABLE")
Value == {Says("value", "OK")}

fw_update ==
  IF power_status THEN {Says("OK", "OK"), Says("NG", "FAIL")} ELSE {TurnedOff}

get_fw_ver_bin == Value
get_config_ver == Value
get_chip_vendor == Value
get_chip_name == Value
get_x_num == Value
get_y_num == Value
get_x_cross_routing == Value
get_y_cross_routing == Value

\* A failed read sets the status, and the function goes on.
get_fw_ver_ic ==
  {<<State("FAIL"), Puts("garbage"), State("OK")>>}
    \union (IF power_status THEN Value ELSE {})

get_threshold ==
  IF power_status THEN Value \union {Says("garbage", "OK")} ELSE {TurnedOff}

module_off_master == {Says("OK", "OK")}

module_on_master == {Says("OK", "OK"), Says("NG", "FAIL")}

\* Mutant: a failed transfer leaves by the way of success.
ChecksumFallsThrough ==
  IF power_status THEN Value \union {Says("NG", "OK")} ELSE {TurnedOff}

get_checksum_data ==
  IF power_status THEN Value \union {Says("NG", "NOT_APPLICABLE")}
                  ELSE {TurnedOff}

\* The status before the answer; only this end clears cmd_is_running.
Calibrated(a, s) == <<State(s), Puts(a), Clear>>

run_force_calibration ==
  IF power_status THEN {Calibrated("OK", "OK"), Calibrated("NG", "FAIL")}
                  ELSE {TurnedOff}

\* The report "NG" leaves the status as it is.
get_force_calibration ==
  IF power_status THEN {<<State("OK"), Puts("OK")>>, <<Puts("NG")>>}
                  ELSE {TurnedOff}

\* glove_mode and hover_enable take back the status they set.
SetMode(a, s) ==
  <<Buff(a), State(s), AppendBuff, Clear, State("WAITING")>>

glove_mode ==
  {SetMode("NG", "FAIL")} \union
    IF power_status /\ cmd_param = "in range" THEN {SetMode("OK", "OK")} ELSE {}
hover_enable == glove_mode

\* Mutant: the failure is answered but the status not set.
SetLowpowerForgets ==
  IF power_status /\ cmd_param = "in range"
  THEN {<<State("OK"), Puts("OK")>>} ELSE {<<Puts("NG")>>}

set_lowpower_mode ==
  IF power_status /\ cmd_param = "in range"
  THEN {<<State("OK"), Puts("OK")>>} ELSE {<<State("FAIL"), Puts("NG")>>}

\* Mutant: parameters out of range end the command at once.
SetLogLevelReturns ==
  CASE ~power_status -> {Says("turned off", "FAIL")}
    [] power_status /\ cmd_param = "out of range" -> {<<Puts("NG")>>}
    [] OTHER -> {Says("OK", "OK"), Says("NG", "NOT_APPLICABLE")}

set_log_level ==
  CASE ~power_status -> {Says("turned off", "FAIL")}
    [] power_status /\ cmd_param = "out of range" -> {Says("NG", "FAIL")}
    [] OTHER -> {Says("OK", "OK"), Says("NG", "NOT_APPLICABLE")}

\* Mutant: the next command is not let in.
NotSupportKeepsRunning ==
  {<<Buff("NG"), AppendBuff, State("NOT_APPLICABLE")>>}

not_support_cmd ==
  {<<Buff("NG"), AppendBuff, State("NOT_APPLICABLE"), Clear>>}

\* cmd_func of the command with this name.
CmdFunc(name) ==
  CASE name = "fw_update" -> fw_update
    [] name = "get_fw_ver_bin" -> get_fw_ver_bin
    [] name = "get_fw_ver_ic" -> get_fw_ver_ic
    [] name = "get_config_ver" -> get_config_ver
    [] name = "get_threshold" -> get_threshold
    [] name = "module_off_master" -> module_off_master
    [] name = "module_on_master" -> module_on_master
    [] name = "get_chip_vendor" -> get_chip_vendor
    [] name = "get_chip_name" -> get_chip_name
    [] name = "get_x_num" -> get_x_num
    [] name = "get_y_num" -> get_y_num
    [] name = "get_x_cross_routing" -> get_x_cross_routing
    [] name = "get_y_cross_routing" -> get_y_cross_routing
    [] name = "get_checksum_data" -> get_checksum_data
    [] name = "run_force_calibration" -> run_force_calibration
    [] name = "get_force_calibration" -> get_force_calibration
    [] name = "glove_mode" -> glove_mode
    [] name = "hover_enable" -> hover_enable
    [] name = "set_lowpower_mode" -> set_lowpower_mode
    [] name = "set_log_level" -> set_log_level
    [] OTHER -> not_support_cmd

-----------------------------------------------------------------------------
(* cmd_store.  The test of cmd_is_running is made without cmd_lock; who    *)
(* finds it set returns -EBUSY and changes nothing.                        *)

Goes(u, from, to) ==
  /\ pc[u] = from
  /\ pc' = [pc EXCEPT ![u] = to]

StoreTests(u) ==
  /\ Goes(u, "idle", "take")
  /\ ~cmd_is_running
  /\ \E r \in Requests : call' = [call EXCEPT ![u] = r]
  /\ UNCHANGED <<cmd_is_running, cmd_state, command, answer, power_status,
                 todo, history>>

StoreTakes(u) ==
  /\ Goes(u, "take", "start")
  /\ cmd_is_running' = TRUE
  /\ UNCHANGED <<cmd_state, command, answer, power_status, call, todo, history>>

StoreStarts(u) ==
  /\ Goes(u, "start", "parse")
  /\ cmd_state' = "RUNNING"
  /\ last' = call[u]
  /\ alone' = (Active = {u})
  /\ UNCHANGED <<cmd_is_running, command, answer, power_status, call, todo>>

Switches(r) == r.name \in {"module_off_master", "module_on_master"}

\* Parameters are read only for a command of the table, and one that is no
\* number ends the call there.
StoreFails(u) ==
  /\ Goes(u, "parse", "idle")
  /\ call[u].name \in FtCmds
  /\ call[u].params = "malformed"
  /\ cmd' = call[u]
  /\ cmd_param' \in Params
  /\ call' = [call EXCEPT ![u] = NoRequest]
  /\ UNCHANGED <<cmd_is_running, cmd_state, answer, power_status, todo, history>>

\* Mutant: the text of the command is not copied.
StoreParsesOnly(u) ==
  /\ Goes(u, "parse", IF Switches(call[u]) THEN "power" ELSE "default")
  /\ ~(call[u].name \in FtCmds /\ call[u].params = "malformed")
  /\ cmd_param' =
       IF call[u].name \in FtCmds THEN call[u].params ELSE "in range"
  /\ UNCHANGED <<cmd_is_running, cmd_state, cmd, answer, power_status, call,
                 todo, history>>

StoreParses(u) ==
  /\ Goes(u, "parse", IF Switches(call[u]) THEN "power" ELSE "default")
  /\ ~(call[u].name \in FtCmds /\ call[u].params = "malformed")
  /\ cmd' = call[u]
  /\ cmd_param' =
       IF call[u].name \in FtCmds THEN call[u].params ELSE "in range"
  /\ UNCHANGED <<cmd_is_running, cmd_state, answer, power_status, call, todo,
                 history>>

\* module_off_master and module_on_master set the power before anything else.
SwitchesPower(u) ==
  /\ Goes(u, "power", "default")
  /\ power_status' = (call[u].name = "module_on_master")
  /\ UNCHANGED <<cmd_is_running, cmd_state, command, answer, call, todo,
                 history>>

\* Mutant: the old answers are not erased.
SetDefaultKeeps(u) ==
  /\ Goes(u, "default", "work")
  /\ cmd_result' = [cmd_result EXCEPT !.name = cmd]
  /\ UNCHANGED <<cmd_is_running, cmd_state, command, cmd_buff, power_status,
                 call, todo, history>>

set_default_result(u) ==
  /\ Goes(u, "default", "work")
  /\ cmd_result' = [name |-> cmd, answers |-> <<>>]
  /\ UNCHANGED <<cmd_is_running, cmd_state, command, cmd_buff, power_status,
                 call, todo, history>>

Works(u) ==
  /\ Goes(u, "work", "finish")
  /\ \E t \in CmdFunc(call[u].name) : todo' = [todo EXCEPT ![u] = t]
  /\ UNCHANGED <<cmd_is_running, cmd_state, command, answer, power_status,
                 call, history>>

-----------------------------------------------------------------------------
(* The accesses that end a command, one at a time.                         *)

\* Mutant: the call returns with an access left.
ProceedsAway(u, op) ==
  /\ pc[u] = "finish"
  /\ Head(todo[u]).op = op
  /\ todo' = [todo EXCEPT ![u] = Tail(@)]
  /\ IF Len(todo[u]) <= 2
     THEN /\ pc' = [pc EXCEPT ![u] = "idle"]
          /\ call' = [call EXCEPT ![u] = NoRequest]
     ELSE UNCHANGED <<pc, call>>
  /\ UNCHANGED <<command, power_status, history>>

\* The user's next access is this one; after the last the call returns.
Proceeds(u, op) ==
  /\ pc[u] = "finish"
  /\ Head(todo[u]).op = op
  /\ todo' = [todo EXCEPT ![u] = Tail(@)]
  /\ IF Len(todo[u]) = 1
     THEN /\ pc' = [pc EXCEPT ![u] = "idle"]
          /\ call' = [call EXCEPT ![u] = NoRequest]
     ELSE UNCHANGED <<pc, call>>
  /\ UNCHANGED <<command, power_status, history>>

Arg(u) == Head(todo[u]).arg

SetsState(u) ==
  /\ Proceeds(u, "state")
  /\ cmd_state' = Arg(u)
  /\ UNCHANGED <<cmd_is_running, answer>>

set_cmd_result(a) == cmd_result' = [cmd_result EXCEPT !.answers = Append(@, a)]

AppendsAnswer(u) ==
  \/ /\ Proceeds(u, "append")
     /\ set_cmd_result(Arg(u))
     /\ UNCHANGED <<cmd_is_running, cmd_state, cmd_buff>>
  \/ /\ Proceeds(u, "append_buff")
     /\ set_cmd_result(cmd_buff)
     /\ UNCHANGED <<cmd_is_running, cmd_state, cmd_buff>>

WritesBuff(u) ==
  /\ Proceeds(u, "buff")
  /\ cmd_buff' = Arg(u)
  /\ UNCHANGED <<cmd_is_running, cmd_state, cmd_result>>

ClearsRunning(u) ==
  /\ Proceeds(u, "clear")
  /\ cmd_is_running' = FALSE
  /\ UNCHANGED <<cmd_state, answer>>

-----------------------------------------------------------------------------
(* cmd_result_show: it lets the next command in before it copies the       *)
(* answer, whatever is still running.                                      *)

ShowStarts(u) ==
  /\ Goes(u, "idle", "clear")
  /\ UNCHANGED <<cmd_is_running, cmd_state, command, answer, power_status,
                 call, todo, history>>

ShowClears(u) ==
  /\ Goes(u, "clear", "wait")
  /\ cmd_is_running' = FALSE
  /\ UNCHANGED <<cmd_state, command, answer, power_status, call, todo, history>>

ShowWaits(u) ==
  /\ Goes(u, "wait", "idle")
  /\ cmd_state' = "WAITING"
  /\ UNCHANGED <<cmd_is_running, command, answer, power_status, call, todo,
                 history>>

cmd_store(u) ==
  \/ StoreTests(u) \/ StoreTakes(u) \/ StoreStarts(u) \/ StoreFails(u)
  \/ StoreParses(u) \/ SwitchesPower(u) \/ set_default_result(u) \/ Works(u)
  \/ SetsState(u) \/ AppendsAnswer(u) \/ WritesBuff(u) \/ ClearsRunning(u)

cmd_result_show(u) == ShowStarts(u) \/ ShowClears(u) \/ ShowWaits(u)

Next == \E u \in Users : cmd_store(u) \/ cmd_result_show(u)

Spec == Init /\ [][Next]_vars

-----------------------------------------------------------------------------
(* Properties.                                                             *)

\* Overlapping commands append to one buffer with no check of its length: it
\* still never holds more answers than there are calls in progress at a time.
AnswersFit == Len(cmd_result.answers) <= Cardinality(Users)

Malformed(r) == r.name \in FtCmds /\ r.params = "malformed"

\* With no command in progress the status stays "running" only after one that
\* was not understood, or after a calibration report other than "OK"; overlaps
\* and early reads of the result cause no other stuck status.
RunningIsExplained ==
  cmd_state = "RUNNING" /\ Active = {} =>
    Malformed(last) \/ last.name = "get_force_calibration"

\* Commands that let the next one in by themselves.
Releases(r) ==
  /\ ~Malformed(r)
  /\ r.name \in {"glove_mode", "hover_enable", "not_support_cmd"}
       \/ r.name \notin FtCmds

\* With no command in progress the file refuses writers only while the result
\* of a command that does not let the next one in is unread.
BusyIsExplained ==
  cmd_is_running /\ Active = {} => ~Releases(last)

\* After a command that ran alone the result is the text it was given and one
\* answer, and the status is not at odds with the answer, whoever read the
\* result in between.
Agrees(a, s) ==
  /\ s = "OK" => a \notin Refusals
  /\ s \in {"FAIL", "NOT_APPLICABLE"} => a \in Refusals
Answered ==
  /\ cmd_result.name = last
  /\ Len(cmd_result.answers) = 1
  /\ Agrees(cmd_result.answers[1], cmd_state)
AnsweredAlone ==
  alone /\ Active = {} /\ last # NoRequest /\ ~Malformed(last) => Answered

-----------------------------------------------------------------------------
(* The inductive invariant behind them.                                    *)

\* An access of one of these kinds remains.
Has(t, ops) == \E i \in 1..Len(t) : t[i].op \in ops
Puts1 == {"append", "append_buff"}
OneAnswer(t) ==
  \A i, j \in 1..Len(t) : t[i].op \in Puts1 /\ t[j].op \in Puts1 => i = j

\* What remains of a command: at most one answer, and every access at its end.
Ends ==
  \A u \in Users : OneAnswer(todo[u]) /\ (pc[u] = "finish" => todo[u] # <<>>)

\* Users whose command has erased the answers and not given its own.
Owing ==
  {u \in Users : pc[u] = "work" \/ (pc[u] = "finish" /\ Has(todo[u], Puts1))}
RoomForOwed ==
  Len(cmd_result.answers) + Cardinality(Owing) <= Cardinality(Users)

\* Users whose command will still make an access of this kind.
Before == {"parse", "power", "default", "work"}
Will(op) ==
  {u \in Users : pc[u] \in Before \/ (pc[u] = "finish" /\ Has(todo[u], {op}))}

StatusComes ==
  cmd_state = "RUNNING" =>
    \/ Malformed(last) \/ last.name = "get_force_calibration"
    \/ \E u \in Will("state") : call[u] = last

ReleaseComes ==
  cmd_is_running =>
    \/ ~Releases(last)
    \/ \E u \in Users : pc[u] = "start"
    \/ \E u \in Will("clear") : call[u] = last

\* What remains of a command gives the answer a, and its last status agrees.
Tells(t, a) ==
  /\ \A i \in 1..Len(t) : t[i].op \in {"append", "buff"} => t[i].arg = a
  /\ \A i, j \in 1..Len(t) :
       t[i].op = "append_buff" /\ t[j].op = "buff" => j < i
  /\ \A i \in 1..Len(t) : t[i].op = "state" =>
       Agrees(a, t[i].arg) \/ \E j \in 1..Len(t) : j > i /\ t[j].op = "state"

\* The answer was given, or is still to come, and the status with it.
GivesAnswer(t, a) ==
  /\ Tells(t, a)
  /\ cmd_result.answers = IF Has(t, Puts1) THEN <<>> ELSE <<a>>
  /\ Has(t, {"append_buff"}) /\ ~Has(t, {"buff"}) => cmd_buff = a
  /\ ~Has(t, {"state"}) => Agrees(a, cmd_state)

\* Where a command that runs alone is, and what it has put in the buffers.
RunsAlone(u) ==
  /\ call[u] = last
  /\ pc[u] \in Before => cmd_state \in {"RUNNING", "WAITING"}
  /\ pc[u] \in {"power", "default"} => cmd = last
  /\ pc[u] = "work" => cmd_result = [name |-> last, answers |-> <<>>]
  /\ pc[u] = "finish" =>
       /\ cmd_result.name = last
       /\ \E a \in Answers : GivesAnswer(todo[u], a)

Started == {u \in Users : pc[u] \in StoreSteps \ {"take", "start"}}
AloneIsAt ==
  alone /\ ~Malformed(last) =>
    \/ Started = {} /\ (last # NoRequest => Answered)
    \/ \E u \in Users : Started = {u} /\ RunsAlone(u)

IInv ==
  TypeOK /\ Ends /\ RoomForOwed /\ StatusComes /\ ReleaseComes /\ AloneIsAt
=============================================================================
