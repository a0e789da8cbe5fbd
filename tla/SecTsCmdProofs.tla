--------------------------- MODULE SecTsCmdProofs ---------------------------
(***************************************************************************)
(* For every finite set of users and every set of requests: the types, the *)
(* bound on the answers, why the status stays "running" or the file        *)
(* refuses writers, and what a command that ran alone leaves.  RoomForOwed *)
(* counts the answers still to come with those already there; StatusComes  *)
(* and ReleaseComes name, for the command started last, the access that is *)
(* still to come or the reason why none is; AloneIsAt says what a command  *)
(* that runs alone has put in the buffers so far.                          *)
(***************************************************************************)
EXTENDS SecTsCmd, TLAPS, FiniteSetTheorems, SequenceTheorems

Settled == Statuses \ {"RUNNING"}

\* What every way to end a command has in common: one answer is to come, the
\* status that follows it agrees with it, and a buffer is written before it is
\* appended.
Sound(t) ==
  /\ Has(t, Puts1)
  /\ Has(t, {"append_buff"}) => Has(t, {"buff"})
  /\ \E a \in Answers : Tells(t, a)
Good(t) == t \in Seq(Steps) /\ t # <<>> /\ OneAnswer(t) /\ Sound(t)

\* The kind of each access, and what it carries.
LEMMA Ops ==
  /\ \A s : State(s).op = "state" /\ State(s).arg = s
  /\ \A a : Puts(a).op = "append" /\ Puts(a).arg = a
  /\ \A a : Buff(a).op = "buff" /\ Buff(a).arg = a
  /\ AppendBuff.op = "append_buff"
  /\ Clear.op = "clear"
<1>1. \A s : State(s).op = "state" /\ State(s).arg = s
  BY DEF State
<1>2. \A a : Puts(a).op = "append" /\ Puts(a).arg = a
  BY DEF Puts
<1>3. \A a : Buff(a).op = "buff" /\ Buff(a).arg = a
  BY DEF Buff
<1>4. AppendBuff.op = "append_buff"
  BY DEF AppendBuff
<1>5. Clear.op = "clear"
  BY DEF Clear
<1> QED BY <1>1, <1>2, <1>3, <1>4, <1>5

\* Lengths and accesses of the sequences a command can end with.
LEMMA SaysGood ==
  ASSUME NEW a \in Answers, NEW s \in Settled, Agrees(a, s)
  PROVE  Good(Says(a, s)) /\ Has(Says(a, s), {"state"})
<1> DEFINE t == Says(a, s)
<1>1. t = <<Puts(a), State(s)>>
  BY DEF Says
<1>2. Puts(a) \in Steps /\ State(s) \in Steps
  BY DEF Puts, State, Steps, Settled
<1>3. /\ t \in Seq(Steps) /\ Len(t) = 2
      /\ t[1].op = "append" /\ t[1].arg = a /\ t[2].op = "state" /\ t[2].arg = s
  BY <1>1, <1>2, Ops
<1>4. t # <<>>
  BY <1>1
<1> HIDE DEF t
<1>5. OneAnswer(t)
  BY <1>3 DEF OneAnswer, Puts1
<1>6. Tells(t, a)
  BY <1>3 DEF Tells
<1>7. Sound(t)
  BY <1>3, <1>6 DEF Sound, Has, Puts1
<1>8. Good(t) /\ Has(t, {"state"})
  BY <1>3, <1>4, <1>5, <1>7 DEF Good, Has
<1> QED BY <1>8 DEF t

LEMMA VersionGood ==
  LET t == <<State("FAIL"), Puts("garbage"), State("OK")>>
  IN  Good(t) /\ Has(t, {"state"})
<1> DEFINE t == <<State("FAIL"), Puts("garbage"), State("OK")>>
<1>2. Puts("garbage") \in Steps /\ State("FAIL") \in Steps /\ State("OK") \in Steps
  BY DEF Puts, State, Steps, Statuses, Answers
<1>3. /\ t \in Seq(Steps) /\ Len(t) = 3
      /\ t[1].op = "state" /\ t[2].op = "append" /\ t[3].op = "state"
      /\ t[2].arg = "garbage" /\ t[3].arg = "OK"
  BY <1>2, Ops
<1>4. t # <<>>
  OBVIOUS
<1> HIDE DEF t
<1>5. OneAnswer(t)
  BY <1>3 DEF OneAnswer, Puts1
<1>6. Tells(t, "garbage")
  BY <1>3 DEF Tells, Agrees, Refusals
<1>7. Sound(t)
  <2>1. "garbage" \in Answers
    BY DEF Answers
  <2> QED BY <1>3, <1>6, <2>1 DEF Sound, Has, Puts1
<1>8. Good(t) /\ Has(t, {"state"})
  BY <1>3, <1>4, <1>5, <1>7 DEF Good, Has
<1> QED BY <1>8 DEF t

LEMMA CalibratedGood ==
  ASSUME NEW a \in Answers, NEW s \in Settled, Agrees(a, s)
  PROVE  Good(Calibrated(a, s)) /\ Has(Calibrated(a, s), {"state"})
<1> DEFINE t == Calibrated(a, s)
<1>1. t = <<State(s), Puts(a), Clear>>
  BY DEF Calibrated
<1>2. Puts(a) \in Steps /\ State(s) \in Steps /\ Clear \in Steps
  BY DEF Puts, State, Clear, Steps, Settled
<1>3. /\ t \in Seq(Steps) /\ Len(t) = 3
      /\ t[1].op = "state" /\ t[2].op = "append" /\ t[3].op = "clear"
      /\ t[1].arg = s /\ t[2].arg = a
  BY <1>1, <1>2, Ops
<1>4. t # <<>>
  BY <1>1
<1> HIDE DEF t
<1>5. OneAnswer(t)
  BY <1>3 DEF OneAnswer, Puts1
<1>6. Tells(t, a)
  BY <1>3 DEF Tells
<1>7. Sound(t)
  BY <1>3, <1>6 DEF Sound, Has, Puts1
<1>8. Good(t) /\ Has(t, {"state"})
  BY <1>3, <1>4, <1>5, <1>7 DEF Good, Has
<1> QED BY <1>8 DEF t

LEMMA StatusFirstGood ==
  ASSUME NEW a \in Answers, NEW s \in Settled, Agrees(a, s)
  PROVE  Good(<<State(s), Puts(a)>>) /\ Has(<<State(s), Puts(a)>>, {"state"})
<1> DEFINE t == <<State(s), Puts(a)>>
<1>2. Puts(a) \in Steps /\ State(s) \in Steps
  BY DEF Puts, State, Steps, Settled
<1>3. /\ t \in Seq(Steps) /\ Len(t) = 2
      /\ t[1].op = "state" /\ t[2].op = "append" /\ t[1].arg = s /\ t[2].arg = a
  BY <1>2, Ops
<1>4. t # <<>>
  OBVIOUS
<1> HIDE DEF t
<1>5. OneAnswer(t)
  BY <1>3 DEF OneAnswer, Puts1
<1>6. Tells(t, a)
  BY <1>3 DEF Tells
<1>7. Sound(t)
  BY <1>3, <1>6 DEF Sound, Has, Puts1
<1>8. Good(t) /\ Has(t, {"state"})
  BY <1>3, <1>4, <1>5, <1>7 DEF Good, Has
<1> QED BY <1>8 DEF t

LEMMA NoStatusGood == Good(<<Puts("NG")>>)
<1> DEFINE t == <<Puts("NG")>>
<1>2. Puts("NG") \in Steps
  BY DEF Puts, Steps, Answers
<1>3. t \in Seq(Steps) /\ Len(t) = 1 /\ t[1].op = "append" /\ t[1].arg = "NG"
  BY <1>2, Ops
<1>4. t # <<>>
  OBVIOUS
<1> HIDE DEF t
<1>5. OneAnswer(t)
  BY <1>3 DEF OneAnswer
<1>6. Tells(t, "NG")
  BY <1>3 DEF Tells
<1>7. Sound(t)
  <2>1. "NG" \in Answers
    BY DEF Answers
  <2> QED BY <1>3, <1>6, <2>1 DEF Sound, Has, Puts1
<1>8. Good(t)
  BY <1>3, <1>4, <1>5, <1>7 DEF Good
<1> QED BY <1>8 DEF t

LEMMA SetModeGood ==
  ASSUME NEW a \in Answers, NEW s \in Settled, Agrees(a, s)
  PROVE  /\ Good(SetMode(a, s))
         /\ Has(SetMode(a, s), {"state"}) /\ Has(SetMode(a, s), {"clear"})
<1> DEFINE t == SetMode(a, s)
<1>1. t = <<Buff(a), State(s), AppendBuff, Clear, State("WAITING")>>
  BY DEF SetMode
<1>2. /\ Buff(a) \in Steps /\ State(s) \in Steps /\ AppendBuff \in Steps
      /\ Clear \in Steps /\ State("WAITING") \in Steps
  BY DEF Buff, State, AppendBuff, Clear, Steps, Settled, Statuses
<1>3. t \in Seq(Steps) /\ Len(t) = 5
  BY <1>1, <1>2
<1>4. /\ t[1] = Buff(a) /\ t[2] = State(s) /\ t[3] = AppendBuff
      /\ t[4] = Clear /\ t[5] = State("WAITING")
  BY <1>1
<1>5. /\ t[1].op = "buff" /\ t[2].op = "state" /\ t[3].op = "append_buff"
      /\ t[4].op = "clear" /\ t[5].op = "state"
      /\ t[1].arg = a /\ t[5].arg = "WAITING"
  BY <1>4, Ops
<1> HIDE DEF t
<1>6. \A i \in 1..5 : i = 1 \/ i = 2 \/ i = 3 \/ i = 4 \/ i = 5
  OBVIOUS
<1>7. OneAnswer(t)
  BY <1>3, <1>5, <1>6 DEF OneAnswer, Puts1
<1>8. Tells(t, a)
  <2>1. \A i \in 1..5 : t[i].op \in {"append", "buff"} => t[i].arg = a
    BY <1>5, <1>6
  <2>2. \A i, j \in 1..5 : t[i].op = "append_buff" /\ t[j].op = "buff" => j < i
    BY <1>5, <1>6
  <2>3. Agrees(a, t[5].arg) /\ \A i \in 1..5 : i = 5 \/ 5 > i
    BY <1>5 DEF Agrees
  <2> QED BY <1>3, <1>5, <2>1, <2>2, <2>3 DEF Tells
<1>9. Has(t, {"state"}) /\ Has(t, {"clear"}) /\ Has(t, {"buff"}) /\ Has(t, Puts1)
  BY <1>3, <1>5 DEF Has, Puts1
<1>10. Good(t) /\ Has(t, {"state"}) /\ Has(t, {"clear"})
  BY <1>3, <1>7, <1>8, <1>9 DEF Good, Sound
<1> QED BY <1>10 DEF t

LEMMA NotSupportGood ==
  ASSUME NEW t \in not_support_cmd
  PROVE  Good(t) /\ Has(t, {"state"}) /\ Has(t, {"clear"})
<1>1. t = <<Buff("NG"), AppendBuff, State("NOT_APPLICABLE"), Clear>>
  BY DEF not_support_cmd
<1>2. /\ Buff("NG") \in Steps /\ State("NOT_APPLICABLE") \in Steps
      /\ AppendBuff \in Steps /\ Clear \in Steps
  BY DEF Buff, State, AppendBuff, Clear, Steps, Answers, Statuses
<1>3. t \in Seq(Steps) /\ Len(t) = 4
  BY <1>1, <1>2
<1>4. /\ t[1] = Buff("NG") /\ t[2] = AppendBuff
      /\ t[3] = State("NOT_APPLICABLE") /\ t[4] = Clear
  BY <1>1
<1>5. /\ t[1].op = "buff" /\ t[2].op = "append_buff"
      /\ t[3].op = "state" /\ t[4].op = "clear"
      /\ t[1].arg = "NG" /\ t[3].arg = "NOT_APPLICABLE"
  BY <1>4, Ops
<1>6. \A i \in 1..4 : i = 1 \/ i = 2 \/ i = 3 \/ i = 4
  OBVIOUS
<1>7. OneAnswer(t)
  BY <1>3, <1>5, <1>6 DEF OneAnswer, Puts1
<1>8. Has(t, {"state"}) /\ Has(t, {"clear"}) /\ Has(t, {"buff"}) /\ Has(t, Puts1)
  BY <1>3, <1>5 DEF Has, Puts1
<1>9. Tells(t, "NG")
  <2>1. \A i \in 1..4 : t[i].op \in {"append", "buff"} => t[i].arg = "NG"
    BY <1>5, <1>6
  <2>2. \A i, j \in 1..4 : t[i].op = "append_buff" /\ t[j].op = "buff" => j < i
    BY <1>5, <1>6
  <2>3. \A i \in 1..4 : t[i].op = "state" => Agrees("NG", t[i].arg)
    BY <1>5, <1>6 DEF Agrees, Refusals
  <2> QED BY <1>3, <2>1, <2>2, <2>3 DEF Tells
<1>10. "NG" \in Answers
  BY DEF Answers
<1> QED BY <1>2, <1>3, <1>4, <1>7, <1>8, <1>9, <1>10 DEF Good, Sound

\* The answers of the table agree with their statuses.
Pairs ==
  {<<"OK", "OK">>, <<"value", "OK">>, <<"garbage", "OK">>, <<"NG", "FAIL">>,
   <<"NG", "NOT_APPLICABLE">>, <<"turned off", "FAIL">>,
   <<"turned off", "NOT_APPLICABLE">>}

LEMMA PairsAre ==
  /\ <<"OK", "OK">> \in Pairs /\ <<"value", "OK">> \in Pairs
  /\ <<"garbage", "OK">> \in Pairs /\ <<"NG", "FAIL">> \in Pairs
  /\ <<"NG", "NOT_APPLICABLE">> \in Pairs /\ <<"turned off", "FAIL">> \in Pairs
  /\ <<"turned off", "NOT_APPLICABLE">> \in Pairs
BY DEF Pairs

LEMMA PairsAgree ==
  ASSUME NEW a, NEW s, <<a, s>> \in Pairs
  PROVE  a \in Answers /\ s \in Settled /\ Agrees(a, s)
BY DEF Pairs, Answers, Settled, Statuses, Agrees, Refusals

LEMMA PairsGood ==
  ASSUME NEW a, NEW s, <<a, s>> \in Pairs
  PROVE  /\ Good(Says(a, s)) /\ Has(Says(a, s), {"state"})
         /\ Good(Calibrated(a, s)) /\ Has(Calibrated(a, s), {"state"})
         /\ Good(<<State(s), Puts(a)>>) /\ Has(<<State(s), Puts(a)>>, {"state"})
         /\ Good(SetMode(a, s))
         /\ Has(SetMode(a, s), {"state"}) /\ Has(SetMode(a, s), {"clear"})
BY PairsAgree, SaysGood, CalibratedGood, StatusFirstGood, SetModeGood

\* What a command of the table, or the one that stands for all others, ends
\* with, whatever the power and the parameters are.
LEMMA ValueGood ==
  ASSUME NEW t \in Value
  PROVE  Good(t) /\ Has(t, {"state"})
BY PairsAre, PairsGood DEF Value

LEMMA ModeGood ==
  ASSUME NEW t \in glove_mode
  PROVE  Good(t) /\ Has(t, {"state"}) /\ Has(t, {"clear"})
<1>1. t = SetMode("NG", "FAIL") \/ t = SetMode("OK", "OK")
  BY DEF glove_mode
<1> QED BY <1>1, PairsAre, PairsGood

LEMMA SaysOrGood ==
  ASSUME NEW t \in fw_update \union get_fw_ver_ic \union get_threshold \union
                   module_off_master \union module_on_master \union
                   get_checksum_data \union set_log_level
  PROVE  Good(t) /\ Has(t, {"state"})
<1>1. \/ \E a, s : <<a, s>> \in Pairs /\ t = Says(a, s)
      \/ t = <<State("FAIL"), Puts("garbage"), State("OK")>>
  <2>1. CASE t \in fw_update
    BY <2>1, PairsAre DEF fw_update, TurnedOff
  <2>2. CASE t \in get_fw_ver_ic
    BY <2>2, PairsAre DEF get_fw_ver_ic, Value
  <2>3. CASE t \in get_threshold
    BY <2>3, PairsAre DEF get_threshold, Value, TurnedOff
  <2>4. CASE t \in module_off_master \union module_on_master
    BY <2>4, PairsAre DEF module_off_master, module_on_master
  <2>5. CASE t \in get_checksum_data
    BY <2>5, PairsAre DEF get_checksum_data, Value, TurnedOff
  <2>6. CASE t \in set_log_level
    <3>1. \/ t = Says("turned off", "FAIL") \/ t = Says("NG", "FAIL")
          \/ t = Says("OK", "OK") \/ t = Says("NG", "NOT_APPLICABLE")
      BY <2>6, Zenon DEF set_log_level
    <3> QED BY <3>1, PairsAre
  <2> QED BY <2>1, <2>2, <2>3, <2>4, <2>5, <2>6
<1> QED BY <1>1, PairsGood, VersionGood

LEMMA CalibrationGood ==
  ASSUME NEW t \in run_force_calibration \union set_lowpower_mode
  PROVE  Good(t) /\ Has(t, {"state"})
<1>1. \/ t = Calibrated("OK", "OK") \/ t = Calibrated("NG", "FAIL")
      \/ t = Says("turned off", "NOT_APPLICABLE")
      \/ t = <<State("OK"), Puts("OK")>> \/ t = <<State("FAIL"), Puts("NG")>>
  BY DEF run_force_calibration, set_lowpower_mode, TurnedOff
<1> QED BY <1>1, PairsAre, PairsGood

LEMMA ReportGood ==
  ASSUME NEW t \in get_force_calibration
  PROVE  Good(t)
<1>1. \/ t = Says("turned off", "NOT_APPLICABLE")
      \/ t = <<State("OK"), Puts("OK")>> \/ t = <<Puts("NG")>>
  BY DEF get_force_calibration, TurnedOff
<1> QED BY <1>1, PairsAre, PairsGood, NoStatusGood

LEMMA CmdFuncGood ==
  ASSUME NEW name, NEW t \in CmdFunc(name)
  PROVE  /\ Good(t)
         /\ name # "get_force_calibration" => Has(t, {"state"})
         /\ name \in {"glove_mode", "hover_enable", "not_support_cmd"}
              \/ name \notin FtCmds => Has(t, {"clear"})
<1> DEFINE Says1 ==
      fw_update \union get_fw_ver_ic \union get_threshold \union
      module_off_master \union module_on_master \union
      get_checksum_data \union set_log_level
<1>1. CASE name \notin FtCmds \/ name = "not_support_cmd"
  <2>1. t \in not_support_cmd
    BY <1>1 DEF CmdFunc, FtCmds
  <2> QED BY <2>1, <1>1, NotSupportGood
<1>2. CASE name \in {"glove_mode", "hover_enable"}
  <2>1. t \in glove_mode
    BY <1>2 DEF CmdFunc, hover_enable
  <2> QED BY <2>1, <1>2, ModeGood
<1>3. CASE name = "get_force_calibration"
  <2>1. t \in get_force_calibration
    BY <1>3 DEF CmdFunc
  <2> QED BY <2>1, <1>3, ReportGood DEF FtCmds
<1>4. CASE name \in {"run_force_calibration", "set_lowpower_mode"}
  <2>1. t \in run_force_calibration \union set_lowpower_mode
    BY <1>4 DEF CmdFunc
  <2> QED BY <2>1, <1>4, CalibrationGood DEF FtCmds
<1>5. CASE name \in {"get_fw_ver_bin", "get_config_ver", "get_chip_vendor",
                     "get_chip_name", "get_x_num", "get_y_num",
                     "get_x_cross_routing", "get_y_cross_routing"}
  <2>1. t \in Value
    BY <1>5 DEF CmdFunc, get_fw_ver_bin, get_config_ver, get_chip_vendor,
       get_chip_name, get_x_num, get_y_num, get_x_cross_routing,
       get_y_cross_routing
  <2> QED BY <2>1, <1>5, ValueGood DEF FtCmds
<1>6. CASE name \in {"fw_update", "get_fw_ver_ic", "get_threshold",
                     "module_off_master", "module_on_master",
                     "get_checksum_data", "set_log_level"}
  <2>1. t \in Says1
    BY <1>6 DEF CmdFunc
  <2> QED BY <2>1, <1>6, SaysOrGood DEF FtCmds
<1> QED BY <1>1, <1>2, <1>3, <1>4, <1>5, <1>6 DEF FtCmds

-----------------------------------------------------------------------------
(* Types, and what is left of a command.                                   *)

\* Dropping the first access.
LEMMA TailFacts ==
  ASSUME NEW t \in Seq(Steps), t # <<>>, OneAnswer(t)
  PROVE  /\ Head(t) \in Steps
         /\ Tail(t) \in Seq(Steps)
         /\ Len(t) # 1 => Tail(t) # <<>>
         /\ Len(t) = 1 => Tail(t) = <<>>
         /\ OneAnswer(Tail(t))
         /\ Head(t).op \in Puts1 => Has(t, Puts1) /\ ~Has(Tail(t), Puts1)
         /\ \A ops : Has(Tail(t), ops) => Has(t, ops)
         /\ \A ops : Has(t, ops) /\ Head(t).op \notin ops => Has(Tail(t), ops)
<1>1. /\ Len(t) \in Nat /\ Len(t) > 0
      /\ Head(t) = t[1] /\ t[1] \in Steps
      /\ Tail(t) \in Seq(Steps) /\ Len(Tail(t)) = Len(t) - 1
  OBVIOUS
<1>2. \A i \in 1..Len(Tail(t)) : Tail(t)[i] = t[i + 1] /\ i + 1 \in 1..Len(t)
  BY <1>1
<1>3. \A i \in 1..Len(t) : i = 1 \/ (i - 1 \in 1..Len(Tail(t)) /\ t[i] = Tail(t)[i - 1])
  BY <1>1
<1>4. OneAnswer(Tail(t))
  <2> SUFFICES ASSUME NEW i \in 1..Len(Tail(t)), NEW j \in 1..Len(Tail(t)),
                      Tail(t)[i].op \in Puts1, Tail(t)[j].op \in Puts1
               PROVE  i = j
    BY DEF OneAnswer
  <2>1. i + 1 = j + 1
    BY <1>2 DEF OneAnswer
  <2> QED BY <2>1, <1>1
<1>5. Head(t).op \in Puts1 => Has(t, Puts1) /\ ~Has(Tail(t), Puts1)
  <2> SUFFICES ASSUME Head(t).op \in Puts1
               PROVE  Has(t, Puts1) /\ ~Has(Tail(t), Puts1)
    OBVIOUS
  <2>1. 1 \in 1..Len(t) /\ t[1].op \in Puts1
    BY <1>1
  <2>2. ASSUME NEW i \in 1..Len(Tail(t)), Tail(t)[i].op \in Puts1
        PROVE  FALSE
    <3>1. i + 1 = 1
      BY <1>2, <2>1, <2>2 DEF OneAnswer
    <3> QED BY <3>1, <1>1
  <2> QED BY <2>1, <2>2 DEF Has
<1>6. \A ops : Has(Tail(t), ops) => Has(t, ops)
  BY <1>2 DEF Has
<1>7. \A ops : Has(t, ops) /\ Head(t).op \notin ops => Has(Tail(t), ops)
  BY <1>1, <1>3 DEF Has
<1>8. Len(t) # 1 => Tail(t) # <<>>
  BY <1>1, EmptySeq
<1>9. Len(t) = 1 => Tail(t) = <<>>
  <2>1. \A seq \in Seq(Steps) : seq # <<>> => Len(seq) # 0
    BY EmptySeq
  <2>2. Len(t) = 1 => Len(Tail(t)) = 0
    BY <1>1
  <2> QED BY <1>1, <2>1, <2>2
<1> QED BY <1>1, <1>4, <1>5, <1>6, <1>7, <1>8, <1>9

\* Nothing remains of a sequence without accesses.
LEMMA EmptyFacts == OneAnswer(<<>>) /\ \A ops : ~Has(<<>>, ops)
BY DEF OneAnswer, Has

\* One access of one user.
LEMMA ProceedsFacts ==
  ASSUME TypeOK, Ends, NEW u \in Users, NEW op, Proceeds(u, op)
  PROVE  /\ pc[u] = "finish" /\ Head(todo[u]) \in Steps /\ Head(todo[u]).op = op
         /\ pc' \in [Users -> {"idle"} \union StoreSteps \union ShowSteps]
         /\ call' \in [Users -> Texts]
         /\ todo' \in [Users -> Seq(Steps)]
         /\ \A v \in Users : pc'[v] # "finish" => todo'[v] = <<>>
         /\ Ends'
         /\ \A v \in Users : v # u =>
              pc'[v] = pc[v] /\ todo'[v] = todo[v] /\ call'[v] = call[v]
         /\ pc'[u] \in {"finish", "idle"} /\ todo'[u] = Tail(todo[u])
         /\ todo'[u] # <<>> => pc'[u] = "finish" /\ call'[u] = call[u]
<1>1. /\ todo[u] \in Seq(Steps) /\ todo[u] # <<>> /\ OneAnswer(todo[u])
      /\ pc[u] = "finish" /\ Head(todo[u]).op = op
  BY DEF TypeOK, Ends, Proceeds
<1>2. /\ Head(todo[u]) \in Steps
      /\ Tail(todo[u]) \in Seq(Steps)
      /\ Len(todo[u]) # 1 => Tail(todo[u]) # <<>>
      /\ Len(todo[u]) = 1 => Tail(todo[u]) = <<>>
      /\ OneAnswer(Tail(todo[u]))
  BY <1>1, TailFacts
<1>3. /\ todo' = [todo EXCEPT ![u] = Tail(todo[u])]
      /\ todo' \in [Users -> Seq(Steps)]
  BY <1>2 DEF TypeOK, Proceeds
<1>4. CASE Len(todo[u]) = 1
  <2>1. pc' = [pc EXCEPT ![u] = "idle"] /\ call' = [call EXCEPT ![u] = NoRequest]
    BY <1>4 DEF Proceeds
  <2>2. /\ pc' \in [Users -> {"idle"} \union StoreSteps \union ShowSteps]
        /\ call' \in [Users -> Texts]
    BY <2>1 DEF TypeOK, Texts
  <2>3. todo'[u] = <<>> /\ pc'[u] = "idle"
    BY <2>1, <1>2, <1>3, <1>4 DEF TypeOK
  <2>4. \A v \in Users : v # u =>
          pc'[v] = pc[v] /\ todo'[v] = todo[v] /\ call'[v] = call[v]
    BY <2>1, <1>3 DEF TypeOK
  <2>5. \A v \in Users : pc'[v] # "finish" => todo'[v] = <<>>
    BY <2>3, <2>4 DEF TypeOK
  <2>6. Ends'
    BY <2>3, <2>4, EmptyFacts DEF Ends
  <2> QED BY <1>1, <1>2, <1>3, <2>2, <2>3, <2>4, <2>5, <2>6
<1>5. CASE Len(todo[u]) # 1
  <2>1. pc' = pc /\ call' = call
    BY <1>5 DEF Proceeds
  <2>2. todo'[u] # <<>> /\ pc'[u] = "finish" /\ todo'[u] = Tail(todo[u])
    BY <2>1, <1>1, <1>2, <1>3, <1>5 DEF TypeOK
  <2>3. \A v \in Users : v # u =>
          pc'[v] = pc[v] /\ todo'[v] = todo[v] /\ call'[v] = call[v]
    BY <2>1, <1>3 DEF TypeOK
  <2>4. \A v \in Users : pc'[v] # "finish" => todo'[v] = <<>>
    BY <2>2, <2>3 DEF TypeOK
  <2>5. Ends'
    BY <2>2, <2>3, <1>2 DEF Ends
  <2> QED BY <1>1, <1>2, <1>3, <2>1, <2>2, <2>3, <2>4, <2>5 DEF TypeOK
<1> QED BY <1>4, <1>5

\* One step of one user between two others of a call.
LEMMA GoesFacts ==
  ASSUME TypeOK, Ends, NEW u \in Users, NEW a,
         NEW b \in {"idle"} \union (StoreSteps \ {"finish"}) \union ShowSteps,
         Goes(u, a, b), a # "finish", UNCHANGED todo
  PROVE  /\ pc' \in [Users -> {"idle"} \union StoreSteps \union ShowSteps]
         /\ todo' \in [Users -> Seq(Steps)]
         /\ \A v \in Users : pc'[v] # "finish" => todo'[v] = <<>>
         /\ Ends'
         /\ \A v \in Users : v # u => pc'[v] = pc[v]
         /\ pc[u] = a /\ pc'[u] = b
<1>1. /\ pc' = [pc EXCEPT ![u] = b] /\ pc[u] = a /\ todo' = todo
      /\ pc \in [Users -> {"idle"} \union StoreSteps \union ShowSteps]
  BY DEF Goes, TypeOK
<1>2. pc' \in [Users -> {"idle"} \union StoreSteps \union ShowSteps]
  BY <1>1
<1>3. pc'[u] = b /\ \A v \in Users : v # u => pc'[v] = pc[v]
  BY <1>1
<1>4. b # "finish"
  BY DEF StoreSteps, ShowSteps
<1>5. \A v \in Users : pc'[v] # "finish" => todo'[v] = <<>>
  BY <1>1, <1>3 DEF TypeOK
<1>6. Ends'
  BY <1>1, <1>3, <1>4 DEF Ends
<1> QED BY <1>1, <1>2, <1>3, <1>5, <1>6 DEF TypeOK

Goings(u) ==
  \/ StoreTests(u) \/ StoreTakes(u) \/ StoreStarts(u) \/ StoreFails(u)
  \/ StoreParses(u) \/ SwitchesPower(u) \/ set_default_result(u)
  \/ ShowStarts(u) \/ ShowClears(u) \/ ShowWaits(u)

Accesses(u) ==
  SetsState(u) \/ AppendsAnswer(u) \/ WritesBuff(u) \/ ClearsRunning(u)

LEMMA Actions == Next <=> \E u \in Users : Goings(u) \/ Works(u) \/ Accesses(u)
BY DEF Next, cmd_store, cmd_result_show, Goings, Accesses

\* What a request brings with it.
LEMMA RequestFacts ==
  ASSUME NEW r \in Texts
  PROVE  ~Malformed(r) => (IF r.name \in FtCmds THEN r.params ELSE "in range") \in Params
<1>1. CASE r \in Requests
  <2>1. r.params \in Params \union {"malformed"}
    BY <1>1, RequestsAssumption
  <2> QED BY <2>1 DEF Malformed, Params
<1>2. CASE r = NoRequest
  BY <1>2 DEF NoRequest, Params
<1> QED BY <1>1, <1>2 DEF Texts

LEMMA GoingsKeepTypes ==
  ASSUME TypeOK, Ends, NEW u \in Users, Goings(u)
  PROVE  TypeOK' /\ Ends'
<1>1. CASE StoreTests(u)
  <2>1. Goes(u, "idle", "take") /\ UNCHANGED todo
    BY <1>1 DEF StoreTests
  <2>2. call' \in [Users -> Texts]
    BY <1>1 DEF StoreTests, TypeOK, Texts
  <2> QED
    BY <1>1, <2>1, <2>2, GoesFacts
       DEF StoreTests, TypeOK, StoreSteps, command, answer, history
<1>2. CASE StoreTakes(u)
  <2>1. Goes(u, "take", "start") /\ UNCHANGED todo
    BY <1>2 DEF StoreTakes
  <2> QED
    BY <1>2, <2>1, GoesFacts
       DEF StoreTakes, TypeOK, StoreSteps, command, answer, history
<1>3. CASE StoreStarts(u)
  <2>1. Goes(u, "start", "parse") /\ UNCHANGED todo
    BY <1>3 DEF StoreStarts
  <2>2. last' \in Texts /\ cmd_state' \in Statuses
    BY <1>3 DEF StoreStarts, TypeOK, Statuses
  <2>3. alone' \in BOOLEAN
    BY <1>3, Zenon DEF StoreStarts
  <2> QED
    BY <1>3, <2>1, <2>2, <2>3, GoesFacts
       DEF StoreStarts, TypeOK, StoreSteps, command, answer
<1>4. CASE StoreFails(u)
  <2>1. Goes(u, "parse", "idle") /\ UNCHANGED todo
    BY <1>4 DEF StoreFails
  <2>2. cmd' \in Texts /\ cmd_param' \in Params /\ call' \in [Users -> Texts]
    BY <1>4 DEF StoreFails, TypeOK, Texts
  <2> QED
    BY <1>4, <2>1, <2>2, GoesFacts
       DEF StoreFails, TypeOK, StoreSteps, answer, history
<1>5. CASE StoreParses(u)
  <2>1. /\ Goes(u, "parse", "power") \/ Goes(u, "parse", "default")
        /\ UNCHANGED todo
    BY <1>5 DEF StoreParses
  <2>2. cmd' \in Texts
    BY <1>5 DEF StoreParses, TypeOK
  <2>3. cmd_param' \in Params
    BY <1>5, RequestFacts DEF StoreParses, TypeOK, Malformed
  <2> QED
    BY <1>5, <2>1, <2>2, <2>3, GoesFacts
       DEF StoreParses, TypeOK, StoreSteps, answer, history
<1>6. CASE SwitchesPower(u)
  <2>1. Goes(u, "power", "default") /\ UNCHANGED todo
    BY <1>6 DEF SwitchesPower
  <2>2. power_status' \in BOOLEAN
    BY <1>6, Zenon DEF SwitchesPower
  <2> QED
    BY <1>6, <2>1, <2>2, GoesFacts
       DEF SwitchesPower, TypeOK, StoreSteps, command, answer, history
<1>7. CASE set_default_result(u)
  <2>1. Goes(u, "default", "work") /\ UNCHANGED todo
    BY <1>7 DEF set_default_result
  <2>2. cmd_result' \in [name : Texts, answers : Seq(Answers)]
    BY <1>7 DEF set_default_result, TypeOK
  <2> QED
    BY <1>7, <2>1, <2>2, GoesFacts
       DEF set_default_result, TypeOK, StoreSteps, command, history
<1>8. CASE ShowStarts(u)
  <2>1. Goes(u, "idle", "clear") /\ UNCHANGED todo
    BY <1>8 DEF ShowStarts
  <2> QED
    BY <1>8, <2>1, GoesFacts
       DEF ShowStarts, TypeOK, ShowSteps, command, answer, history
<1>9. CASE ShowClears(u)
  <2>1. Goes(u, "clear", "wait") /\ UNCHANGED todo
    BY <1>9 DEF ShowClears
  <2> QED
    BY <1>9, <2>1, GoesFacts
       DEF ShowClears, TypeOK, ShowSteps, command, answer, history
<1>10. CASE ShowWaits(u)
  <2>1. Goes(u, "wait", "idle") /\ UNCHANGED todo
    BY <1>10 DEF ShowWaits
  <2>2. cmd_state' \in Statuses
    BY <1>10 DEF ShowWaits, Statuses
  <2> QED
    BY <1>10, <2>1, <2>2, GoesFacts
       DEF ShowWaits, TypeOK, ShowSteps, command, answer, history
<1> QED
  BY <1>1, <1>2, <1>3, <1>4, <1>5, <1>6, <1>7, <1>8, <1>9, <1>10 DEF Goings

\* A command is replaced by one of the ways it can end.
LEMMA WorksFacts ==
  ASSUME TypeOK, Ends, NEW u \in Users, Works(u)
  PROVE  /\ pc[u] = "work" /\ pc'[u] = "finish"
         /\ Good(todo'[u]) /\ todo'[u] \in CmdFunc(call[u].name)
         /\ \A v \in Users : v # u => pc'[v] = pc[v] /\ todo'[v] = todo[v]
         /\ TypeOK' /\ Ends'
<1>1. PICK t \in CmdFunc(call[u].name) : todo' = [todo EXCEPT ![u] = t]
  BY DEF Works
<1>2. Good(t)
  BY CmdFuncGood
<1>3. todo' \in [Users -> Seq(Steps)] /\ todo'[u] = t
  BY <1>1, <1>2 DEF Good, TypeOK
<1>4. /\ pc' = [pc EXCEPT ![u] = "finish"] /\ pc[u] = "work"
      /\ pc' \in [Users -> {"idle"} \union StoreSteps \union ShowSteps]
  BY DEF Works, Goes, TypeOK, StoreSteps
<1>5. /\ pc'[u] = "finish"
      /\ \A v \in Users : v # u => pc'[v] = pc[v] /\ todo'[v] = todo[v]
  BY <1>1, <1>4 DEF TypeOK
<1>6. \A v \in Users : pc'[v] # "finish" => todo'[v] = <<>>
  BY <1>5 DEF TypeOK
<1>7. Ends'
  BY <1>2, <1>3, <1>5 DEF Ends, Good
<1>8. TypeOK'
  BY <1>3, <1>4, <1>6 DEF Works, TypeOK, command, answer, history
<1> QED BY <1>1, <1>2, <1>3, <1>4, <1>5, <1>7, <1>8

LEMMA AccessesKeepTypes ==
  ASSUME TypeOK, Ends, NEW u \in Users, Accesses(u)
  PROVE  TypeOK' /\ Ends'
<1>1. CASE SetsState(u)
  <2>1. Proceeds(u, "state")
    BY <1>1 DEF SetsState
  <2>2. Head(todo[u]) \in Steps /\ Head(todo[u]).op = "state"
    BY <2>1, ProceedsFacts
  <2>3. cmd_state' \in Statuses
    BY <1>1, <2>2 DEF SetsState, Arg, Steps
  <2> QED
    BY <1>1, <2>1, <2>3, ProceedsFacts
       DEF SetsState, Proceeds, TypeOK, command, answer, history
<1>2. CASE AppendsAnswer(u)
  <2>1. PICK op \in Puts1 : Proceeds(u, op)
    BY <1>2 DEF AppendsAnswer, Puts1
  <2>2. Head(todo[u]) \in Steps /\ Head(todo[u]).op = op
    BY <2>1, ProceedsFacts
  <2>3. \E a \in Answers : set_cmd_result(a)
    <3>1. CASE Proceeds(u, "append") /\ set_cmd_result(Arg(u))
      <4>1. Head(todo[u]) \in Steps /\ Head(todo[u]).op = "append"
        BY <3>1, ProceedsFacts
      <4>2. Arg(u) \in Answers
        BY <4>1 DEF Arg, Steps
      <4> QED BY <3>1, <4>2
    <3>2. CASE set_cmd_result(cmd_buff)
      BY <3>2 DEF TypeOK
    <3> QED BY <1>2, <3>1, <3>2 DEF AppendsAnswer
  <2>4. cmd_result' \in [name : Texts, answers : Seq(Answers)]
    <3>1. PICK a \in Answers : set_cmd_result(a)
      BY <2>3
    <3>2. cmd_result \in [name : Texts, answers : Seq(Answers)]
      BY DEF TypeOK
    <3>3. Append(cmd_result.answers, a) \in Seq(Answers)
      BY <3>2
    <3> QED BY <3>1, <3>2, <3>3 DEF set_cmd_result
  <2>5. UNCHANGED <<cmd_is_running, cmd_state, cmd_buff>>
    BY <1>2 DEF AppendsAnswer
  <2> QED
    BY <2>1, <2>4, <2>5, ProceedsFacts
       DEF Proceeds, TypeOK, command, history
<1>3. CASE WritesBuff(u)
  <2>1. Proceeds(u, "buff")
    BY <1>3 DEF WritesBuff
  <2>2. Head(todo[u]) \in Steps /\ Head(todo[u]).op = "buff"
    BY <2>1, ProceedsFacts
  <2>3. cmd_buff' \in Answers
    BY <1>3, <2>2 DEF WritesBuff, Arg, Steps
  <2> QED
    BY <1>3, <2>1, <2>3, ProceedsFacts
       DEF WritesBuff, Proceeds, TypeOK, command, history
<1>4. CASE ClearsRunning(u)
  <2>1. Proceeds(u, "clear")
    BY <1>4 DEF ClearsRunning
  <2> QED
    BY <1>4, <2>1, ProceedsFacts
       DEF ClearsRunning, Proceeds, TypeOK, command, answer, history
<1> QED BY <1>1, <1>2, <1>3, <1>4 DEF Accesses

LEMMA StepKeepsTypes ==
  ASSUME TypeOK, Ends, [Next]_vars
  PROVE  TypeOK' /\ Ends'
<1>1. CASE UNCHANGED vars
  BY <1>1 DEF vars, command, answer, history, TypeOK, Ends
<1>2. CASE Next
  BY <1>2, Actions, GoingsKeepTypes, WorksFacts, AccessesKeepTypes
<1> QED BY <1>1, <1>2

-----------------------------------------------------------------------------
(* The bound on the answers.                                               *)

\* Sets of users are finite, and no larger than what contains them.
LEMMA UserSets ==
  ASSUME NEW T \in SUBSET Users, NEW S \in SUBSET T
  PROVE  /\ Cardinality(S) \in Nat /\ Cardinality(T) \in Nat
         /\ Cardinality(S) <= Cardinality(T)
<1>1. IsFiniteSet(T)
  BY UsersAssumption, FS_Subset
<1>2. IsFiniteSet(S)
  BY <1>1, FS_Subset
<1> QED BY <1>1, <1>2, FS_Subset, FS_CardinalityType

\* No answer, and nobody owes one who did not before.
LEMMA NoAnswer ==
  ASSUME TypeOK, RoomForOwed, UNCHANGED cmd_result, Owing' \subseteq Owing
  PROVE  RoomForOwed'
<1>1. Cardinality(Owing') <= Cardinality(Owing)
  BY UserSets DEF Owing
<1>2. Cardinality(Owing') \in Nat /\ Cardinality(Owing) \in Nat
      /\ Cardinality(Users) \in Nat
  BY UserSets DEF Owing
<1>3. Len(cmd_result.answers) \in Nat
  BY DEF TypeOK
<1>4. Len(cmd_result'.answers) = Len(cmd_result.answers)
  OBVIOUS
<1> QED BY <1>1, <1>2, <1>3, <1>4 DEF RoomForOwed

\* Where the steps of a call before its end lead.
LEMMA GoingsMove ==
  ASSUME TypeOK, Ends, NEW u \in Users, Goings(u)
  PROVE  /\ pc[u] # "finish" /\ pc'[u] # "finish" /\ todo' = todo
         /\ \A v \in Users : v # u => pc'[v] = pc[v]
         /\ pc'[u] = "work" <=> set_default_result(u)
<1> USE DEF Goes, TypeOK
<1>1. CASE StoreTests(u) \/ StoreTakes(u) \/ StoreStarts(u) \/ StoreFails(u)
  BY <1>1 DEF StoreTests, StoreTakes, StoreStarts, StoreFails, set_default_result
<1>2. CASE StoreParses(u) \/ SwitchesPower(u)
  BY <1>2 DEF StoreParses, SwitchesPower, set_default_result
<1>3. CASE set_default_result(u)
  BY <1>3 DEF set_default_result
<1>4. CASE ShowStarts(u) \/ ShowClears(u) \/ ShowWaits(u)
  BY <1>4 DEF ShowStarts, ShowClears, ShowWaits, set_default_result
<1> QED BY <1>1, <1>2, <1>3, <1>4 DEF Goings

LEMMA StepKeepsRoom ==
  ASSUME TypeOK, Ends, RoomForOwed, [Next]_vars
  PROVE  RoomForOwed'
<1>1. CASE UNCHANGED vars
  BY <1>1 DEF vars, answer, RoomForOwed, Owing
<1>2. ASSUME NEW u \in Users, Goings(u)
      PROVE  RoomForOwed'
  <2>1. CASE set_default_result(u)
    <3>1. cmd_result'.answers = <<>>
      BY <2>1 DEF set_default_result
    <3>2. Cardinality(Owing') <= Cardinality(Users) /\ Cardinality(Owing') \in Nat
      BY UserSets DEF Owing
    <3>3. Len(cmd_result'.answers) = 0
      BY <3>1
    <3> QED BY <3>2, <3>3 DEF RoomForOwed
  <2>2. CASE ~set_default_result(u)
    <3>1. Owing' \subseteq Owing
      BY <1>2, <2>2, GoingsMove DEF Owing
    <3>2. UNCHANGED cmd_result
      BY <1>2, <2>2
         DEF Goings, StoreTests, StoreTakes, StoreStarts, StoreFails,
             StoreParses, SwitchesPower, ShowStarts, ShowClears, ShowWaits,
             answer
    <3> QED BY <3>1, <3>2, NoAnswer
  <2> QED BY <2>1, <2>2
<1>3. ASSUME NEW u \in Users, Works(u)
      PROVE  RoomForOwed'
  <2>1. Owing' \subseteq Owing
    BY <1>3, WorksFacts DEF Owing
  <2>2. UNCHANGED cmd_result
    BY <1>3 DEF Works, answer
  <2> QED BY <2>1, <2>2, NoAnswer
<1>4. ASSUME NEW u \in Users, Accesses(u), ~AppendsAnswer(u)
      PROVE  RoomForOwed'
  <2>1. PICK op : Proceeds(u, op)
    BY <1>4 DEF Accesses, SetsState, WritesBuff, ClearsRunning
  <2>2. OneAnswer(todo[u]) /\ todo[u] # <<>> /\ todo[u] \in Seq(Steps)
    BY <2>1, ProceedsFacts DEF Ends, TypeOK
  <2>3. Has(todo'[u], Puts1) => Has(todo[u], Puts1)
    BY <2>1, <2>2, ProceedsFacts, TailFacts
  <2>4. Owing' \subseteq Owing
    BY <2>1, <2>3, ProceedsFacts DEF Owing
  <2>5. UNCHANGED cmd_result
    BY <1>4 DEF Accesses, SetsState, WritesBuff, ClearsRunning, answer
  <2> QED BY <2>4, <2>5, NoAnswer
<1>5. ASSUME NEW u \in Users, AppendsAnswer(u)
      PROVE  RoomForOwed'
  <2>1. PICK op \in Puts1 : Proceeds(u, op)
    BY <1>5 DEF AppendsAnswer, Puts1
  <2>2. OneAnswer(todo[u]) /\ todo[u] # <<>> /\ todo[u] \in Seq(Steps)
    BY <2>1, ProceedsFacts DEF Ends, TypeOK
  <2>3. Has(todo[u], Puts1) /\ ~Has(todo'[u], Puts1)
    BY <2>1, <2>2, ProceedsFacts, TailFacts
  <2>4. u \in Owing /\ Owing' \subseteq Owing \ {u}
    BY <2>1, <2>3, ProceedsFacts DEF Owing
  <2>5. Cardinality(Owing') <= Cardinality(Owing) - 1
    <3>1. IsFiniteSet(Owing)
      BY UsersAssumption, FS_Subset DEF Owing
    <3>2. Cardinality(Owing \ {u}) = Cardinality(Owing) - 1
      BY <2>4, <3>1, FS_RemoveElement
    <3>3. Owing \ {u} \in SUBSET Users
      BY DEF Owing
    <3>4. Cardinality(Owing') <= Cardinality(Owing \ {u})
      BY <2>4, <3>3, UserSets
    <3> QED BY <3>2, <3>4
  <2>6. \E a : cmd_result' = [cmd_result EXCEPT !.answers = Append(@, a)]
    BY <1>5 DEF AppendsAnswer, set_cmd_result
  <2>7. Len(cmd_result'.answers) = Len(cmd_result.answers) + 1
        /\ Len(cmd_result.answers) \in Nat
    <3>1. PICK a : cmd_result' = [cmd_result EXCEPT !.answers = Append(@, a)]
      BY <2>6
    <3>2. cmd_result \in [name : Texts, answers : Seq(Answers)]
      BY DEF TypeOK
    <3>3. cmd_result'.answers = Append(cmd_result.answers, a)
      BY <3>1, <3>2
    <3> QED BY <3>2, <3>3
  <2>8. /\ Cardinality(Owing') \in Nat /\ Cardinality(Owing) \in Nat
        /\ Cardinality(Users) \in Nat
    BY UserSets DEF Owing
  <2> QED BY <2>5, <2>7, <2>8 DEF RoomForOwed
<1> QED BY <1>1, <1>2, <1>3, <1>4, <1>5, Actions DEF Accesses

-----------------------------------------------------------------------------
(* What is still to come for the command started last.                     *)

\* The steps of a call before its end keep what will come, but for the one
\* that gives up.
LEMMA GoingsKeepWill ==
  ASSUME TypeOK, Ends, NEW u \in Users, Goings(u), NEW op,
         NEW w \in Will(op), ~(w = u /\ StoreFails(u))
  PROVE  w \in Will(op)' /\ call'[w] = call[w]
<1>1. CASE w # u
  <2>1. pc'[w] = pc[w] /\ todo'[w] = todo[w]
    BY <1>1, GoingsMove DEF Will
  <2>2. call'[w] = call[w]
    BY <1>1
       DEF Goings, StoreTests, StoreTakes, StoreStarts, StoreFails,
           StoreParses, SwitchesPower, set_default_result,
           ShowStarts, ShowClears, ShowWaits, TypeOK, Will
  <2> QED BY <2>1, <2>2 DEF Will
<1>2. CASE w = u
  <2>1. pc[u] \in Before
    BY <1>2, GoingsMove DEF Will
  <2>2. StoreParses(u) \/ SwitchesPower(u) \/ set_default_result(u)
    BY <1>2, <2>1
       DEF Goings, StoreTests, StoreTakes, StoreStarts, StoreFails,
           ShowStarts, ShowClears, ShowWaits, Goes, Before
  <2>3. pc'[u] \in Before
    BY <2>2
       DEF StoreParses, SwitchesPower, set_default_result, Goes, TypeOK, Before
  <2>4. call' = call
    BY <2>2 DEF StoreParses, SwitchesPower, set_default_result
  <2> QED BY <1>2, <2>3, <2>4 DEF Will
<1> QED BY <1>1, <1>2

\* A command keeps what will come if every way to end it does.
LEMMA WorksKeepWill ==
  ASSUME TypeOK, Ends, NEW u \in Users, Works(u), NEW op,
         NEW w \in Will(op), w = u => Has(todo'[u], {op})
  PROVE  w \in Will(op)' /\ call'[w] = call[w]
<1>1. call' = call
  BY DEF Works
<1> QED BY <1>1, WorksFacts DEF Will

\* An access of another kind keeps what will come.
LEMMA AccessKeepsWill ==
  ASSUME TypeOK, Ends, NEW u \in Users, NEW kind, Proceeds(u, kind),
         NEW op, op # kind, NEW w \in Will(op)
  PROVE  w \in Will(op)' /\ call'[w] = call[w]
<1>1. CASE w # u
  BY <1>1, ProceedsFacts DEF Will
<1>2. CASE w = u
  <2>1. pc[u] = "finish" /\ Has(todo[u], {op})
    BY <1>2, ProceedsFacts DEF Will, Before
  <2>2. todo[u] \in Seq(Steps) /\ todo[u] # <<>> /\ OneAnswer(todo[u])
    BY <2>1 DEF TypeOK, Ends
  <2>3. Head(todo[u]).op \notin {op}
    BY ProceedsFacts
  <2>4. Has(todo'[u], {op})
    BY <2>1, <2>2, <2>3, TailFacts, ProceedsFacts
  <2>5. todo'[u] # <<>>
    BY <2>4, EmptyFacts
  <2>6. pc'[u] = "finish" /\ call'[u] = call[u]
    BY <2>5, ProceedsFacts
  <2> QED BY <1>2, <2>4, <2>6 DEF Will
<1> QED BY <1>1, <1>2

LEMMA StepKeepsStatus ==
  ASSUME TypeOK, Ends, StatusComes, [Next]_vars
  PROVE  StatusComes'
<1> USE DEF StatusComes
<1>1. CASE UNCHANGED vars
  BY <1>1 DEF vars, history, Will
<1>2. ASSUME NEW u \in Users, Goings(u)
      PROVE  StatusComes'
  <2>1. CASE StoreStarts(u)
    <3>1. /\ last' = call[u] /\ call'[u] = call[u]
          /\ pc'[u] = "parse"
      BY <2>1 DEF StoreStarts, Goes, TypeOK
    <3>2. u \in Will("state")'
      BY <3>1 DEF Will, Before
    <3> QED BY <3>1, <3>2
  <2>2. CASE ShowWaits(u)
    BY <2>2 DEF ShowWaits
  <2>3. CASE ~StoreStarts(u) /\ ~ShowWaits(u)
    <3>1. UNCHANGED <<cmd_state, last>>
      BY <1>2, <2>3
         DEF Goings, StoreTests, StoreTakes, StoreFails, StoreParses,
             SwitchesPower, set_default_result, ShowStarts, ShowClears,
             answer, history
    <3>2. ASSUME NEW w \in Will("state"), call[w] = last,
                 w = u, StoreFails(u)
          PROVE  Malformed(last')
      BY <3>1, <3>2 DEF StoreFails, Malformed
    <3>3. ASSUME NEW w \in Will("state"), call[w] = last,
                 ~(w = u /\ StoreFails(u))
          PROVE  w \in Will("state")' /\ w \in Users /\ call'[w] = last'
      BY <1>2, <3>1, <3>3, GoingsKeepWill DEF Will
    <3> QED BY <3>1, <3>2, <3>3
  <2> QED BY <2>1, <2>2, <2>3
<1>3. ASSUME NEW u \in Users, Works(u)
      PROVE  StatusComes'
  <2>1. UNCHANGED <<cmd_state, last, call>>
    BY <1>3 DEF Works, history
  <2>2. call[u].name # "get_force_calibration" => Has(todo'[u], {"state"})
    BY <1>3, WorksFacts, CmdFuncGood
  <2>3. ASSUME NEW w \in Will("state"), call[w] = last,
               last.name # "get_force_calibration"
        PROVE  w \in Will("state")' /\ call'[w] = last'
    BY <1>3, <2>1, <2>2, <2>3, WorksKeepWill
  <2> QED BY <2>1, <2>3
<1>4. ASSUME NEW u \in Users, SetsState(u)
      PROVE  StatusComes'
  <2>1. Head(todo[u]) \in Steps /\ Head(todo[u]).op = "state"
    BY <1>4, ProceedsFacts DEF SetsState
  <2>2. cmd_state' # "RUNNING"
    BY <1>4, <2>1 DEF SetsState, Arg, Steps
  <2> QED BY <2>2
<1>5. ASSUME NEW u \in Users, AppendsAnswer(u) \/ WritesBuff(u) \/ ClearsRunning(u)
      PROVE  StatusComes'
  <2>1. PICK kind : Proceeds(u, kind) /\ kind # "state"
    BY <1>5 DEF AppendsAnswer, WritesBuff, ClearsRunning
  <2>2. UNCHANGED <<cmd_state, last>>
    BY <1>5 DEF AppendsAnswer, WritesBuff, ClearsRunning, Proceeds, history
  <2>3. ASSUME NEW w \in Will("state"), call[w] = last
        PROVE  w \in Will("state")' /\ call'[w] = last'
    BY <2>1, <2>2, <2>3, AccessKeepsWill
  <2> QED BY <2>2, <2>3
<1> QED BY <1>1, <1>2, <1>3, <1>4, <1>5, Actions DEF Accesses

LEMMA StepKeepsRelease ==
  ASSUME TypeOK, Ends, ReleaseComes, [Next]_vars
  PROVE  ReleaseComes'
<1> USE DEF ReleaseComes
<1>1. CASE UNCHANGED vars
  BY <1>1 DEF vars, history, Will
<1>2. ASSUME NEW u \in Users, Goings(u)
      PROVE  ReleaseComes'
  <2>1. CASE StoreTakes(u)
    <3>1. pc'[u] = "start"
      BY <2>1 DEF StoreTakes, Goes, TypeOK
    <3> QED BY <3>1
  <2>2. CASE StoreStarts(u)
    <3>1. /\ last' = call[u] /\ call'[u] = call[u]
          /\ pc'[u] = "parse"
      BY <2>2 DEF StoreStarts, Goes, TypeOK
    <3>2. u \in Will("clear")'
      BY <3>1 DEF Will, Before
    <3> QED BY <3>1, <3>2
  <2>3. CASE ShowClears(u)
    BY <2>3 DEF ShowClears
  <2>4. CASE ~StoreTakes(u) /\ ~StoreStarts(u) /\ ~ShowClears(u)
    <3>1. UNCHANGED <<cmd_is_running, last>>
      BY <1>2, <2>4
         DEF Goings, StoreTests, StoreFails, StoreParses,
             SwitchesPower, set_default_result, ShowStarts, ShowWaits,
             answer, history
    <3>2. \A v \in Users : pc[v] = "start" => pc'[v] = "start"
      <4>1. pc[u] # "start"
        BY <1>2, <2>4
           DEF Goings, StoreTests, StoreFails, StoreParses,
               SwitchesPower, set_default_result, ShowStarts, ShowWaits, Goes
      <4> QED BY <1>2, <4>1, GoingsMove
    <3>3. ASSUME NEW w \in Will("clear"), call[w] = last,
                 w = u, StoreFails(u)
          PROVE  ~Releases(last')
      BY <3>1, <3>3 DEF StoreFails, Malformed, Releases
    <3>4. ASSUME NEW w \in Will("clear"), call[w] = last,
                 ~(w = u /\ StoreFails(u))
          PROVE  w \in Will("clear")' /\ w \in Users /\ call'[w] = last'
      BY <1>2, <3>1, <3>4, GoingsKeepWill DEF Will
    <3> QED BY <3>1, <3>2, <3>3, <3>4
  <2> QED BY <2>1, <2>2, <2>3, <2>4
<1>3. ASSUME NEW u \in Users, Works(u)
      PROVE  ReleaseComes'
  <2>1. UNCHANGED <<cmd_is_running, last, call>>
    BY <1>3 DEF Works, history
  <2>2. Releases(call[u]) => Has(todo'[u], {"clear"})
    BY <1>3, WorksFacts, CmdFuncGood DEF Releases
  <2>3. ASSUME NEW w \in Will("clear"), call[w] = last, Releases(last)
        PROVE  w \in Will("clear")' /\ call'[w] = last'
    BY <1>3, <2>1, <2>2, <2>3, WorksKeepWill
  <2>4. \A v \in Users : pc[v] = "start" => pc'[v] = "start"
    BY <1>3, WorksFacts
  <2> QED BY <2>1, <2>3, <2>4
<1>4. ASSUME NEW u \in Users, ClearsRunning(u)
      PROVE  ReleaseComes'
  BY <1>4 DEF ClearsRunning
<1>5. ASSUME NEW u \in Users, AppendsAnswer(u) \/ WritesBuff(u) \/ SetsState(u)
      PROVE  ReleaseComes'
  <2>1. PICK kind : Proceeds(u, kind) /\ kind # "clear"
    BY <1>5 DEF AppendsAnswer, WritesBuff, SetsState
  <2>2. UNCHANGED <<cmd_is_running, last>>
    BY <1>5 DEF AppendsAnswer, WritesBuff, SetsState, Proceeds, history
  <2>3. ASSUME NEW w \in Will("clear"), call[w] = last
        PROVE  w \in Will("clear")' /\ call'[w] = last'
    BY <2>1, <2>2, <2>3, AccessKeepsWill
  <2>4. \A v \in Users : pc[v] = "start" => pc'[v] = "start"
    BY <2>1, ProceedsFacts
  <2> QED BY <2>2, <2>3, <2>4
<1> QED BY <1>1, <1>2, <1>3, <1>4, <1>5, Actions DEF Accesses

-----------------------------------------------------------------------------
(* The answer of a command that runs alone.                                *)

\* Dropping the first access of a command that gives the answer a.
LEMMA TellsTail ==
  ASSUME NEW t \in Seq(Steps), t # <<>>, NEW a, Tells(t, a)
  PROVE  /\ Tells(Tail(t), a)
         /\ Head(t).op \in {"append", "buff"} => Head(t).arg = a
         /\ Head(t).op = "append_buff" => ~Has(t, {"buff"})
         /\ Head(t).op = "state" /\ ~Has(Tail(t), {"state"}) => Agrees(a, Head(t).arg)
<1>1. /\ Len(t) \in Nat /\ Len(t) > 0 /\ 1 \in 1..Len(t)
      /\ Head(t) = t[1]
      /\ Len(Tail(t)) = Len(t) - 1
  OBVIOUS
<1>2. \A i \in 1..Len(Tail(t)) : Tail(t)[i] = t[i + 1] /\ i + 1 \in 1..Len(t)
  BY <1>1
<1>3. \A i \in 1..Len(t) : i > 1 => i - 1 \in 1..Len(Tail(t)) /\ Tail(t)[i - 1] = t[i]
  BY <1>1
<1>4. \A i \in 1..Len(Tail(t)) :
        Tail(t)[i].op \in {"append", "buff"} => Tail(t)[i].arg = a
  BY <1>2 DEF Tells
<1>5. \A i, j \in 1..Len(Tail(t)) :
        Tail(t)[i].op = "append_buff" /\ Tail(t)[j].op = "buff" => j < i
  <2> SUFFICES ASSUME NEW i \in 1..Len(Tail(t)), NEW j \in 1..Len(Tail(t)),
                      Tail(t)[i].op = "append_buff", Tail(t)[j].op = "buff"
               PROVE  j < i
    OBVIOUS
  <2>1. j + 1 < i + 1
    BY <1>2 DEF Tells
  <2> QED BY <2>1, <1>1
<1>6. \A i \in 1..Len(Tail(t)) : Tail(t)[i].op = "state" =>
        \/ Agrees(a, Tail(t)[i].arg)
        \/ \E j \in 1..Len(Tail(t)) : j > i /\ Tail(t)[j].op = "state"
  <2> SUFFICES ASSUME NEW i \in 1..Len(Tail(t)), Tail(t)[i].op = "state",
                      ~Agrees(a, Tail(t)[i].arg)
               PROVE  \E j \in 1..Len(Tail(t)) : j > i /\ Tail(t)[j].op = "state"
    OBVIOUS
  <2>1. PICK k \in 1..Len(t) : k > i + 1 /\ t[k].op = "state"
    BY <1>2 DEF Tells
  <2>2. k > 1 /\ k - 1 > i
    BY <2>1, <1>1
  <2>3. k - 1 \in 1..Len(Tail(t)) /\ Tail(t)[k - 1] = t[k]
    BY <2>2, <1>3
  <2> QED BY <2>1, <2>2, <2>3
<1>7. Head(t).op \in {"append", "buff"} => Head(t).arg = a
  BY <1>1 DEF Tells
<1>8. Head(t).op = "append_buff" => ~Has(t, {"buff"})
  <2> SUFFICES ASSUME t[1].op = "append_buff", NEW j \in 1..Len(t), t[j].op = "buff"
               PROVE  FALSE
    BY <1>1 DEF Has
  <2>1. j < 1
    BY <1>1 DEF Tells
  <2> QED BY <2>1
<1>9. ASSUME Head(t).op = "state", ~Has(Tail(t), {"state"})
      PROVE  Agrees(a, Head(t).arg)
  <2>1. \A j \in 1..Len(t) : j > 1 => t[j].op # "state"
    BY <1>3, <1>9 DEF Has
  <2> QED BY <1>1, <1>9, <2>1 DEF Tells
<1> QED BY <1>4, <1>5, <1>6, <1>7, <1>8, <1>9 DEF Tells

\* Each access brings the answer and the status nearer.
LEMMA AccessGives ==
  ASSUME TypeOK, Ends, NEW u \in Users, Accesses(u), NEW a \in Answers,
         GivesAnswer(todo[u], a)
  PROVE  /\ GivesAnswer(todo[u], a)'
         /\ cmd_result'.name = cmd_result.name
<1> DEFINE t == todo[u]
           r == todo'[u]
<1>1. PICK op : Proceeds(u, op)
  BY DEF Accesses, SetsState, AppendsAnswer, WritesBuff, ClearsRunning
<1>2. /\ t \in Seq(Steps) /\ t # <<>> /\ OneAnswer(t) /\ r = Tail(t)
  BY <1>1, ProceedsFacts DEF TypeOK, Ends
<1>3. /\ Tells(t, a) /\ Tells(r, a)
      /\ cmd_result.answers = IF Has(t, Puts1) THEN <<>> ELSE <<a>>
      /\ Has(t, {"append_buff"}) /\ ~Has(t, {"buff"}) => cmd_buff = a
      /\ ~Has(t, {"state"}) => Agrees(a, cmd_state)
  BY <1>2, TellsTail DEF GivesAnswer
<1>4. /\ \A ops : Has(r, ops) => Has(t, ops)
      /\ \A ops : Has(t, ops) /\ Head(t).op \notin ops => Has(r, ops)
      /\ Head(t).op \in Puts1 => Has(t, Puts1) /\ ~Has(r, Puts1)
  BY <1>2, TailFacts
<1>5. /\ Head(t).op \in {"append", "buff"} => Head(t).arg = a
      /\ Head(t).op = "append_buff" => ~Has(t, {"buff"})
      /\ Head(t).op = "state" /\ ~Has(r, {"state"}) => Agrees(a, Head(t).arg)
  BY <1>2, <1>3, TellsTail
<1>6. cmd_result \in [name : Texts, answers : Seq(Answers)]
  BY DEF TypeOK
<1> SUFFICES /\ cmd_result'.answers = IF Has(r, Puts1) THEN <<>> ELSE <<a>>
             /\ Has(r, {"append_buff"}) /\ ~Has(r, {"buff"}) => cmd_buff' = a
             /\ ~Has(r, {"state"}) => Agrees(a, cmd_state')
             /\ cmd_result'.name = cmd_result.name
  BY <1>3 DEF GivesAnswer
<1> HIDE DEF t, r
<1>7. CASE SetsState(u)
  <2>1. Head(t).op = "state" /\ cmd_state' = Head(t).arg
    BY <1>7 DEF SetsState, Proceeds, Arg, t
  <2>2. UNCHANGED <<cmd_result, cmd_buff>>
    BY <1>7 DEF SetsState, answer
  <2>3. Has(r, Puts1) = Has(t, Puts1)
    BY <2>1, <1>4 DEF Puts1, Has
  <2>4. Has(r, {"append_buff"}) /\ ~Has(r, {"buff"}) =>
          Has(t, {"append_buff"}) /\ ~Has(t, {"buff"})
    BY <2>1, <1>4
  <2> QED BY <2>1, <2>2, <2>3, <2>4, <1>3, <1>5
<1>8. CASE AppendsAnswer(u)
  <2>1. Head(t).op \in Puts1 /\ set_cmd_result(a)
    <3>1. CASE Proceeds(u, "append") /\ set_cmd_result(Arg(u))
      <4>1. Head(t).op = "append" /\ Arg(u) = Head(t).arg
        BY <3>1 DEF Proceeds, Arg, t
      <4> QED BY <3>1, <4>1, <1>5 DEF Puts1
    <3>2. CASE Proceeds(u, "append_buff") /\ set_cmd_result(cmd_buff)
      <4>1. Head(t).op = "append_buff"
        BY <3>2 DEF Proceeds, t
      <4>2. Has(t, {"append_buff"})
        BY <4>1, <1>2, TailFacts DEF Has
      <4> QED BY <3>2, <4>1, <4>2, <1>3, <1>5 DEF Puts1
    <3> QED BY <1>8, <3>1, <3>2 DEF AppendsAnswer
  <2>2. UNCHANGED cmd_state
    BY <1>8 DEF AppendsAnswer
  <2>3. Has(t, Puts1) /\ ~Has(r, Puts1) /\ ~Has(r, {"append_buff"})
    BY <2>1, <1>4 DEF Has, Puts1
  <2>4. cmd_result.answers = <<>>
    BY <2>3, <1>3
  <2>5. cmd_result'.answers = <<a>> /\ cmd_result'.name = cmd_result.name
    BY <2>1, <2>4, <1>6 DEF set_cmd_result
  <2>6. Has(t, {"state"}) => Has(r, {"state"})
    BY <2>1, <1>4 DEF Puts1
  <2> QED BY <2>2, <2>3, <2>5, <2>6, <1>3
<1>9. CASE WritesBuff(u)
  <2>1. Head(t).op = "buff" /\ cmd_buff' = Head(t).arg
    BY <1>9 DEF WritesBuff, Proceeds, Arg, t
  <2>2. UNCHANGED <<cmd_result, cmd_state>>
    BY <1>9 DEF WritesBuff
  <2>3. Has(r, Puts1) = Has(t, Puts1)
    BY <2>1, <1>4 DEF Puts1, Has
  <2>4. Has(t, {"state"}) => Has(r, {"state"})
    BY <2>1, <1>4
  <2> QED BY <2>1, <2>2, <2>3, <2>4, <1>3, <1>5
<1>10. CASE ClearsRunning(u)
  <2>1. Head(t).op = "clear"
    BY <1>10 DEF ClearsRunning, Proceeds, t
  <2>2. UNCHANGED <<cmd_result, cmd_state, cmd_buff>>
    BY <1>10 DEF ClearsRunning, answer
  <2>3. Has(r, Puts1) = Has(t, Puts1)
    BY <2>1, <1>4 DEF Puts1, Has
  <2>4. Has(t, {"state"}) => Has(r, {"state"})
    BY <2>1, <1>4
  <2>5. Has(r, {"append_buff"}) /\ ~Has(r, {"buff"}) =>
          Has(t, {"append_buff"}) /\ ~Has(t, {"buff"})
    BY <2>1, <1>4
  <2> QED BY <2>2, <2>3, <2>4, <2>5, <1>3
<1> QED BY <1>7, <1>8, <1>9, <1>10 DEF Accesses

\* What a call does that has not started its command, or reads the result.
LEMMA OthersKeep ==
  ASSUME TypeOK, Ends, NEW u \in Users, Goings(u), ~StoreStarts(u), u \notin Started
  PROVE  /\ Started' = Started
         /\ UNCHANGED <<cmd, cmd_buff, cmd_result, last, alone, todo>>
         /\ cmd_state' \in {cmd_state, "WAITING"}
         /\ \A v \in Users : v # u => pc'[v] = pc[v] /\ call'[v] = call[v]
<1>1. pc[u] \notin {"parse", "power", "default", "work", "finish"}
  BY DEF Started, StoreSteps
<1>2. StoreTests(u) \/ StoreTakes(u) \/ ShowStarts(u) \/ ShowClears(u) \/ ShowWaits(u)
  BY <1>1 DEF Goings, StoreFails, StoreParses, SwitchesPower, set_default_result, Goes
<1>3. pc'[u] \notin {"parse", "power", "default", "work", "finish"}
  BY <1>2 DEF StoreTests, StoreTakes, ShowStarts, ShowClears, ShowWaits, Goes, TypeOK
<1>4. \A v \in Users : v # u => pc'[v] = pc[v]
  BY GoingsMove
<1>5. \A v \in Users : v # u => call'[v] = call[v]
  BY <1>2 DEF StoreTests, StoreTakes, ShowStarts, ShowClears, ShowWaits, TypeOK
<1>6. /\ UNCHANGED <<cmd, cmd_buff, cmd_result, last, alone, todo>>
      /\ cmd_state' \in {cmd_state, "WAITING"}
  BY <1>2
     DEF StoreTests, StoreTakes, ShowStarts, ShowClears, ShowWaits,
         command, answer, history
<1>7. Started' = Started
  BY <1>1, <1>3, <1>4 DEF Started, StoreSteps
<1> QED BY <1>4, <1>5, <1>6, <1>7

LEMMA OthersKeepAlone ==
  ASSUME TypeOK, Ends, AloneIsAt, NEW u \in Users, Goings(u), ~StoreStarts(u),
         u \notin Started
  PROVE  AloneIsAt'
<1> USE OthersKeep
<1>1. \A a : Agrees(a, cmd_state) => Agrees(a, cmd_state')
  BY DEF Agrees
<1> SUFFICES ASSUME alone, ~Malformed(last)
             PROVE  \/ Started' = {} /\ (last # NoRequest => Answered')
                    \/ \E w \in Users : Started' = {w} /\ RunsAlone(w)'
  BY DEF AloneIsAt, Malformed
<1>2. CASE Started = {} /\ (last # NoRequest => Answered)
  <2>1. Answered => Answered'
    BY <1>1 DEF Answered
  <2> QED BY <1>2, <2>1
<1>3. ASSUME NEW w \in Users, Started = {w}, RunsAlone(w)
      PROVE  RunsAlone(w)'
  <2>1. w # u
    BY <1>3
  <2>2. pc'[w] = pc[w] /\ call'[w] = call[w] /\ todo'[w] = todo[w]
    BY <2>1
  <2>3. \A a : GivesAnswer(todo[w], a) => GivesAnswer(todo[w], a)'
    BY <1>1, <2>2 DEF GivesAnswer
  <2> QED BY <1>3, <2>2, <2>3 DEF RunsAlone
<1> QED BY <1>2, <1>3 DEF AloneIsAt

\* The steps before the end of the command that runs alone.
LEMMA RunsOn ==
  ASSUME TypeOK, Ends, NEW u \in Users, Started = {u}, RunsAlone(u),
         ~Malformed(last), Goings(u)
  PROVE  /\ Started' = {u} /\ RunsAlone(u)'
         /\ UNCHANGED <<last, alone>>
<1>1. call[u] = last /\ pc[u] \in StoreSteps \ {"take", "start"}
  BY DEF Started, RunsAlone
<1>2. ~StoreFails(u)
  BY <1>1 DEF StoreFails, Malformed
<1>3. StoreParses(u) \/ SwitchesPower(u) \/ set_default_result(u)
  BY <1>1, <1>2
     DEF Goings, StoreTests, StoreTakes, StoreStarts, ShowStarts, ShowClears,
         ShowWaits, Goes, StoreSteps
<1>4. /\ UNCHANGED <<cmd_state, call, last, alone>>
      /\ cmd_state \in {"RUNNING", "WAITING"}
  BY <1>3
     DEF StoreParses, SwitchesPower, set_default_result, Goes, history, answer,
         RunsAlone, Before
<1>5. /\ pc'[u] \in {"power", "default", "work"}
      /\ pc'[u] \in {"power", "default"} => cmd' = last
      /\ pc'[u] = "work" => cmd_result' = [name |-> last, answers |-> <<>>]
  BY <1>1, <1>3
     DEF StoreParses, SwitchesPower, set_default_result, Goes, RunsAlone,
         TypeOK, command
<1>6. Started' = {u}
  <2>1. \A v \in Users : v # u => pc'[v] = pc[v]
    BY GoingsMove
  <2> QED BY <1>5, <2>1 DEF Started, StoreSteps
<1> QED BY <1>1, <1>4, <1>5, <1>6 DEF RunsAlone

LEMMA StepKeepsAlone ==
  ASSUME TypeOK, Ends, AloneIsAt, [Next]_vars
  PROVE  AloneIsAt'
<1>1. CASE UNCHANGED vars
  BY <1>1
     DEF vars, command, answer, history, AloneIsAt, Started, RunsAlone,
         Answered, GivesAnswer
<1>2. ASSUME NEW u \in Users, StoreStarts(u)
      PROVE  AloneIsAt'
  <2>1. /\ pc'[u] = "parse" /\ \A v \in Users : v # u => pc'[v] = pc[v]
        /\ last' = call[u] /\ call'[u] = call[u] /\ cmd_state' = "RUNNING"
        /\ alone' => Active = {u}
    BY <1>2 DEF StoreStarts, Goes, TypeOK
  <2>2. alone' => Started' = {u}
    BY <2>1 DEF Started, Active, StoreSteps
  <2>3. RunsAlone(u)'
    BY <2>1 DEF RunsAlone
  <2> QED BY <2>2, <2>3 DEF AloneIsAt
<1>3. ASSUME NEW u \in Users, Goings(u), ~StoreStarts(u), u \notin Started
      PROVE  AloneIsAt'
  BY <1>3, OthersKeepAlone
<1>4. ASSUME NEW u \in Users, Goings(u), ~StoreStarts(u), u \in Started
      PROVE  AloneIsAt'
  <2>1. UNCHANGED <<last, alone>>
    BY <1>4
       DEF Goings, StoreTests, StoreTakes, StoreFails, StoreParses,
           SwitchesPower, set_default_result, ShowStarts, ShowClears,
           ShowWaits, history
  <2>2. alone /\ ~Malformed(last) => Started = {u} /\ RunsAlone(u)
    BY <1>4 DEF AloneIsAt
  <2>3. alone /\ ~Malformed(last) => Started' = {u} /\ RunsAlone(u)'
    BY <1>4, <2>2, RunsOn
  <2> QED BY <2>1, <2>3 DEF AloneIsAt, Malformed
<1>5. ASSUME NEW u \in Users, Works(u)
      PROVE  AloneIsAt'
  <2>1. /\ pc[u] = "work" /\ pc'[u] = "finish" /\ Good(todo'[u])
        /\ \A v \in Users : v # u => pc'[v] = pc[v]
    BY <1>5, WorksFacts
  <2>2. UNCHANGED <<cmd_state, cmd_result, cmd_buff, last, alone, call>>
    BY <1>5 DEF Works, history, answer
  <2>3. Started' = Started /\ u \in Started
    BY <2>1 DEF Started, StoreSteps
  <2> SUFFICES ASSUME alone, ~Malformed(last)
               PROVE  Started = {u} /\ RunsAlone(u)'
    BY <2>2, <2>3 DEF AloneIsAt, Malformed
  <2>4. Started = {u} /\ RunsAlone(u)
    BY <2>3 DEF AloneIsAt
  <2>5. /\ call[u] = last /\ cmd_result = [name |-> last, answers |-> <<>>]
        /\ cmd_state \in {"RUNNING", "WAITING"}
    BY <2>1, <2>4 DEF RunsAlone, Before
  <2>6. /\ Has(todo'[u], Puts1)
        /\ Has(todo'[u], {"append_buff"}) => Has(todo'[u], {"buff"})
    BY <2>1 DEF Good, Sound
  <2>7. PICK a \in Answers : Tells(todo'[u], a)
    BY <2>1 DEF Good, Sound
  <2>8. GivesAnswer(todo[u], a)'
    BY <2>2, <2>5, <2>6, <2>7 DEF GivesAnswer, Agrees
  <2> QED BY <2>1, <2>2, <2>4, <2>5, <2>8 DEF RunsAlone, Before
<1>6. ASSUME NEW u \in Users, Accesses(u)
      PROVE  AloneIsAt'
  <2>1. PICK op : Proceeds(u, op)
    BY <1>6 DEF Accesses, SetsState, AppendsAnswer, WritesBuff, ClearsRunning
  <2>2. UNCHANGED <<last, alone>>
    BY <2>1 DEF Proceeds, history
  <2>3. /\ pc[u] = "finish" /\ pc'[u] \in {"finish", "idle"}
        /\ \A v \in Users : v # u => pc'[v] = pc[v]
        /\ todo'[u] # <<>> => pc'[u] = "finish" /\ call'[u] = call[u]
        /\ Ends' /\ \A v \in Users : pc'[v] # "finish" => todo'[v] = <<>>
    BY <2>1, ProceedsFacts
  <2>4. u \in Started
    BY <2>3 DEF Started, StoreSteps
  <2> SUFFICES ASSUME alone, ~Malformed(last)
               PROVE  \/ Started' = {} /\ Answered'
                      \/ Started' = {u} /\ RunsAlone(u)'
    BY <2>2 DEF AloneIsAt, Malformed
  <2>5. Started = {u} /\ RunsAlone(u)
    BY <2>4 DEF AloneIsAt
  <2>6. PICK a \in Answers : GivesAnswer(todo[u], a)
    BY <2>3, <2>5 DEF RunsAlone
  <2>7. GivesAnswer(todo[u], a)' /\ cmd_result'.name = last'
    BY <1>6, <2>2, <2>3, <2>5, <2>6, AccessGives DEF RunsAlone
  <2>8. CASE todo'[u] = <<>>
    <3>1. pc'[u] = "idle"
      BY <2>3, <2>8 DEF Ends
    <3>2. Started' = {}
      BY <2>3, <2>5, <3>1 DEF Started, StoreSteps
    <3>3. GivesAnswer(<<>>, a)'
      BY <2>7, <2>8 DEF GivesAnswer
    <3>4. cmd_result'.answers = <<a>> /\ Agrees(a, cmd_state')
      BY <3>3, EmptyFacts DEF GivesAnswer
    <3>5. Len(<<a>>) = 1 /\ <<a>>[1] = a
      OBVIOUS
    <3> QED BY <2>7, <3>2, <3>4, <3>5 DEF Answered
  <2>9. CASE todo'[u] # <<>>
    <3>1. pc'[u] = "finish" /\ call'[u] = call[u]
      BY <2>3, <2>9
    <3>2. Started' = {u}
      BY <2>3, <2>5, <3>1 DEF Started, StoreSteps
    <3> QED BY <2>2, <2>5, <2>7, <3>1, <3>2 DEF RunsAlone, Before
  <2> QED BY <2>8, <2>9
<1>7. \A u \in Users : StoreStarts(u) => Goings(u)
  BY DEF Goings
<1> QED BY <1>1, <1>2, <1>3, <1>4, <1>5, <1>6, Actions

-----------------------------------------------------------------------------
(* The theorems.                                                           *)

LEMMA InitIInv == Init => IInv
<1> SUFFICES ASSUME Init PROVE IInv
  OBVIOUS
<1>1. TypeOK
  <2>1. <<>> \in Seq(Steps) /\ <<>> \in Seq(Answers)
    BY EmptySeq
  <2>2. pc \in [Users -> {"idle"} \union StoreSteps \union ShowSteps]
    BY DEF Init
  <2>3. call \in [Users -> Texts]
    BY DEF Init, Texts
  <2>4. todo \in [Users -> Seq(Steps)] /\ \A u \in Users : todo[u] = <<>>
    BY <2>1 DEF Init
  <2>5. cmd_result \in [name : Texts, answers : Seq(Answers)]
    BY <2>1 DEF Init, Texts
  <2> QED
    BY <2>2, <2>3, <2>4, <2>5
       DEF Init, TypeOK, Texts, Params, Statuses, Answers
<1>2. Ends
  BY EmptyFacts DEF Init, Ends
<1>3. RoomForOwed
  <2>1. Owing = {}
    BY DEF Init, Owing
  <2>2. Cardinality(Owing) = 0 /\ Cardinality(Users) \in Nat
    BY <2>1, UsersAssumption, FS_EmptySet, FS_CardinalityType
  <2>3. Len(cmd_result.answers) = 0
    BY DEF Init
  <2> QED BY <2>2, <2>3 DEF RoomForOwed
<1>4. StatusComes /\ ReleaseComes
  BY DEF Init, StatusComes, ReleaseComes
<1>5. AloneIsAt
  <2>1. Started = {}
    BY DEF Init, Started, StoreSteps
  <2> QED BY <2>1 DEF Init, AloneIsAt
<1> QED BY <1>1, <1>2, <1>3, <1>4, <1>5 DEF IInv

\* The inductive invariant of the command files, for any number of calls.
THEOREM Invariant == Spec => []IInv
<1>1. IInv /\ [Next]_vars => IInv'
  BY StepKeepsTypes, StepKeepsRoom, StepKeepsStatus, StepKeepsRelease,
     StepKeepsAlone DEF IInv
<1> QED
  BY InitIInv, <1>1, PTL DEF Spec

\* The variables keep their types; no access remains of a call that returned.
THEOREM TypeCorrect == Spec => []TypeOK
<1>1. IInv => TypeOK
  BY DEF IInv
<1> QED
  BY <1>1, Invariant, PTL

\* set_cmd_result never piles up more answers than there are calls.
THEOREM AnswersBounded == Spec => []AnswersFit
<1>1. IInv => AnswersFit
  <2> SUFFICES ASSUME IInv PROVE AnswersFit
    OBVIOUS
  <2>1. Cardinality(Owing) \in Nat /\ Cardinality(Users) \in Nat
    BY UserSets DEF Owing
  <2>2. Len(cmd_result.answers) \in Nat
    BY DEF IInv, TypeOK
  <2> QED BY <2>1, <2>2 DEF IInv, RoomForOwed, AnswersFit
<1> QED
  BY <1>1, Invariant, PTL

\* A status "running" with nothing in progress has one of two causes.
THEOREM RunningHasCause == Spec => []RunningIsExplained
<1>1. Will("state") \subseteq Active
  BY DEF Will, Active, Before, StoreSteps
<1>2. IInv => RunningIsExplained
  BY <1>1 DEF IInv, StatusComes, RunningIsExplained
<1> QED
  BY <1>2, Invariant, PTL

\* A file that refuses writers with nothing in progress waits for its reader.
THEOREM BusyHasCause == Spec => []BusyIsExplained
<1>1. Will("clear") \subseteq Active
  BY DEF Will, Active, Before, StoreSteps
<1>2. \A u \in Users : pc[u] = "start" => u \in Active
  BY DEF Active, StoreSteps
<1>3. IInv => BusyIsExplained
  BY <1>1, <1>2 DEF IInv, ReleaseComes, BusyIsExplained
<1> QED
  BY <1>3, Invariant, PTL

\* A command that ran alone leaves its own answer, once, and a status that
\* agrees with it, whenever the result is read.
THEOREM AloneIsAnswered == Spec => []AnsweredAlone
<1>1. IInv => AnsweredAlone
  <2> SUFFICES ASSUME IInv, alone, Active = {}, last # NoRequest, ~Malformed(last)
               PROVE  Answered
    BY DEF AnsweredAlone
  <2>1. Started = {}
    BY DEF Started, Active
  <2> QED BY <2>1 DEF IInv, AloneIsAt
<1> QED
  BY <1>1, Invariant, PTL
=============================================================================
