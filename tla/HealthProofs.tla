---------------------------- MODULE HealthProofs ----------------------------
(***************************************************************************)
(* Proofs about Health, for every interval and timeout that validate lets  *)
(* pass, and every sequence of files that is loaded.                       *)
(***************************************************************************)
EXTENDS Health, TLAPS

(* What Load returns is a valid configuration of positive durations. *)
LEMMA LoadIsValid ==
  ASSUME NEW c \in Load(Files)
  PROVE  /\ Valid(c) /\ c \in Configs
         /\ c.interval \in Nat \ {0} /\ c.timeout \in Nat \ {0}
<1>1. PICK file \in Files : c = SetDefaults(file) /\ Valid(c)
  BY DEF Load
<1>2. file \in Configs
  BY HealthAssumption
<1>3. c \in Configs
  BY <1>1, <1>2, ConfigAssumption DEF SetDefaults, Configs, Durations
<1> QED BY <1>1, <1>3, ConfigAssumption DEF Valid, Configs

(* The initial state has the invariant. *)
LEMMA InitHolds == HealthInit => HealthInv
<1> SUFFICES ASSUME HealthInit PROVE HealthInv
  OBVIOUS
<1>1. /\ Valid(config) /\ config \in Configs
      /\ timeout \in Nat \ {0} /\ period \in Nat \ {0}
  BY LoadIsValid DEF HealthInit
<1>2. up \in BOOLEAN /\ healthy \in BOOLEAN /\ answer \in BOOLEAN /\ tick \in BOOLEAN
  BY DEF HealthInit
<1>3. age \in 0..timeout /\ phase \in 0..period - 1 /\ downFor \in 0..MaxDown
  BY <1>1, HealthAssumption DEF HealthInit
<1>4. loop = "off"
  BY DEF HealthInit
<1> QED
  BY <1>1, <1>2, <1>3, <1>4
     DEF HealthInv, HealthTypeOK, ConfigStaysValid, Checking, NoTickMissed,
         AnswerWasTrue, StaleChecking, StaleWaiting

(* The loop: a check begins, is answered, and ends. *)
LEMMA LoopSteps ==
  ASSUME HealthInv, Start \/ Check \/ BackendAnswers \/ GetAnswer \/ GetTimeout \/ Stop
  PROVE  HealthInv'
<1> USE DEF HealthInv, HealthTypeOK, ConfigStaysValid, Checking, NoTickMissed,
            AnswerWasTrue, StaleChecking, StaleWaiting, Longer, checkVars, tickerVars
<1>1. CASE Start
  <2>1. config.interval \in Nat \ {0}
    BY ConfigAssumption DEF Valid, Configs
  <2>2. /\ loop' = "asking" /\ age' = 0 /\ phase' = 0 /\ downFor' = 0
        /\ period' = config.interval /\ config' = config /\ timeout' = timeout
    BY <1>1 DEF Start
  <2>3. /\ up' \in BOOLEAN /\ healthy' \in BOOLEAN /\ answer' \in BOOLEAN
        /\ tick' \in BOOLEAN
    BY <1>1 DEF Start
  <2> QED BY <2>1, <2>2, <2>3, HealthAssumption
<1>2. CASE Check
  <2>1. /\ loop = "waiting" /\ loop' = "asking" /\ age' = 0
        /\ UNCHANGED <<up, config, timeout, answer, period, phase, healthy, downFor>>
    BY <1>2 DEF Check
  <2>2. tick /\ tick' = FALSE
    BY <1>2 DEF Check
  <2>3. ~up /\ healthy => downFor <= Longer
    BY <2>1, <2>2
  <2>4. tick' \in BOOLEAN
    BY <2>2
  <2> QED BY <2>1, <2>3, <2>4
<1>3. CASE BackendAnswers
  BY <1>3 DEF BackendAnswers
<1>4. CASE GetAnswer
  BY <1>4 DEF GetAnswer, Ends, Update
<1>5. CASE GetTimeout
  BY <1>5 DEF GetTimeout, Ends, Update
<1>6. CASE Stop
  BY <1>6 DEF Stop, Update
<1> QED BY <1>1, <1>2, <1>3, <1>4, <1>5, <1>6

(* A reload changes the configuration and nothing that runs by it. *)
LEMMA ReloadStep ==
  ASSUME HealthInv, Reload
  PROVE  HealthInv'
<1>1. PICK new \in Load(Files) : config' = Reloaded(config, new)
  BY DEF Reload
<1>2. Valid(new) /\ new \in Configs
  BY LoadIsValid
<1>3. Valid(config') /\ config' \in Configs
  BY <1>1, <1>2 DEF Reloaded, Valid, Configs, HealthInv, HealthTypeOK, ConfigStaysValid
<1> QED
  BY <1>3 DEF Reload, HealthInv, HealthTypeOK, ConfigStaysValid, Checking, NoTickMissed,
              AnswerWasTrue, StaleChecking, StaleWaiting, Longer, checkVars, tickerVars

(* Time passes, unless a tick is to be taken or a check to time out. *)
LEMMA TimeStep ==
  ASSUME HealthInv, TimePasses
  PROVE  HealthInv'
<1> USE DEF HealthInv, HealthTypeOK, ConfigStaysValid, Checking, NoTickMissed,
            AnswerWasTrue, StaleChecking, StaleWaiting, Longer
<1>1. /\ phase' \in 0..period - 1 /\ tick' \in BOOLEAN
      /\ ~tick' => ~tick /\ (loop # "off" => phase' = phase + 1)
      /\ loop # "off" /\ phase' # phase + 1 => tick'
  <2>1. CASE loop = "off"
    BY <2>1 DEF TimePasses
  <2>2. CASE loop # "off"
    <3>1. /\ phase' = (IF phase + 1 = period THEN 0 ELSE phase + 1)
          /\ tick' = (tick \/ phase' = 0)
      BY <2>2 DEF TimePasses, Tick
    <3>2. phase' \in 0..period - 1
      BY <3>1
    <3>3. tick' \in BOOLEAN
      BY <3>1
    <3>4. phase' # phase + 1 => phase' = 0
      BY <3>1
    <3>5. ~tick' => ~tick /\ phase' # 0
      BY <3>1
    <3>6. phase' = 0 => tick'
      BY <3>1
    <3> QED BY <2>2, <3>2, <3>3, <3>4, <3>5, <3>6
  <2> QED BY <2>1, <2>2
<1>2. downFor' \in 0..MaxDown /\ downFor' <= downFor + 1
  BY HealthAssumption DEF TimePasses
<1>3. CASE loop = "off"
  BY <1>1, <1>2, <1>3 DEF TimePasses
<1>4. CASE loop = "waiting"
  BY <1>1, <1>2, <1>4 DEF TimePasses
<1>5. CASE loop \in {"asking", "answered"}
  BY <1>1, <1>2, <1>5 DEF TimePasses
<1> QED BY <1>3, <1>4, <1>5

(* Every step preserves the invariant. *)
LEMMA StepKeeps == HealthInv /\ [HealthNext]_hvars => HealthInv'
<1> SUFFICES ASSUME HealthInv, [HealthNext]_hvars PROVE HealthInv'
  OBVIOUS
<1>1. CASE Start \/ Check \/ BackendAnswers \/ GetAnswer \/ GetTimeout \/ Stop
  BY <1>1, LoopSteps
<1>2. CASE Reload
  BY <1>2, ReloadStep
<1>3. CASE BackendChanges
  BY <1>3, HealthAssumption
     DEF BackendChanges, HealthInv, HealthTypeOK, ConfigStaysValid, Checking, NoTickMissed,
         AnswerWasTrue, StaleChecking, StaleWaiting, Longer, checkVars, tickerVars
<1>4. CASE TimePasses
  BY <1>4, TimeStep
<1>5. CASE UNCHANGED hvars
  BY <1>5 DEF hvars, HealthInv, HealthTypeOK, ConfigStaysValid, Checking, NoTickMissed,
              AnswerWasTrue, StaleChecking, StaleWaiting, Longer, checkVars, tickerVars
<1> QED BY <1>1, <1>2, <1>3, <1>4, <1>5 DEF HealthNext

------------------------------------------------------------------------------
(* The inductive invariant of the checker and the configuration. *)
THEOREM HealthInvariant == HealthSpec => []HealthInv
  BY InitHolds, StepKeeps, PTL DEF HealthSpec

(* No backend that has been down for longer than a period and a timeout,   *)
(* or two timeouts, counts as healthy: for every interval and timeout.     *)
THEOREM HealthFresh == HealthSpec => []HealthIsFresh
<1>1. HealthInv => HealthIsFresh
  BY DEF HealthInv, HealthTypeOK, Checking, StaleChecking, StaleWaiting, Longer, HealthIsFresh
<1> QED BY <1>1, HealthInvariant, PTL

(* No reload leaves a configuration that validate would refuse. *)
THEOREM ConfigValid == HealthSpec => []ConfigStaysValid
<1>1. HealthInv => ConfigStaysValid
  BY DEF HealthInv
<1> QED BY <1>1, HealthInvariant, PTL
==============================================================================
