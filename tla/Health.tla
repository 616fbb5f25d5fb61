------------------------------- MODULE Health -------------------------------
(***************************************************************************)
(* The health checker, internal/health/checker.go, for one backend: checks *)
(* of different backends share nothing but a mutex.  The loop checks at    *)
(* once and then at every tick of its ticker; a tick that comes during a   *)
(* check waits, and further ones are lost.  A check asks the backend,      *)
(* which answers for the state it is in then, and gives up at the client's *)
(* timeout.  Time passes in units; what the code does takes none.  The     *)
(* configuration is loaded from a file, and again while the loop runs.     *)
(***************************************************************************)
EXTENDS Config

CONSTANTS Files,        \* what the file may hold when it is read
          MaxDown       \* the time of being down is counted to here, for TLC

ASSUME HealthAssumption == Files \subseteq Configs /\ MaxDown \in Nat

VARIABLES up,           \* the backend would answer with a 2xx
          config,       \* cfg
          timeout,      \* the timeout of the checker's client
          period,       \* the period of the loop's ticker
          loop,         \* the statement checkLoop is at
          age,          \* how long the check has lasted
          answer,       \* what the backend has answered to it
          phase, tick,  \* the time since the last tick; a tick waits
          healthy,      \* the status stored
          downFor       \* ghost: how long the backend has been down

checkVars == <<age, answer>>
tickerVars == <<period, phase, tick>>
hvars == <<up, config, timeout, loop, checkVars, tickerVars, healthy, downFor>>

(* NewChecker gives its client the timeout of the configuration as it is  *)
(* then; a timeout loaded later does not reach it.                         *)
HealthInit ==
  /\ up \in BOOLEAN
  /\ config \in Load(Files)
  /\ timeout = config.timeout /\ period = config.interval
  /\ loop = "off" /\ age = 0 /\ answer = FALSE
  /\ phase = 0 /\ tick = FALSE
  /\ healthy = FALSE
  /\ downFor = 0

------------------------------------------------------------------------------
(* updateStatus: of what it stores, only healthy is kept here. *)
Update(ok) == healthy' = ok

------------------------------------------------------------------------------
(* Start makes the ticker with the interval as it is then, and checks.     *)
Start ==
  /\ loop = "off"
  /\ loop' = "asking" /\ age' = 0
  /\ period' = config.interval /\ phase' = 0 /\ tick' = FALSE
  /\ downFor' = 0
  /\ UNCHANGED <<up, config, timeout, answer, healthy>>

(* A check is begun by a tick. *)
Check ==
  /\ loop = "waiting" /\ tick
  /\ loop' = "asking" /\ age' = 0 /\ tick' = FALSE
  /\ UNCHANGED <<up, config, timeout, answer, period, phase, healthy, downFor>>

(* The backend answers, and its answer is on the way. *)
BackendAnswers ==
  /\ loop = "asking"
  /\ loop' = "answered" /\ answer' = up
  /\ UNCHANGED <<up, config, timeout, age, tickerVars, healthy, downFor>>

Ends(ok) == /\ Update(ok)
            /\ loop' = "waiting"
            /\ UNCHANGED <<up, config, timeout, checkVars, tickerVars, downFor>>

GetAnswer == loop = "answered" /\ Ends(answer)

\* Mutant: a check that timed out leaves the status as it was.
TimeoutUnstored == /\ loop \in {"asking", "answered"} /\ age = timeout
                   /\ loop' = "waiting"
                   /\ UNCHANGED <<up, config, timeout, checkVars, tickerVars, healthy, downFor>>

GetTimeout == loop \in {"asking", "answered"} /\ age = timeout /\ Ends(FALSE)

(* Stop cancels the context and waits for the loop; a check under way      *)
(* fails and is stored as any other.                                       *)
Stop ==
  /\ loop # "off"
  /\ loop' = "off"
  /\ \/ loop \in {"asking", "answered"} /\ Update(FALSE)
     \/ loop = "waiting" /\ UNCHANGED healthy
  /\ UNCHANGED <<up, config, timeout, checkVars, tickerVars, downFor>>

(* Application.Reload: a file that is not valid changes nothing. *)
Reload ==
  /\ \E new \in Load(Files) : config' = Reloaded(config, new)
  /\ UNCHANGED <<up, timeout, loop, checkVars, tickerVars, healthy, downFor>>

------------------------------------------------------------------------------
BackendChanges ==
  /\ up' = ~up /\ downFor' = 0
  /\ UNCHANGED <<config, timeout, loop, checkVars, tickerVars, healthy>>

(* A tick is dropped if one waits already. *)
Tick ==
  /\ phase' = IF phase + 1 = period THEN 0 ELSE phase + 1
  /\ tick' = (tick \/ phase' = 0)

TimePasses ==
  /\ ~(loop = "waiting" /\ tick)
  /\ loop \in {"asking", "answered"} => age < timeout
  /\ age' = IF loop \in {"asking", "answered"} THEN age + 1 ELSE age
  /\ IF loop = "off" THEN UNCHANGED <<phase, tick>> ELSE Tick
  /\ downFor' = IF ~up /\ downFor < MaxDown THEN downFor + 1 ELSE downFor
  /\ UNCHANGED <<up, config, timeout, loop, answer, period, healthy>>

HealthNext == \/ Start \/ Check \/ BackendAnswers \/ GetAnswer \/ GetTimeout
              \/ Stop \/ Reload \/ BackendChanges \/ TimePasses
HealthSpec == HealthInit /\ [][HealthNext]_hvars

------------------------------------------------------------------------------
(* Properties *)

(* Type invariant of the checker's loop, ticker and status. *)
HealthTypeOK ==
  /\ up \in BOOLEAN /\ healthy \in BOOLEAN /\ answer \in BOOLEAN
  /\ config \in Configs /\ timeout \in Nat \ {0} /\ period \in Nat \ {0}
  /\ loop \in {"off", "waiting", "asking", "answered"}
  /\ age \in 0..timeout
  /\ phase \in 0..period - 1 /\ tick \in BOOLEAN
  /\ downFor \in 0..MaxDown

Longer == IF period > timeout THEN period ELSE timeout

(* While the loop runs, no backend counts as healthy (IsHealthy, which     *)
(* admits a switch to it) that has been down for longer than a period and  *)
(* a timeout, or two timeouts: whatever checks hang, answers are on the    *)
(* way when it goes down, and ticks are lost.                              *)
HealthIsFresh == loop # "off" /\ ~up /\ downFor > Longer + timeout => ~healthy

(* The configuration that runs is one that validate would pass, at any     *)
(* time: a Reload takes only a part of the file it has checked, and the    *)
(* checks relate one field to another.                                     *)
ConfigStaysValid == Valid(config)

(* The inductive invariant: how stale the status may be, by where the loop *)
(* is.  A check without a tick in it began at or after the last tick; an   *)
(* answer was true when it was given.                                      *)
Checking == loop \in {"asking", "answered"}
NoTickMissed == Checking /\ ~tick => age <= phase
AnswerWasTrue == loop = "answered" /\ answer /\ ~up => downFor <= age
StaleChecking == Checking /\ ~up /\ healthy => downFor <= Longer + age
StaleWaiting == loop = "waiting" /\ ~up /\ healthy =>
                  downFor <= IF tick THEN Longer ELSE phase

HealthInv == /\ HealthTypeOK /\ ConfigStaysValid
             /\ NoTickMissed /\ AnswerWasTrue /\ StaleChecking /\ StaleWaiting
==============================================================================
