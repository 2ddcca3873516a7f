------------------------------- MODULE Limiter -------------------------------
(***************************************************************************)
(* The token bucket of a connection: LinqoraHost/internal/ws/ratelimiter.go *)
(*                                                                         *)
(* Time is counted in ticks, tokens in fractions that make every quantity  *)
(* an integer: a message costs Cost, a tick refills Rate, the bucket holds *)
(* Capacity (in the code 1 token, 30 tokens a second, 60 tokens).  The     *)
(* clock is Go's monotonic one.                                            *)
(***************************************************************************)
EXTENDS Integers

CONSTANTS
  Capacity,  \* rateLimitBurst
  Rate,      \* rateLimitPerSec, per tick
  Cost,      \* one message
  MaxTime    \* bound: ticks

ASSUME LimiterAssumption ==
  /\ Capacity \in Nat /\ Rate \in Nat /\ Cost \in Nat \ {0}
  /\ Cost <= Capacity
  /\ MaxTime \in Nat

VARIABLES
  tokens,    \* r.tokens
  lastTime,  \* r.lastTime
  clock,     \* time.Now()
  from,      \* history: when the window under observation was opened
  passed,    \* history: messages let through in that window
  refused    \* history: the last call was refused

limiterVars == <<tokens, lastTime, clock, from, passed, refused>>

LimiterTypeOK ==
  /\ tokens \in 0..Capacity
  /\ clock \in Nat
  /\ lastTime \in 0..clock
  /\ from \in 0..clock
  /\ passed \in Nat
  /\ refused \in BOOLEAN

LimiterInit ==
  /\ tokens = Capacity
  /\ lastTime = 0 /\ clock = 0
  /\ from = 0 /\ passed = 0
  /\ refused = FALSE

(* Mutant of Refilled: the bucket overflows. *)
RefilledForEver == tokens + Rate * (clock - lastTime)

(* What the bucket holds once the time since lastTime is credited. *)
Refilled ==
  LET credit == tokens + Rate * (clock - lastTime)
  IN  IF credit > Capacity THEN Capacity ELSE credit

(* Allow.  The time is credited whether or not a token is left. *)
Allow ==
  /\ lastTime' = clock
  /\ refused' = (Refilled < Cost)
  /\ IF Refilled < Cost
     THEN tokens' = Refilled /\ UNCHANGED passed
     ELSE tokens' = Refilled - Cost /\ passed' = passed + 1
  /\ UNCHANGED <<clock, from>>

Tick ==
  /\ clock < MaxTime
  /\ clock' = clock + 1
  /\ UNCHANGED <<tokens, lastTime, from, passed, refused>>

(* An observer starts to count, at any moment. *)
OpenWindow ==
  /\ from' = clock /\ passed' = 0
  /\ UNCHANGED <<tokens, lastTime, clock, refused>>

LimiterNext == Allow \/ Tick \/ OpenWindow

LimiterSpec == LimiterInit /\ [][LimiterNext]_limiterVars

-----------------------------------------------------------------------------
(* ratelimiter.go:19: "restrict client message rates [...] short bursts      *)
(* while maintaining a consistent long-term average rate".  In any window,   *)
(* wherever it starts and however the calls are placed, no more passes than  *)
(* one burst and what the rate adds meanwhile.                               *)
WindowBound == passed * Cost <= Capacity + Rate * (clock - from)

(* A refusal costs nothing: whoever is refused, and then waits for the time  *)
(* of one message, is let through, whatever it sent before.                  *)
WaitIsEnough == [][Rate * (clock - lastTime) >= Cost /\ Allow => ~refused']_limiterVars

=============================================================================
