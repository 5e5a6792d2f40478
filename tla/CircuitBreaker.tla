-------------------------- MODULE CircuitBreaker ---------------------------
(***************************************************************************)
(* proxy/circuit_breaker.py: the one CircuitBreaker every upstream call of  *)
(* the process goes through.                                                *)
(*                                                                          *)
(* The body of every `async with self._lock` block holds no await, so each  *)
(* block is one atomic step of the event loop; what interleaves is the      *)
(* `await fn()` between _before_call and _record_*.  A caller stands for a   *)
(* sequence of requests, so that it may call again once its call settled.   *)
(***************************************************************************)
EXTENDS Integers

CONSTANTS
    Callers,      \* the tasks that share the breaker
    Threshold,    \* failure_threshold
    Reset,        \* reset_seconds, in clock ticks
    NoTime,       \* Python's None for _opened_at
    MaxTime,      \* bound: last tick of the modelled clock
    MaxFailures   \* bound: failures recorded without a success between them

ASSUME ThresholdAssumption == Threshold \in Nat \ {0}
ASSUME ResetAssumption == Reset \in Nat \ {0}
ASSUME NoTimeAssumption == NoTime \notin Nat
ASSUME BoundsAssumption == MaxTime \in Nat /\ MaxFailures \in Nat

VARIABLES
    state,      \* _state
    failures,   \* _failures
    openedAt,   \* _opened_at
    now,        \* what _clock() returns
    call        \* how each caller's latest call() stands

vars == <<state, failures, openedAt, now, call>>

States == {"closed", "open", "half_open"}

(* A call is in flight while its task awaits fn().  "probing" is a call     *)
(* that _before_call let through in HALF_OPEN, "sending" one it let through *)
(* in CLOSED.                                                               *)
Flying == {"sending", "probing"}
Settled == {"none", "returned", "raised", "refused", "cancelled"}

InFlight(c) == call[c] \in Flying

Init ==
    /\ state = "closed"
    /\ failures = 0
    /\ openedAt = NoTime
    /\ now = 0
    /\ call = [c \in Callers |-> "none"]

Tick ==
    /\ now < MaxTime
    /\ now' = now + 1
    /\ UNCHANGED <<state, failures, openedAt, call>>

(* Bugs the properties below must notice, each the mutated form of the      *)
(* definition it is named after; no specification uses them.                *)
CoolingDownOneTickShort == state = "open" /\ now - openedAt < Reset - 1
CoolingDownOneTickLong == state = "open" /\ now - openedAt <= Reset

SucceedKeepsCount(c) ==
    /\ InFlight(c)
    /\ openedAt' = NoTime
    /\ state' = "closed"
    /\ call' = [call EXCEPT ![c] = "returned"]
    /\ UNCHANGED <<failures, now>>

FailCountsOnlyWhenClosed(c) ==
    /\ InFlight(c)
    /\ failures < MaxFailures
    /\ IF state = "open"
         THEN UNCHANGED <<failures, state, openedAt>>
         ELSE /\ failures' = failures + 1
              /\ IF failures' >= Threshold
                   THEN state' = "open" /\ openedAt' = now
                   ELSE UNCHANGED <<state, openedAt>>
    /\ call' = [call EXCEPT ![c] = "raised"]
    /\ UNCHANGED now

(* A cancelled call is taken for a success:                                 *)
CancelCountsAsSuccess(c) ==
    /\ InFlight(c)
    /\ failures' = 0
    /\ openedAt' = NoTime
    /\ state' = "closed"
    /\ call' = [call EXCEPT ![c] = "cancelled"]
    /\ UNCHANGED now

-----------------------------------------------------------------------------
(* _before_call's test: OPEN, and elapsed < reset_seconds. *)
CoolingDown == state = "open" /\ now - openedAt < Reset

(* _before_call raises CircuitOpenError: nothing was sent, nothing counted. *)
Refuse(c) ==
    /\ ~InFlight(c)
    /\ CoolingDown
    /\ call' = [call EXCEPT ![c] = "refused"]
    /\ UNCHANGED <<state, failures, openedAt, now>>

(* _before_call returns.  An OPEN breaker past its cooldown is promoted;    *)
(* CLOSED and HALF_OPEN let everyone through.                               *)
Admit(c) ==
    /\ ~InFlight(c)
    /\ ~CoolingDown
    /\ state' = IF state = "open" THEN "half_open" ELSE state
    /\ call' = [call EXCEPT ![c] = IF state = "closed" THEN "sending" ELSE "probing"]
    /\ UNCHANGED <<failures, openedAt, now>>

(* fn() returned, whatever the HTTP status: _record_success. *)
Succeed(c) ==
    /\ InFlight(c)
    /\ failures' = 0
    /\ openedAt' = NoTime
    /\ state' = "closed"
    /\ call' = [call EXCEPT ![c] = "returned"]
    /\ UNCHANGED now

(* fn() raised an Exception: _record_failure, then the exception goes on.   *)
(* The caller may be one that was admitted before the breaker opened.       *)
Fail(c) ==
    /\ InFlight(c)
    /\ failures < MaxFailures
    /\ failures' = failures + 1
    /\ IF failures' >= Threshold
         THEN state' = "open" /\ openedAt' = now
         ELSE UNCHANGED <<state, openedAt>>
    /\ call' = [call EXCEPT ![c] = "raised"]
    /\ UNCHANGED now

(* The task is cancelled while it awaits fn().  CancelledError is not an    *)
(* Exception: neither _record_failure nor _record_success runs.             *)
Cancel(c) ==
    /\ InFlight(c)
    /\ call' = [call EXCEPT ![c] = "cancelled"]
    /\ UNCHANGED <<state, failures, openedAt, now>>

Step(c) == Refuse(c) \/ Admit(c) \/ Succeed(c) \/ Fail(c) \/ Cancel(c)

Next == Tick \/ \E c \in Callers : Step(c)

Spec == Init /\ [][Next]_vars

-----------------------------------------------------------------------------
(* Type invariant. *)
TypeOK ==
    /\ state \in States
    /\ failures \in 0..MaxFailures
    /\ openedAt \in 0..MaxTime \cup {NoTime}
    /\ now \in 0..MaxTime
    /\ call \in [Callers -> Flying \cup Settled]

(* The three fields of the breaker never contradict one another, whatever   *)
(* late answers are recorded: it is out of CLOSED exactly while the failure *)
(* count is at the threshold, and then and only then knows when it opened   *)
(* (the assert in _before_call relies on that).                             *)
FieldsAgree ==
    /\ state = "closed" <=> failures < Threshold
    /\ state = "closed" <=> openedAt = NoTime
    /\ openedAt # NoTime => openedAt <= now

(* HALF_OPEN is never entered early, and a failure recorded while probes    *)
(* fly leaves it: in HALF_OPEN the whole cooldown has elapsed since the     *)
(* latest failure.                                                          *)
HalfOpenIsCooled ==
    state = "half_open" => now - openedAt >= Reset

BreakerInv == TypeOK /\ FieldsAgree /\ HalfOpenIsCooled

(* While the latest failure of a streak that reached the threshold is less  *)
(* than reset_seconds old, no task gets a call through to the upstream: not *)
(* through HALF_OPEN, and not after a late failure reopened the breaker.    *)
TrippedRecently ==
    failures >= Threshold /\ now - openedAt < Reset

NoCallDuringCooldown ==
    [][TrippedRecently =>
          \A c \in Callers : call'[c] \in Flying => InFlight(c)]_vars

(* call() refuses nobody without cause: a caller meets CircuitOpenError     *)
(* only in such a cooldown, never in CLOSED, in HALF_OPEN or after it.      *)
RefusesOnlyInCooldown ==
    [][\A c \in Callers :
          call[c] # "refused" /\ call'[c] = "refused" => TrippedRecently]_vars

(* A cooldown ends by time alone: the only way out of it that does not wait *)
(* for all of reset_seconds since the latest failure is the success of a    *)
(* call that was already in flight; no refused, cancelled or failed call    *)
(* ends it early.                                                           *)
CooldownEndsByTimeOrSuccess ==
    [][TrippedRecently /\ ~TrippedRecently' =>
          \/ now' = openedAt + Reset /\ failures' = failures
          \/ \E c \in Callers : InFlight(c) /\ call'[c] = "returned"]_vars

(* The breaker implements BreakerContract: what it admits and refuses       *)
(* depends on the failures since the last success and on the age of the     *)
(* latest of them; the OPEN/HALF_OPEN distinction is never visible.         *)
streakOf == IF failures < Threshold THEN failures ELSE Threshold
ageOf == IF openedAt = NoTime THEN 0
         ELSE IF now - openedAt < Reset THEN now - openedAt ELSE Reset
callOf == [c \in Callers |-> IF call[c] = "probing" THEN "sending" ELSE call[c]]

Contract == INSTANCE BreakerContract WITH
    streak <- streakOf, age <- ageOf, call <- callOf

ImplementsContract == Contract!Spec

(* The parameter documentation of reset_seconds: after the cooldown "a      *)
(* single probe is permitted".  At most one call that was let through in    *)
(* HALF_OPEN is in flight.                                                  *)
SingleProbe ==
    \A c, d \in Callers : call[c] = "probing" /\ call[d] = "probing" => c = d
=============================================================================
