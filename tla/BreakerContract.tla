-------------------------- MODULE BreakerContract --------------------------
(***************************************************************************)
(* What proxy/circuit_breaker.py promises the forwarder, with the three     *)
(* named states and the absolute clock abstracted away.                     *)
(*                                                                          *)
(* The breaker remembers two things only: how many failures were recorded   *)
(* since the last recorded success, and, once those reach the threshold,    *)
(* how long ago the latest of them was.  Both are compared with a constant   *)
(* and with nothing else, so both are kept saturated at that constant, and   *)
(* the contract is finite-state without any bound on time or on failures.   *)
(* CircuitBreaker.tla, the translation of the code, is shown to implement   *)
(* this module, and ProxyHandler.tla is composed with it.                   *)
(***************************************************************************)
EXTENDS Naturals

CONSTANTS
    Callers,    \* the tasks that go through the one shared breaker
    Threshold,  \* failure_threshold
    Reset       \* reset_seconds, in clock ticks

ASSUME ThresholdAssumption == Threshold \in Nat \ {0}
ASSUME ResetAssumption == Reset \in Nat \ {0}

VARIABLES
    streak,     \* failures since the last success, saturated at Threshold
    age,        \* ticks since the latest failure once tripped, saturated at Reset
    call        \* how each caller's latest breaker.call() stands

vars == <<streak, age, call>>

Outcomes == {"none", "returned", "raised", "refused", "cancelled"}

Init ==
    /\ streak = 0
    /\ age = 0
    /\ call = [c \in Callers |-> "none"]

InFlight(c) == call[c] = "sending"
Tripped == streak = Threshold
Refusing == Tripped /\ age < Reset

Saturated(n, limit) == IF n < limit THEN n ELSE limit

Tick ==
    /\ Refusing
    /\ age' = age + 1
    /\ UNCHANGED <<streak, call>>

Admit(c) ==
    /\ ~InFlight(c)
    /\ ~Refusing
    /\ call' = [call EXCEPT ![c] = "sending"]
    /\ UNCHANGED <<streak, age>>

(* A bug FairSpec must notice: a refused call restarts the cooldown. *)
RefuseRestartsCooldown(c) ==
    /\ ~InFlight(c)
    /\ Refusing
    /\ age' = 0
    /\ call' = [call EXCEPT ![c] = "refused"]
    /\ UNCHANGED streak

Refuse(c) ==
    /\ ~InFlight(c)
    /\ Refusing
    /\ call' = [call EXCEPT ![c] = "refused"]
    /\ UNCHANGED <<streak, age>>

Succeed(c) ==
    /\ InFlight(c)
    /\ streak' = 0
    /\ age' = 0
    /\ call' = [call EXCEPT ![c] = "returned"]

Fail(c) ==
    /\ InFlight(c)
    /\ streak' = Saturated(streak + 1, Threshold)
    /\ age' = 0
    /\ call' = [call EXCEPT ![c] = "raised"]

Cancel(c) ==
    /\ InFlight(c)
    /\ call' = [call EXCEPT ![c] = "cancelled"]
    /\ UNCHANGED <<streak, age>>

Step(c) == Admit(c) \/ Refuse(c) \/ Succeed(c) \/ Fail(c) \/ Cancel(c)

Next == Tick \/ \E c \in Callers : Step(c)

Spec == Init /\ [][Next]_vars

(* The clock is time.monotonic: it goes on whatever the callers do.  No     *)
(* caller is assumed to make progress.                                      *)
FairSpec == Spec /\ WF_vars(Tick)

-----------------------------------------------------------------------------
TypeOK ==
    /\ streak \in 0..Threshold
    /\ age \in 0..Reset
    /\ call \in [Callers -> {"sending"} \cup Outcomes]

(* The breaker cannot be kept open for ever.  Answers that were in flight   *)
(* when it tripped may come back as failures and each restarts the          *)
(* cooldown, and callers may be refused in the meantime as often as they    *)
(* like; still the cooldown of _before_call ends again and again.           *)
AdmitsAgain == []<>~Refusing

(* A cooldown ends by time alone: once a breaker refuses, the only way back *)
(* that does not wait for the whole reset_seconds is the success of a call  *)
(* that was already in flight; no refused, cancelled or failed call ends it *)
(* early.                                                                   *)
CooldownEndsByTimeOrSuccess ==
    [][Refusing /\ ~Refusing' =>
          \/ age' = Reset /\ streak' = Threshold
          \/ \E c \in Callers : InFlight(c) /\ call'[c] = "returned"]_vars
=============================================================================
