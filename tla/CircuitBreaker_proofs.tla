----------------------- MODULE CircuitBreaker_proofs -----------------------
(***************************************************************************)
(* Proofs about CircuitBreaker.tla for every set of callers, threshold,     *)
(* cooldown and bound: the inductive invariant BreakerInv, the two action   *)
(* properties that follow from it, and the refinement of BreakerContract.   *)
(***************************************************************************)
EXTENDS CircuitBreaker, TLAPS

USE ThresholdAssumption, ResetAssumption, NoTimeAssumption, BoundsAssumption

LEMMA InitBreakerInv == Init => BreakerInv
  BY DEF Init, BreakerInv, TypeOK, FieldsAgree, HalfOpenIsCooled, States, Flying, Settled

(* Every step keeps the fields consistent: the only steps that touch them   *)
(* are a promotion (after the cooldown), a recorded success and a recorded  *)
(* failure.                                                                 *)
LEMMA NextBreakerInv == BreakerInv /\ [Next]_vars => BreakerInv'
<1> SUFFICES ASSUME BreakerInv, [Next]_vars
             PROVE  BreakerInv'
  OBVIOUS
<1> USE DEF BreakerInv, TypeOK, FieldsAgree, HalfOpenIsCooled, States, Flying, Settled
<1>1. CASE Tick
  BY <1>1 DEF Tick
<1>2. ASSUME NEW c \in Callers, Refuse(c)
      PROVE  BreakerInv'
  BY <1>2 DEF Refuse
<1>3. ASSUME NEW c \in Callers, Admit(c)
      PROVE  BreakerInv'
  BY <1>3 DEF Admit, CoolingDown
<1>4. ASSUME NEW c \in Callers, Succeed(c)
      PROVE  BreakerInv'
  BY <1>4 DEF Succeed
<1>5. ASSUME NEW c \in Callers, Fail(c)
      PROVE  BreakerInv'
  BY <1>5 DEF Fail
<1>6. ASSUME NEW c \in Callers, Cancel(c)
      PROVE  BreakerInv'
  BY <1>6 DEF Cancel
<1>7. CASE UNCHANGED vars
  BY <1>7 DEF vars
<1> QED
  BY <1>1, <1>2, <1>3, <1>4, <1>5, <1>6, <1>7 DEF Next, Step

(* The fields of the breaker agree with one another and with the clock in   *)
(* every reachable state, for every number of concurrent callers.           *)
THEOREM BreakerSafe == Spec => []BreakerInv
  BY InitBreakerInv, NextBreakerInv, PTL DEF Spec

(* Every variable keeps its type. *)
THEOREM TypeCorrect == Spec => []TypeOK
<1>1. BreakerInv => TypeOK
  BY DEF BreakerInv
<1> QED
  BY <1>1, BreakerSafe, PTL

(* The named parts of the invariant the model checker checks. *)
THEOREM FieldsAlwaysAgree == Spec => []FieldsAgree
<1>1. BreakerInv => FieldsAgree
  BY DEF BreakerInv
<1> QED
  BY <1>1, BreakerSafe, PTL

(* HALF_OPEN is only ever seen with the whole cooldown behind it. *)
THEOREM HalfOpenAlwaysCooled == Spec => []HalfOpenIsCooled
<1>1. BreakerInv => HalfOpenIsCooled
  BY DEF BreakerInv
<1> QED
  BY <1>1, BreakerSafe, PTL

-----------------------------------------------------------------------------
(* The breaker refuses exactly in the cooldown after a tripping failure,    *)
(* though the code asks for the state OPEN and this predicate does not.     *)
LEMMA CoolingDownIsTrippedRecently == BreakerInv => (CoolingDown <=> TrippedRecently)
  BY DEF BreakerInv, TypeOK, FieldsAgree, HalfOpenIsCooled, States,
         CoolingDown, TrippedRecently

(* No call reaches the upstream while the latest failure of a tripping      *)
(* streak is younger than reset_seconds.                                    *)
THEOREM CooldownHolds == Spec => NoCallDuringCooldown
<1>1. BreakerInv /\ [Next]_vars
        => [TrippedRecently =>
              \A c \in Callers : call'[c] \in Flying => InFlight(c)]_vars
  <2> SUFFICES ASSUME BreakerInv, Next, TrippedRecently, NEW d \in Callers,
                      call'[d] \in Flying
               PROVE  InFlight(d)
    BY DEF vars, InFlight
  <2>1. call \in [Callers -> Flying \cup Settled]
    BY DEF BreakerInv, TypeOK
  <2>2. CASE Tick
    BY <2>2 DEF Tick, InFlight
  <2>3. ASSUME NEW c \in Callers, Step(c)
        PROVE  InFlight(d)
    <3>1. ~Admit(c)
      BY CoolingDownIsTrippedRecently DEF Admit
    <3> QED
      BY <2>1, <2>3, <3>1
         DEF Step, Refuse, Succeed, Fail, Cancel, InFlight, Flying, Settled
  <2> QED
    BY <2>2, <2>3 DEF Next
<1> QED
  BY <1>1, BreakerSafe, PTL DEF Spec, NoCallDuringCooldown

(* call() raises CircuitOpenError only in such a cooldown. *)
THEOREM RefusalHasCause == Spec => RefusesOnlyInCooldown
<1>1. BreakerInv /\ [Next]_vars
        => [\A c \in Callers :
              call[c] # "refused" /\ call'[c] = "refused" => TrippedRecently]_vars
  <2> SUFFICES ASSUME BreakerInv, Next, NEW d \in Callers,
                      call[d] # "refused", call'[d] = "refused"
               PROVE  TrippedRecently
    BY DEF vars
  <2>1. call \in [Callers -> Flying \cup Settled]
    BY DEF BreakerInv, TypeOK
  <2>2. ~Tick
    BY DEF Tick
  <2>3. PICK c \in Callers : Step(c)
    BY <2>2 DEF Next
  <2>4. Refuse(c)
    BY <2>1, <2>3 DEF Step, Admit, Succeed, Fail, Cancel
  <2> QED
    BY <2>4, CoolingDownIsTrippedRecently DEF Refuse
<1> QED
  BY <1>1, BreakerSafe, PTL DEF Spec, RefusesOnlyInCooldown

(* A cooldown ends when its time is up, or by a success that was in flight  *)
(* when it began: nothing else takes the failures back, and a failure makes *)
(* the cooldown start again.                                                *)
THEOREM CooldownOnlyEndsSo == Spec => CooldownEndsByTimeOrSuccess
<1>1. BreakerInv /\ [Next]_vars
        => [TrippedRecently /\ ~TrippedRecently' =>
              \/ now' = openedAt + Reset /\ failures' = failures
              \/ \E c \in Callers : InFlight(c) /\ call'[c] = "returned"]_vars
  <2> SUFFICES ASSUME BreakerInv, Next, TrippedRecently, ~TrippedRecently'
               PROVE  \/ now' = openedAt + Reset /\ failures' = failures
                      \/ \E c \in Callers : InFlight(c) /\ call'[c] = "returned"
    OBVIOUS
  <2>1. /\ failures \in Nat /\ now \in Nat /\ openedAt \in Nat
        /\ call \in [Callers -> Flying \cup Settled]
    BY DEF BreakerInv, TypeOK, FieldsAgree, TrippedRecently
  <2>2. CASE Tick
    BY <2>1, <2>2 DEF Tick, TrippedRecently
  <2>3. ASSUME NEW c \in Callers, Step(c)
        PROVE  InFlight(c) /\ call'[c] = "returned"
    <3>1. ~Refuse(c) /\ ~Admit(c) /\ ~Cancel(c)
      BY DEF Refuse, Admit, Cancel, TrippedRecently, BreakerInv, FieldsAgree
    <3>2. ~Fail(c)
      BY <2>1 DEF Fail, TrippedRecently
    <3>3. Succeed(c)
      BY <2>3, <3>1, <3>2 DEF Step
    <3> QED
      BY <2>1, <3>3 DEF Succeed
  <2> QED
    BY <2>2, <2>3 DEF Next
<1> QED
  BY <1>1, BreakerSafe, PTL DEF Spec, CooldownEndsByTimeOrSuccess
-----------------------------------------------------------------------------
(* The refinement.  A step of the breaker maps to the contract's step of    *)
(* the same name; a tick outside a cooldown maps to a stutter.              *)

LEMMA RefusingIsCoolingDown == BreakerInv => (Contract!Refusing <=> CoolingDown)
  BY DEF BreakerInv, TypeOK, FieldsAgree, HalfOpenIsCooled, States, CoolingDown,
         Contract!Refusing, Contract!Tripped, streakOf, ageOf

LEMMA InFlightIsShared ==
  ASSUME BreakerInv, NEW c \in Callers
  PROVE  Contract!InFlight(c) <=> InFlight(c)
  BY DEF BreakerInv, TypeOK, Contract!InFlight, InFlight, callOf, Flying, Settled

(* A caller's status changes in the contract as it does in the breaker. *)
LEMMA StatusOf ==
  ASSUME BreakerInv, NEW c \in Callers, NEW v \in Flying \cup Settled,
         call' = [call EXCEPT ![c] = v]
  PROVE  callOf' = [callOf EXCEPT ![c] = IF v = "probing" THEN "sending" ELSE v]
  BY DEF BreakerInv, TypeOK, callOf

LEMMA StepImplements ==
  ASSUME BreakerInv, NEW c \in Callers, Step(c)
  PROVE  Contract!Step(c)
<1> USE RefusingIsCoolingDown, InFlightIsShared
<1>1. CASE Refuse(c)
  <2>1. callOf' = [callOf EXCEPT ![c] = "refused"]
    BY <1>1, StatusOf DEF Refuse, Settled
  <2> QED
    BY <1>1, <2>1 DEF Refuse, Contract!Refuse, Contract!Step, streakOf, ageOf
<1>2. CASE Admit(c)
  <2>1. callOf' = [callOf EXCEPT ![c] = "sending"]
    BY <1>2, StatusOf DEF Admit, Flying
  <2> QED
    BY <1>2, <2>1 DEF Admit, Contract!Admit, Contract!Step, streakOf, ageOf
<1>3. CASE Succeed(c)
  <2>1. callOf' = [callOf EXCEPT ![c] = "returned"]
    BY <1>3, StatusOf DEF Succeed, Settled
  <2>2. streakOf' = 0 /\ ageOf' = 0
    BY <1>3 DEF Succeed, streakOf, ageOf
  <2> QED
    BY <1>3, <2>1, <2>2 DEF Succeed, Contract!Succeed, Contract!Step
<1>4. CASE Fail(c)
  <2>1. callOf' = [callOf EXCEPT ![c] = "raised"]
    BY <1>4, StatusOf DEF Fail, Settled
  <2>2. streakOf' = Contract!Saturated(streakOf + 1, Threshold)
    BY <1>4 DEF Fail, streakOf, Contract!Saturated, BreakerInv, TypeOK
  <2>3. ageOf' = 0
    BY <1>4 DEF Fail, ageOf, BreakerInv, TypeOK, FieldsAgree
  <2> QED
    BY <1>4, <2>1, <2>2, <2>3 DEF Fail, Contract!Fail, Contract!Step
<1>5. CASE Cancel(c)
  <2>1. callOf' = [callOf EXCEPT ![c] = "cancelled"]
    BY <1>5, StatusOf DEF Cancel, Settled
  <2> QED
    BY <1>5, <2>1 DEF Cancel, Contract!Cancel, Contract!Step, streakOf, ageOf
<1> QED
  BY <1>1, <1>2, <1>3, <1>4, <1>5 DEF Step

LEMMA TickImplements ==
  ASSUME BreakerInv, Tick
  PROVE  Contract!Tick \/ UNCHANGED Contract!vars
<1>1. UNCHANGED <<streakOf, callOf>>
  BY DEF Tick, streakOf, callOf
<1>2. CASE CoolingDown
  <2>1. ageOf' = ageOf + 1
    BY <1>2 DEF Tick, CoolingDown, ageOf, BreakerInv, TypeOK, FieldsAgree
  <2> QED
    BY <1>1, <1>2, <2>1, RefusingIsCoolingDown DEF Contract!Tick
<1>3. CASE ~CoolingDown
  <2>1. ageOf' = ageOf
    BY <1>3 DEF Tick, CoolingDown, ageOf, BreakerInv, TypeOK, FieldsAgree,
                HalfOpenIsCooled, States
  <2> QED
    BY <1>1, <2>1 DEF Contract!vars
<1> QED
  BY <1>2, <1>3

(* The three-state breaker with its clock implements the contract: what it  *)
(* lets through depends only on the failures since the last success and on  *)
(* the age of the latest.                                                   *)
THEOREM BreakerImplementsContract == Spec => ImplementsContract
<1>1. Init => Contract!Init
  BY DEF Init, Contract!Init, streakOf, ageOf, callOf
<1>2. BreakerInv /\ [Next]_vars => [Contract!Next]_(Contract!vars)
  <2> SUFFICES ASSUME BreakerInv, [Next]_vars
               PROVE  Contract!Next \/ UNCHANGED Contract!vars
    OBVIOUS
  <2>1. CASE Tick
    BY <2>1, TickImplements DEF Contract!Next
  <2>2. ASSUME NEW c \in Callers, Step(c)
        PROVE  Contract!Next
    BY <2>2, StepImplements DEF Contract!Next
  <2>3. CASE UNCHANGED vars
    BY <2>3 DEF vars, Contract!vars, streakOf, ageOf, callOf
  <2> QED
    BY <2>1, <2>2, <2>3 DEF Next
<1> QED
  BY <1>1, <1>2, BreakerSafe, PTL DEF Spec, ImplementsContract, Contract!Spec
=============================================================================
