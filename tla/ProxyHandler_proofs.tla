------------------------- MODULE ProxyHandler_proofs ------------------------
(***************************************************************************)
(* Proofs about ProxyHandler.tla for every set of requests and bodies,      *)
(* every chain of distinct middlewares, both PII policies, every pool and   *)
(* every breaker; at the end, what the breaker's contract promises its      *)
(* callers.                                                                 *)
(***************************************************************************)
EXTENDS ProxyHandler, FiniteSetTheorems, SequenceTheorems, TLAPS

USE ChainAssumption, BodiesAssumption, BreakerAssumption, PoolAssumption, PolicyAssumption

-----------------------------------------------------------------------------
(* The inductive invariant says of each request, whatever its stage, what   *)
(* has been told to the ledger and the client, what has gone out, what the  *)
(* chain has approved so far, and what it holds of the shared breaker and   *)
(* pool.                                                                    *)
Told(t) ==
    \/ /\ stage[t] \in {"idle", "screening", "queued", "sending"}
       /\ outcome[t] = "none" /\ audited[t] = <<>> /\ reply[t] = NoReply
    \/ /\ stage[t] = "decided"
       /\ outcome[t] # "none" /\ audited[t] = <<>> /\ reply[t] = NoReply
    \/ /\ stage[t] = "recorded"
       /\ outcome[t] # "none" /\ audited[t] = <<RecordOf(t)>> /\ reply[t] = NoReply
    \/ /\ stage[t] \in {"relaying", "closing"}
       /\ outcome[t] = "relay" /\ audited[t] = <<RecordOf(t)>> /\ reply[t] = 200
    \/ /\ stage[t] = "done"
       /\ outcome[t] # "none" /\ audited[t] = <<RecordOf(t)>> /\ reply[t] = StatusOf(outcome[t])
    \/ /\ stage[t] = "done"
       /\ outcome[t] = "none" /\ audited[t] = <<>> /\ reply[t] \in {400, 404, 500}
    \/ /\ stage[t] = "done"
       /\ outcome[t] # "none" /\ audited[t] = <<>> /\ reply[t] = 500

Wired(t) ==
    /\ stage[t] \in {"idle", "screening", "queued"} => sent[t] = <<>>
    /\ sent[t] # <<>> => sent[t] = <<body[t]>> /\ step[t] > Len(Chain)
    /\ outcome[t] \in Middlewares => sent[t] = <<>>
    /\ outcome[t] = "relay" \/ stage[t] = "sending" => sent[t] = <<body[t]>>

Screened(t) ==
    /\ stage[t] = "idle" => step[t] = 0
    /\ stage[t] = "screening" => step[t] > 0
    /\ stage[t] \in {"queued", "sending"} => step[t] > Len(Chain)
    /\ rewritten[t] <=> \E i \in 1..Len(Chain) : i < step[t] /\ Mutates(Chain[i], received[t])
    /\ IF rewritten[t] THEN "pii" \notin body[t] ELSE body[t] = received[t]
    /\ \A i \in 1..Len(Chain) : i < step[t] => Passes(Chain[i], Shown(t, i, body[t]))

Shares(t) ==
    /\ call[t] = "sending" <=> stage[t] \in {"queued", "sending"}
    /\ t \in held =>
          \/ stage[t] = "sending"
          \/ stage[t] \in {"decided", "recorded", "relaying", "closing"} /\ outcome[t] = "relay"
          \/ Abandoned(t)

RequestInv(t) == Told(t) /\ Wired(t) /\ Screened(t) /\ Shares(t)

PoolInv == IsFiniteSet(held) /\ Cardinality(held) <= Pool

HandlerInv == TypeOK /\ (\A t \in Requests : RequestInv(t)) /\ PoolInv

-----------------------------------------------------------------------------
(* A step of one request leaves the others as they are. *)
Same(u) ==
    /\ stage'[u] = stage[u] /\ step'[u] = step[u]
    /\ received'[u] = received[u] /\ body'[u] = body[u]
    /\ rewritten'[u] = rewritten[u] /\ outcome'[u] = outcome[u] /\ sent'[u] = sent[u]
    /\ audited'[u] = audited[u] /\ reply'[u] = reply[u] /\ call'[u] = call[u]
    /\ u \in held' <=> u \in held

OnlyMoves(t) == \A u \in Requests \ {t} : Same(u)

LEMMA SameKeeps ==
  ASSUME NEW u \in Requests, RequestInv(u), Same(u)
  PROVE  RequestInv(u)'
<1> USE DEF RequestInv, Same
<1>1. RecordOf(u)' = RecordOf(u)
  BY DEF RecordOf
<1>2. Told(u)'
  BY <1>1 DEF Told
<1>3. Wired(u)'
  BY DEF Wired
<1>4. Screened(u)'
  BY DEF Screened, Shown
<1>5. Shares(u)'
  BY DEF Shares, Abandoned
<1> QED
  BY <1>2, <1>3, <1>4, <1>5

LEMMA RecordTyped ==
  ASSUME TypeOK, NEW t \in Requests, outcome[t] # "none"
  PROVE  RecordOf(t) \in Records
BY DEF TypeOK, RecordOf, Records, Decisions, Middlewares

LEMMA StatusTyped ==
  /\ StatusOf("relay") = 200
  /\ \A o \in Decisions : StatusOf(o) \in {200, 403, 413, 502}
BY DEF StatusOf, Decisions, Middlewares

(* The middleware a screening request is at. *)
LEMMA CurrentTyped ==
  ASSUME TypeOK, NEW t \in Requests, RequestInv(t), Screening(t)
  PROVE  step[t] \in 1..Len(Chain) /\ Len(Chain) \in Nat /\ Current(t) \in Middlewares
<1>1. Len(Chain) \in Nat /\ step[t] \in 1..Len(Chain)
  BY LenProperties DEF TypeOK, RequestInv, Screened, Screening
<1> QED
  BY <1>1, ElementOfSeq DEF Current

(* Only pii_scan rewrites, so only one middleware of a chain does.          *)
LEMMA OneMutates ==
  ASSUME NEW i \in 1..Len(Chain), NEW j \in 1..Len(Chain), NEW b, NEW c,
         Mutates(Chain[i], b), Mutates(Chain[j], c)
  PROVE  i = j
BY DEF Mutates

LEMMA MutatorRejectsNothing ==
  ASSUME NEW m, NEW b, Mutates(m, b)
  PROVE  ~Rejects(m, b)
BY DEF Mutates, Rejects

LEMMA RedactedTyped ==
  ASSUME NEW b \in SUBSET Traits, NEW c \in Redacted(b)
  PROVE  c \in SUBSET Traits /\ "pii" \notin c
<1>1. {"secret", "split_pii", "long"} \subseteq Traits
  BY DEF Traits
<1> QED
  BY <1>1 DEF Redacted

(* The breaker's own variables keep their types whatever a handler does. *)
LEMMA BreakerKeepsTypes ==
  ASSUME Breaker!TypeOK, NEW t \in Requests,
         \/ Breaker!Admit(t) \/ Breaker!Refuse(t) \/ Breaker!Succeed(t) \/ Breaker!Fail(t)
         \/ Breaker!Tick \/ UNCHANGED breaker
  PROVE  Breaker!TypeOK'
BY DEF Breaker!TypeOK, Breaker!Admit, Breaker!Refuse, Breaker!Succeed, Breaker!Fail,
       Breaker!Tick, Breaker!Refusing, Breaker!Tripped, Breaker!Saturated, Breaker!Outcomes,
       breaker

-----------------------------------------------------------------------------
(* What every step of a request t establishes: types are kept, no other     *)
(* request moves, and t satisfies the invariant again.                      *)
Moves(t) == TypeOK' /\ OnlyMoves(t) /\ RequestInv(t)'

LEMMA ReceiveMoves ==
  ASSUME TypeOK, NEW t \in Requests, RequestInv(t), NEW b \in Bodies, Receive(t, b)
  PROVE  Moves(t)
<1> USE DEF Receive, Goto, wire, told, breaker
<1>1. Breaker!TypeOK'
  BY BreakerKeepsTypes DEF TypeOK
<1>2. TypeOK'
  BY <1>1 DEF TypeOK, Stages, Decisions, Middlewares, Traits, NoReply
<1>3. OnlyMoves(t)
  BY DEF OnlyMoves, Same, TypeOK, Breaker!TypeOK
<1>4. Told(t)'
  BY DEF RequestInv, Told, TypeOK, RecordOf, NoReply
<1>5. Wired(t)'
  BY DEF RequestInv, Told, Wired, TypeOK, Middlewares
<1>6. Screened(t)'
  BY DEF RequestInv, Screened, Shown, TypeOK
<1>7. Shares(t)'
  BY DEF RequestInv, Told, Shares, TypeOK, Breaker!TypeOK, Abandoned
<1> QED
  BY <1>2, <1>3, <1>4, <1>5, <1>6, <1>7 DEF Moves, RequestInv

LEMMA TurnAwayMoves ==
  ASSUME TypeOK, NEW t \in Requests, RequestInv(t), NEW status \in {400, 404, 500}, TurnAway(t, status)
  PROVE  Moves(t)
<1> USE DEF TurnAway, Goto, Answer, envelope, wire, breaker
<1>1. Breaker!TypeOK'
  BY BreakerKeepsTypes DEF TypeOK
<1>2. TypeOK'
  BY <1>1 DEF TypeOK, Stages, Decisions, Middlewares, Traits, NoReply
<1>3. OnlyMoves(t)
  BY DEF OnlyMoves, Same, TypeOK, Breaker!TypeOK
<1>4. Told(t)'
  BY DEF RequestInv, Told, TypeOK, RecordOf, NoReply
<1>5. Wired(t)'
  BY DEF RequestInv, Told, Wired, TypeOK, Middlewares
<1>6. Screened(t)'
  BY DEF RequestInv, Screened, Shown, TypeOK
<1>7. Shares(t)'
  BY DEF RequestInv, Told, Shares, TypeOK, Breaker!TypeOK, Abandoned
<1> QED
  BY <1>2, <1>3, <1>4, <1>5, <1>6, <1>7 DEF Moves, RequestInv

LEMMA ContinueMoves ==
  ASSUME TypeOK, NEW t \in Requests, RequestInv(t), Continue(t)
  PROVE  Moves(t)
<1> USE DEF Continue, Screening, Current, wire, told, breaker
<1>1. Breaker!TypeOK'
  BY BreakerKeepsTypes DEF TypeOK
<1>2. TypeOK'
  BY <1>1 DEF TypeOK, Stages, Decisions, Middlewares, Traits, NoReply
<1>3. OnlyMoves(t)
  BY DEF OnlyMoves, Same, TypeOK, Breaker!TypeOK
<1>4. Told(t)'
  BY DEF RequestInv, Told, TypeOK, RecordOf, NoReply
<1>5. Wired(t)'
  BY DEF RequestInv, Told, Wired, TypeOK, Middlewares
<1>6. Screened(t)'
  <2>1. step'[t] = step[t] + 1 /\ step[t] \in 1..Len(Chain) /\ Len(Chain) \in Nat
    BY CurrentTyped DEF TypeOK
  <2>2. /\ body'[t] = body[t] /\ received'[t] = received[t] /\ rewritten'[t] = rewritten[t]
        /\ stage'[t] = "screening" /\ rewritten[t] \in BOOLEAN
    BY DEF TypeOK
  <2>3. Passes(Chain[step[t]], body[t]) /\ ~Mutates(Chain[step[t]], body[t])
    BY DEF Passes
  <2>4. \A i \in 1..Len(Chain) : i < step[t] + 1 => i < step[t] \/ i = step[t]
    BY <2>1
  <2>5. rewritten[t] <=> \E i \in 1..Len(Chain) : i < step[t] + 1 /\ Mutates(Chain[i], received[t])
    <3>1. Mutates(Chain[step[t]], received[t]) => rewritten[t]
      BY <2>2, <2>3 DEF RequestInv, Screened
    <3>2. \A i \in 1..Len(Chain) : i < step[t] => i < step[t] + 1
      BY <2>1
    <3> QED
      BY <2>4, <3>1, <3>2 DEF RequestInv, Screened
  <2>6. Shown(t, step[t], body[t]) = body[t]
    <3>1. SUFFICES ASSUME NEW j \in step[t]..Len(Chain), Mutates(Chain[j], received[t]), rewritten[t]
                   PROVE  FALSE
      BY <2>2 DEF Shown, RequestInv, Screened
    <3>2. PICK i \in 1..Len(Chain) : i < step[t] /\ Mutates(Chain[i], received[t])
      BY <3>1 DEF RequestInv, Screened
    <3> QED
      BY <2>1, <3>1, <3>2, OneMutates
  <2>7. \A i \in 1..Len(Chain) : i < step[t] + 1 => Passes(Chain[i], Shown(t, i, body[t]))
    BY <2>3, <2>4, <2>6 DEF RequestInv, Screened
  <2>8. \A i \in 1..Len(Chain) : Shown(t, i, body[t])' = Shown(t, i, body[t])
    BY <2>2 DEF Shown
  <2>9. IF rewritten[t] THEN "pii" \notin body[t] ELSE body[t] = received[t]
    BY Zenon DEF RequestInv, Screened
  <2> HIDE DEF Continue, Screening, Current
  <2>10. (stage'[t] = "screening" => step'[t] > 0) /\ step'[t] \in Nat
    BY <2>1
  <2>11. \A i \in 1..Len(Chain) : i < step'[t] => Passes(Chain[i], Shown(t, i, body[t])')
    BY <2>1, <2>7, <2>8
  <2>12. rewritten'[t] <=> \E i \in 1..Len(Chain) : i < step'[t] /\ Mutates(Chain[i], received'[t])
    BY <2>1, <2>2, <2>5
  <2>13. IF rewritten'[t] THEN "pii" \notin body'[t] ELSE body'[t] = received'[t]
    BY <2>2, <2>9
  <2>14. \A i \in 1..Len(Chain) : Passes(Chain[i], Shown(t, i, body[t]))' = Passes(Chain[i], Shown(t, i, body[t])')
    BY Zenon DEF Passes, Raises, Rejects, Mutates
  <2>15. \A i \in 1..Len(Chain) : Mutates(Chain[i], received[t])' = Mutates(Chain[i], received'[t])
    BY Zenon DEF Mutates
  <2> QED
    BY <2>2, <2>10, <2>11, <2>12, <2>13, <2>14, <2>15 DEF Screened
<1>7. Shares(t)'
  BY DEF RequestInv, Told, Shares, TypeOK, Breaker!TypeOK, Abandoned
<1> QED
  BY <1>2, <1>3, <1>4, <1>5, <1>6, <1>7 DEF Moves, RequestInv

LEMMA MutateMoves ==
  ASSUME TypeOK, NEW t \in Requests, RequestInv(t), Mutate(t)
  PROVE  Moves(t)
<1> USE DEF Mutate, Screening, Current, wire, told, breaker
<1>1. Breaker!TypeOK'
  BY BreakerKeepsTypes DEF TypeOK
<1>2. TypeOK'
  <2>1. PICK c \in Redacted(body[t]) : body' = [body EXCEPT ![t] = c]
    OBVIOUS
  <2>2. body[t] \in SUBSET Traits
    BY DEF TypeOK
  <2>3. c \in SUBSET Traits
    BY <2>2, RedactedTyped
  <2> QED
    BY <1>1, <2>1, <2>3 DEF TypeOK, Stages, Decisions, Middlewares, NoReply
<1>3. OnlyMoves(t)
  BY DEF OnlyMoves, Same, TypeOK, Breaker!TypeOK
<1>4. Told(t)'
  BY DEF RequestInv, Told, TypeOK, RecordOf, NoReply
<1>5. Wired(t)'
  BY DEF RequestInv, Told, Wired, TypeOK, Middlewares
<1>6. Screened(t)'
  <2>1. PICK c \in Redacted(body[t]) : body' = [body EXCEPT ![t] = c]
    OBVIOUS
  <2>2. step'[t] = step[t] + 1 /\ step[t] \in 1..Len(Chain) /\ Len(Chain) \in Nat
    BY CurrentTyped DEF TypeOK
  <2>3. /\ body'[t] = c /\ received'[t] = received[t] /\ rewritten'[t] = TRUE
        /\ stage'[t] = "screening" /\ body[t] \in SUBSET Traits /\ rewritten[t] \in BOOLEAN
    BY <2>1 DEF TypeOK
  <2>4. /\ Mutates(Chain[step[t]], body[t]) /\ ~Raises(Chain[step[t]], body[t])
        /\ ~Rejects(Chain[step[t]], body[t])
    BY MutatorRejectsNothing
  <2>5. ~rewritten[t]
    <3>1. ASSUME NEW i \in 1..Len(Chain), i < step[t], Mutates(Chain[i], received[t])
          PROVE  FALSE
      <4>1. i = step[t]
        BY <2>2, <2>4, <3>1, OneMutates
      <4> QED
        BY <2>2, <3>1, <4>1
    <3> QED
      BY <3>1 DEF RequestInv, Screened
  <2>6. body[t] = received[t]
    BY <2>5 DEF RequestInv, Screened
  <2>7. \A i \in 1..Len(Chain) : i < step[t] + 1 =>
            /\ i < step[t] \/ i = step[t]
            /\ step[t] \in i..Len(Chain)
    BY <2>2
  <2>8. \A i \in 1..Len(Chain) : i < step[t] + 1 =>
            Shown(t, i, body[t]) = received[t] /\ Shown(t, i, body[t])' = received[t]
    BY <2>3, <2>4, <2>6, <2>7 DEF Shown
  <2>9. \A i \in 1..Len(Chain) : i < step[t] + 1 => Passes(Chain[i], received[t])
    BY <2>4, <2>6, <2>7, <2>8 DEF RequestInv, Screened, Passes
  <2>10. \E i \in 1..Len(Chain) : i < step[t] + 1 /\ Mutates(Chain[i], received[t])
    BY <2>2, <2>4, <2>6
  <2>11. "pii" \notin c
    BY <2>1, <2>3, RedactedTyped
  <2> HIDE DEF Mutate, Screening, Current
  <2>12. (stage'[t] = "screening" => step'[t] > 0) /\ step'[t] \in Nat
    BY <2>2
  <2>13. \A i \in 1..Len(Chain) : i < step'[t] => Passes(Chain[i], Shown(t, i, body[t])')
    BY <2>2, <2>8, <2>9
  <2>14. \E i \in 1..Len(Chain) : i < step'[t] /\ Mutates(Chain[i], received'[t])
    BY <2>2, <2>3, <2>10
  <2>15. \A i \in 1..Len(Chain) : Passes(Chain[i], Shown(t, i, body[t]))' = Passes(Chain[i], Shown(t, i, body[t])')
    BY Zenon DEF Passes, Raises, Rejects, Mutates
  <2>16. \A i \in 1..Len(Chain) : Mutates(Chain[i], received[t])' = Mutates(Chain[i], received'[t])
    BY Zenon DEF Mutates
  <2> QED
    BY <2>3, <2>11, <2>12, <2>13, <2>14, <2>15, <2>16 DEF Screened
<1>7. Shares(t)'
  BY DEF RequestInv, Told, Shares, TypeOK, Breaker!TypeOK, Abandoned
<1> QED
  BY <1>2, <1>3, <1>4, <1>5, <1>6, <1>7 DEF Moves, RequestInv

LEMMA RejectMoves ==
  ASSUME TypeOK, NEW t \in Requests, RequestInv(t), Reject(t)
  PROVE  Moves(t)
<1> USE DEF Reject, Screening, Current, Goto, Decide, envelope, wire, told, breaker
<1>1. Breaker!TypeOK'
  BY BreakerKeepsTypes DEF TypeOK
<1>2. TypeOK'
  <2>1. Current(t) \in Middlewares
    BY CurrentTyped
  <2> QED
    BY <1>1, <2>1 DEF TypeOK, Stages, Decisions, NoReply
<1>3. OnlyMoves(t)
  BY DEF OnlyMoves, Same, TypeOK, Breaker!TypeOK
<1>4. Told(t)'
  <2>1. Current(t) # "none"
    BY CurrentTyped DEF Middlewares
  <2> QED
    BY <2>1 DEF RequestInv, Told, TypeOK
<1>5. Wired(t)'
  <2>1. Current(t) # "relay"
    BY CurrentTyped DEF Middlewares
  <2> QED
    BY <2>1 DEF RequestInv, Wired, TypeOK
<1>6. Screened(t)'
  BY DEF RequestInv, Screened, Shown, TypeOK
<1>7. Shares(t)'
  BY DEF RequestInv, Told, Shares, TypeOK, Breaker!TypeOK, Abandoned
<1> QED
  BY <1>2, <1>3, <1>4, <1>5, <1>6, <1>7 DEF Moves, RequestInv

LEMMA CrashScreeningMoves ==
  ASSUME TypeOK, NEW t \in Requests, RequestInv(t), CrashScreening(t)
  PROVE  Moves(t)
<1> USE DEF CrashScreening, Screening, Goto, Answer, envelope, wire, breaker
<1>1. Breaker!TypeOK'
  BY BreakerKeepsTypes DEF TypeOK
<1>2. TypeOK'
  BY <1>1 DEF TypeOK, Stages, Decisions, Middlewares, Traits, NoReply
<1>3. OnlyMoves(t)
  BY DEF OnlyMoves, Same, TypeOK, Breaker!TypeOK
<1>4. Told(t)'
  BY DEF RequestInv, Told, TypeOK, RecordOf, NoReply
<1>5. Wired(t)'
  BY DEF RequestInv, Told, Wired, TypeOK, Middlewares
<1>6. Screened(t)'
  BY DEF RequestInv, Screened, Shown, TypeOK
<1>7. Shares(t)'
  BY DEF RequestInv, Told, Shares, TypeOK, Breaker!TypeOK, Abandoned
<1> QED
  BY <1>2, <1>3, <1>4, <1>5, <1>6, <1>7 DEF Moves, RequestInv

LEMMA UnroutableMoves ==
  ASSUME TypeOK, NEW t \in Requests, RequestInv(t), Unroutable(t)
  PROVE  Moves(t)
<1> USE DEF Unroutable, Approved, Goto, Decide, envelope, wire, told, breaker
<1>1. Breaker!TypeOK'
  BY BreakerKeepsTypes DEF TypeOK
<1>2. TypeOK'
  BY <1>1 DEF TypeOK, Stages, Decisions, Middlewares, Traits, NoReply
<1>3. OnlyMoves(t)
  BY DEF OnlyMoves, Same, TypeOK, Breaker!TypeOK
<1>4. Told(t)'
  BY DEF RequestInv, Told, TypeOK, RecordOf, NoReply
<1>5. Wired(t)'
  BY DEF RequestInv, Told, Wired, TypeOK, Middlewares
<1>6. Screened(t)'
  BY DEF RequestInv, Screened, Shown, TypeOK
<1>7. Shares(t)'
  BY DEF RequestInv, Told, Shares, TypeOK, Breaker!TypeOK, Abandoned
<1> QED
  BY <1>2, <1>3, <1>4, <1>5, <1>6, <1>7 DEF Moves, RequestInv

LEMMA RefuseCallMoves ==
  ASSUME TypeOK, NEW t \in Requests, RequestInv(t), RefuseCall(t)
  PROVE  Moves(t)
<1> USE DEF RefuseCall, Approved, Goto, Decide, envelope, wire, told, Breaker!Refuse
<1>1. Breaker!TypeOK'
  BY BreakerKeepsTypes DEF TypeOK
<1>2. TypeOK'
  BY <1>1 DEF TypeOK, Stages, Decisions, Middlewares, Traits, NoReply
<1>3. OnlyMoves(t)
  BY DEF OnlyMoves, Same, TypeOK, Breaker!TypeOK
<1>4. Told(t)'
  BY DEF RequestInv, Told, TypeOK, RecordOf, NoReply
<1>5. Wired(t)'
  BY DEF RequestInv, Told, Wired, TypeOK, Middlewares
<1>6. Screened(t)'
  BY DEF RequestInv, Screened, Shown, TypeOK
<1>7. Shares(t)'
  BY DEF RequestInv, Told, Shares, TypeOK, Breaker!TypeOK, Abandoned
<1> QED
  BY <1>2, <1>3, <1>4, <1>5, <1>6, <1>7 DEF Moves, RequestInv

LEMMA AdmitCallMoves ==
  ASSUME TypeOK, NEW t \in Requests, RequestInv(t), AdmitCall(t)
  PROVE  Moves(t)
<1> USE DEF AdmitCall, Approved, Goto, envelope, wire, told, Breaker!Admit
<1>1. Breaker!TypeOK'
  BY BreakerKeepsTypes DEF TypeOK
<1>2. TypeOK'
  BY <1>1 DEF TypeOK, Stages, Decisions, Middlewares, Traits, NoReply
<1>3. OnlyMoves(t)
  BY DEF OnlyMoves, Same, TypeOK, Breaker!TypeOK
<1>4. Told(t)'
  BY DEF RequestInv, Told, TypeOK, RecordOf, NoReply
<1>5. Wired(t)'
  BY DEF RequestInv, Told, Wired, TypeOK, Middlewares
<1>6. Screened(t)'
  BY DEF RequestInv, Screened, Shown, TypeOK
<1>7. Shares(t)'
  BY DEF RequestInv, Told, Shares, TypeOK, Breaker!TypeOK, Abandoned
<1> QED
  BY <1>2, <1>3, <1>4, <1>5, <1>6, <1>7 DEF Moves, RequestInv

LEMMA CrashCallMoves ==
  ASSUME TypeOK, NEW t \in Requests, RequestInv(t), CrashCall(t)
  PROVE  Moves(t)
<1> USE DEF CrashCall, Goto, Answer, envelope, wire, Breaker!Fail
<1>1. Breaker!TypeOK'
  BY BreakerKeepsTypes DEF TypeOK
<1>2. TypeOK'
  BY <1>1 DEF TypeOK, Stages, Decisions, Middlewares, Traits, NoReply
<1>3. OnlyMoves(t)
  BY DEF OnlyMoves, Same, TypeOK, Breaker!TypeOK
<1>4. Told(t)'
  BY DEF RequestInv, Told, TypeOK, RecordOf, NoReply
<1>5. Wired(t)'
  BY DEF RequestInv, Told, Wired, TypeOK, Middlewares
<1>6. Screened(t)'
  BY DEF RequestInv, Screened, Shown, TypeOK
<1>7. Shares(t)'
  BY DEF RequestInv, Told, Shares, TypeOK, Breaker!TypeOK, Abandoned
<1> QED
  BY <1>2, <1>3, <1>4, <1>5, <1>6, <1>7 DEF Moves, RequestInv

LEMMA ConnectMoves ==
  ASSUME TypeOK, NEW t \in Requests, RequestInv(t), Connect(t)
  PROVE  Moves(t)
<1> USE DEF Connect, Goto, envelope, told, breaker
<1>1. Breaker!TypeOK'
  BY BreakerKeepsTypes DEF TypeOK
<1>2. TypeOK'
  BY <1>1 DEF TypeOK, Stages, Decisions, Middlewares, Traits, NoReply
<1>3. OnlyMoves(t)
  BY DEF OnlyMoves, Same, TypeOK, Breaker!TypeOK
<1>4. Told(t)'
  BY DEF RequestInv, Told, TypeOK, RecordOf, NoReply
<1>5. Wired(t)'
  <2>1. sent[t] = <<>> /\ step[t] > Len(Chain) /\ outcome[t] = "none"
    BY DEF RequestInv, Told, Wired, Screened
  <2>2. sent'[t] = <<body[t]>>
    BY <2>1 DEF TypeOK
  <2> QED
    BY <2>1, <2>2 DEF Wired, TypeOK, Middlewares
<1>6. Screened(t)'
  BY DEF RequestInv, Screened, Shown, TypeOK
<1>7. Shares(t)'
  BY DEF RequestInv, Told, Shares, TypeOK, Breaker!TypeOK, Abandoned
<1> QED
  BY <1>2, <1>3, <1>4, <1>5, <1>6, <1>7 DEF Moves, RequestInv

LEMMA FailCallMoves ==
  ASSUME TypeOK, NEW t \in Requests, RequestInv(t), FailCall(t)
  PROVE  Moves(t)
<1> USE DEF FailCall, Goto, Decide, envelope, told, Breaker!Fail
<1>1. Breaker!TypeOK'
  BY BreakerKeepsTypes DEF TypeOK
<1>2. TypeOK'
  BY <1>1 DEF TypeOK, Stages, Decisions, Middlewares, Traits, NoReply
<1>3. OnlyMoves(t)
  BY DEF OnlyMoves, Same, TypeOK, Breaker!TypeOK
<1>4. Told(t)'
  BY DEF RequestInv, Told, TypeOK, RecordOf, NoReply
<1>5. Wired(t)'
  BY DEF RequestInv, Told, Wired, TypeOK, Middlewares
<1>6. Screened(t)'
  BY DEF RequestInv, Screened, Shown, TypeOK
<1>7. Shares(t)'
  BY DEF RequestInv, Told, Shares, TypeOK, Breaker!TypeOK, Abandoned
<1> QED
  BY <1>2, <1>3, <1>4, <1>5, <1>6, <1>7 DEF Moves, RequestInv

LEMMA ReturnCallMoves ==
  ASSUME TypeOK, NEW t \in Requests, RequestInv(t), ReturnCall(t)
  PROVE  Moves(t)
<1> USE DEF ReturnCall, Goto, Decide, envelope, wire, told, Breaker!Succeed
<1>1. Breaker!TypeOK'
  BY BreakerKeepsTypes DEF TypeOK
<1>2. TypeOK'
  BY <1>1 DEF TypeOK, Stages, Decisions, Middlewares, Traits, NoReply
<1>3. OnlyMoves(t)
  BY DEF OnlyMoves, Same, TypeOK, Breaker!TypeOK
<1>4. Told(t)'
  BY DEF RequestInv, Told, TypeOK, RecordOf, NoReply
<1>5. Wired(t)'
  BY DEF RequestInv, Told, Wired, TypeOK, Middlewares
<1>6. Screened(t)'
  BY DEF RequestInv, Screened, Shown, TypeOK
<1>7. Shares(t)'
  BY DEF RequestInv, Told, Shares, TypeOK, Breaker!TypeOK, Abandoned
<1> QED
  BY <1>2, <1>3, <1>4, <1>5, <1>6, <1>7 DEF Moves, RequestInv

LEMMA FailRelayMoves ==
  ASSUME TypeOK, NEW t \in Requests, RequestInv(t), FailRelay(t)
  PROVE  Moves(t)
<1> USE DEF FailRelay, Goto, Answer, envelope, wire, Breaker!Succeed
<1>1. Breaker!TypeOK'
  BY BreakerKeepsTypes DEF TypeOK
<1>2. TypeOK'
  BY <1>1 DEF TypeOK, Stages, Decisions, Middlewares, Traits, NoReply
<1>3. OnlyMoves(t)
  BY DEF OnlyMoves, Same, TypeOK, Breaker!TypeOK
<1>4. Told(t)'
  BY DEF RequestInv, Told, TypeOK, RecordOf, NoReply
<1>5. Wired(t)'
  BY DEF RequestInv, Told, Wired, TypeOK, Middlewares
<1>6. Screened(t)'
  BY DEF RequestInv, Screened, Shown, TypeOK
<1>7. Shares(t)'
  BY DEF RequestInv, Told, Shares, TypeOK, Breaker!TypeOK, Abandoned
<1> QED
  BY <1>2, <1>3, <1>4, <1>5, <1>6, <1>7 DEF Moves, RequestInv

LEMMA AuditMoves ==
  ASSUME TypeOK, NEW t \in Requests, RequestInv(t), Audit(t)
  PROVE  Moves(t)
<1> USE DEF Audit, Goto, envelope, wire, breaker
<1>1. Breaker!TypeOK'
  BY BreakerKeepsTypes DEF TypeOK
<1>2. TypeOK'
  <2>1. RecordOf(t) \in Records
    BY RecordTyped DEF RequestInv, Told
  <2>2. Append(audited[t], RecordOf(t)) \in Seq(Records)
    BY <2>1, AppendProperties DEF TypeOK
  <2> QED
    BY <1>1, <2>2 DEF TypeOK, Stages
<1>3. OnlyMoves(t)
  BY DEF OnlyMoves, Same, TypeOK, Breaker!TypeOK
<1>4. Told(t)'
  BY DEF RequestInv, Told, TypeOK, RecordOf, NoReply
<1>5. Wired(t)'
  BY DEF RequestInv, Told, Wired, TypeOK, Middlewares
<1>6. Screened(t)'
  BY DEF RequestInv, Screened, Shown, TypeOK
<1>7. Shares(t)'
  BY DEF RequestInv, Told, Shares, TypeOK, Breaker!TypeOK, Abandoned
<1> QED
  BY <1>2, <1>3, <1>4, <1>5, <1>6, <1>7 DEF Moves, RequestInv

LEMMA CrashAuditMoves ==
  ASSUME TypeOK, NEW t \in Requests, RequestInv(t), CrashAudit(t)
  PROVE  Moves(t)
<1> USE DEF CrashAudit, Goto, Answer, envelope, wire, breaker
<1>1. Breaker!TypeOK'
  BY BreakerKeepsTypes DEF TypeOK
<1>2. TypeOK'
  BY <1>1 DEF TypeOK, Stages, Decisions, Middlewares, Traits, NoReply
<1>3. OnlyMoves(t)
  BY DEF OnlyMoves, Same, TypeOK, Breaker!TypeOK
<1>4. Told(t)'
  BY DEF RequestInv, Told, TypeOK, RecordOf, NoReply
<1>5. Wired(t)'
  BY DEF RequestInv, Told, Wired, TypeOK, Middlewares
<1>6. Screened(t)'
  BY DEF RequestInv, Screened, Shown, TypeOK
<1>7. Shares(t)'
  BY DEF RequestInv, Told, Shares, TypeOK, Breaker!TypeOK, Abandoned
<1> QED
  BY <1>2, <1>3, <1>4, <1>5, <1>6, <1>7 DEF Moves, RequestInv

LEMMA RespondMoves ==
  ASSUME TypeOK, NEW t \in Requests, RequestInv(t), Respond(t)
  PROVE  Moves(t)
<1> USE DEF Respond, Goto, envelope, wire, breaker
<1>1. Breaker!TypeOK'
  BY BreakerKeepsTypes DEF TypeOK
<1>2. TypeOK'
  <2>1. StatusOf(outcome[t]) \in {200, 403, 413, 502}
    BY StatusTyped DEF RequestInv, Told, TypeOK
  <2> QED
    BY <1>1, <2>1 DEF TypeOK, Stages
<1>3. OnlyMoves(t)
  BY DEF OnlyMoves, Same, TypeOK, Breaker!TypeOK
<1>4. Told(t)'
  <2>1. RecordOf(t)' = RecordOf(t)
    BY DEF RecordOf
  <2> QED
    BY <2>1, StatusTyped DEF RequestInv, Told, TypeOK
<1>5. Wired(t)'
  BY DEF RequestInv, Told, Wired, TypeOK, Middlewares
<1>6. Screened(t)'
  BY DEF RequestInv, Screened, Shown, TypeOK
<1>7. Shares(t)'
  BY DEF RequestInv, Told, Shares, TypeOK, Breaker!TypeOK, Abandoned
<1> QED
  BY <1>2, <1>3, <1>4, <1>5, <1>6, <1>7 DEF Moves, RequestInv

LEMMA DrainMoves ==
  ASSUME TypeOK, NEW t \in Requests, RequestInv(t), Drain(t)
  PROVE  Moves(t)
<1> USE DEF Drain, Goto, envelope, told, breaker
<1>1. Breaker!TypeOK'
  BY BreakerKeepsTypes DEF TypeOK
<1>2. TypeOK'
  BY <1>1 DEF TypeOK, Stages, Decisions, Middlewares, Traits, NoReply
<1>3. OnlyMoves(t)
  BY DEF OnlyMoves, Same, TypeOK, Breaker!TypeOK
<1>4. Told(t)'
  BY DEF RequestInv, Told, TypeOK, RecordOf, NoReply
<1>5. Wired(t)'
  BY DEF RequestInv, Told, Wired, TypeOK, Middlewares
<1>6. Screened(t)'
  BY DEF RequestInv, Screened, Shown, TypeOK
<1>7. Shares(t)'
  BY DEF RequestInv, Told, Shares, TypeOK, Breaker!TypeOK, Abandoned
<1> QED
  BY <1>2, <1>3, <1>4, <1>5, <1>6, <1>7 DEF Moves, RequestInv

LEMMA BreakMoves ==
  ASSUME TypeOK, NEW t \in Requests, RequestInv(t), Break(t)
  PROVE  Moves(t)
<1> USE DEF Break, Goto, envelope, told, breaker
<1>1. Breaker!TypeOK'
  BY BreakerKeepsTypes DEF TypeOK
<1>2. TypeOK'
  BY <1>1 DEF TypeOK, Stages, Decisions, Middlewares, Traits, NoReply
<1>3. OnlyMoves(t)
  BY DEF OnlyMoves, Same, TypeOK, Breaker!TypeOK
<1>4. Told(t)'
  <2>1. RecordOf(t)' = RecordOf(t)
    BY DEF RecordOf
  <2> QED
    BY <2>1, StatusTyped DEF RequestInv, Told, TypeOK
<1>5. Wired(t)'
  BY DEF RequestInv, Told, Wired, TypeOK, Middlewares
<1>6. Screened(t)'
  BY DEF RequestInv, Screened, Shown, TypeOK
<1>7. Shares(t)'
  BY DEF RequestInv, Told, Shares, TypeOK, Breaker!TypeOK, Abandoned
<1> QED
  BY <1>2, <1>3, <1>4, <1>5, <1>6, <1>7 DEF Moves, RequestInv

LEMMA DisconnectMoves ==
  ASSUME TypeOK, NEW t \in Requests, RequestInv(t), Disconnect(t)
  PROVE  Moves(t)
<1> USE DEF Disconnect, Goto, envelope, wire, told, breaker
<1>1. Breaker!TypeOK'
  BY BreakerKeepsTypes DEF TypeOK
<1>2. TypeOK'
  BY <1>1 DEF TypeOK, Stages, Decisions, Middlewares, Traits, NoReply
<1>3. OnlyMoves(t)
  BY DEF OnlyMoves, Same, TypeOK, Breaker!TypeOK
<1>4. Told(t)'
  BY DEF RequestInv, Told, TypeOK, RecordOf, NoReply
<1>5. Wired(t)'
  BY DEF RequestInv, Told, Wired, TypeOK, Middlewares
<1>6. Screened(t)'
  BY DEF RequestInv, Screened, Shown, TypeOK
<1>7. Shares(t)'
  BY DEF RequestInv, Told, Shares, TypeOK, Breaker!TypeOK, Abandoned
<1> QED
  BY <1>2, <1>3, <1>4, <1>5, <1>6, <1>7 DEF Moves, RequestInv

LEMMA CloseMoves ==
  ASSUME TypeOK, NEW t \in Requests, RequestInv(t), Close(t)
  PROVE  Moves(t)
<1> USE DEF Close, Goto, envelope, told, breaker
<1>1. Breaker!TypeOK'
  BY BreakerKeepsTypes DEF TypeOK
<1>2. TypeOK'
  BY <1>1 DEF TypeOK, Stages, Decisions, Middlewares, Traits, NoReply
<1>3. OnlyMoves(t)
  BY DEF OnlyMoves, Same, TypeOK, Breaker!TypeOK
<1>4. Told(t)'
  <2>1. RecordOf(t)' = RecordOf(t)
    BY DEF RecordOf
  <2> QED
    BY <2>1, StatusTyped DEF RequestInv, Told, TypeOK
<1>5. Wired(t)'
  BY DEF RequestInv, Told, Wired, TypeOK, Middlewares
<1>6. Screened(t)'
  BY DEF RequestInv, Screened, Shown, TypeOK
<1>7. Shares(t)'
  BY DEF RequestInv, Told, Shares, TypeOK, Breaker!TypeOK, Abandoned
<1> QED
  BY <1>2, <1>3, <1>4, <1>5, <1>6, <1>7 DEF Moves, RequestInv

-----------------------------------------------------------------------------
(* The pool's bound: only Connect takes a connection, and only one that is  *)
(* free, for a request that holds none.                                     *)
LEMMA StepKeepsPool ==
  ASSUME PoolInv, NEW t \in Requests, RequestInv(t),
         \/ held' = held
         \/ held' = held \ {t}
         \/ Connect(t)
  PROVE  PoolInv'
<1> USE DEF PoolInv
<1>1. CASE held' = held
  BY <1>1
<1>2. CASE held' = held \ {t}
  <2>1. /\ IsFiniteSet(held \ {t})
        /\ Cardinality(held \ {t}) = IF t \in held THEN Cardinality(held) - 1 ELSE Cardinality(held)
    BY FS_RemoveElement
  <2>2. Cardinality(held) \in Nat
    BY FS_CardinalityType
  <2> QED
    BY <1>2, <2>1, <2>2
<1>3. CASE Connect(t)
  <2>1. t \notin held
    BY <1>3 DEF Connect, RequestInv, Shares, Abandoned
  <2>2. IsFiniteSet(held \cup {t}) /\ Cardinality(held \cup {t}) = Cardinality(held) + 1
    BY <2>1, FS_AddElement
  <2>3. Cardinality(held) < Pool /\ held' = held \cup {t} /\ Cardinality(held) \in Nat
    BY <1>3, FS_CardinalityType DEF Connect
  <2> QED
    BY <2>2, <2>3
<1> QED
  BY <1>1, <1>2, <1>3

LEMMA MovesKeepInv ==
  ASSUME HandlerInv, NEW t \in Requests, Moves(t), PoolInv'
  PROVE  HandlerInv'
<1>1. ASSUME NEW u \in Requests
      PROVE  RequestInv(u)'
  <2>1. CASE u = t
    BY <2>1 DEF Moves
  <2>2. CASE u # t
    <3>1. Same(u) /\ RequestInv(u)
      BY <2>2 DEF Moves, OnlyMoves, HandlerInv
    <3> QED
      BY <3>1, SameKeeps
  <2> QED
    BY <2>1, <2>2
<1> QED
  BY <1>1 DEF HandlerInv, Moves

LEMMA InitHandlerInv == Init => HandlerInv
<1> SUFFICES ASSUME Init
             PROVE  HandlerInv
  OBVIOUS
<1> USE DEF Init
<1>1. <<>> \in Seq(Records)
  BY EmptySeq
<1>2. Breaker!TypeOK
  BY DEF Breaker!Init, Breaker!TypeOK, Breaker!Outcomes
<1>3. Len(Chain) \in Nat
  BY LenProperties
<1>4. TypeOK
  BY <1>1, <1>2, <1>3 DEF TypeOK, Stages, NoReply
<1>5. \A t \in Requests : RequestInv(t)
  BY <1>3 DEF RequestInv, Told, Wired, Screened, Shares, Middlewares, Breaker!Init
<1>6. PoolInv
  BY FS_EmptySet DEF PoolInv
<1> QED
  BY <1>4, <1>5, <1>6 DEF HandlerInv

LEMMA PeerKeepsInv ==
  ASSUME HandlerInv, NEW t \in Requests, Peer(t)
  PROVE  HandlerInv'
<1>0. TypeOK /\ RequestInv(t) /\ PoolInv
  BY DEF HandlerInv
<1>1. ASSUME NEW b \in Bodies, Receive(t, b)
      PROVE  Moves(t) /\ PoolInv'
  BY <1>0, <1>1, ReceiveMoves, StepKeepsPool DEF Receive, wire
<1>2. ASSUME NEW status \in {400, 404, 500}, TurnAway(t, status)
      PROVE  Moves(t) /\ PoolInv'
  BY <1>0, <1>2, TurnAwayMoves, StepKeepsPool DEF TurnAway, wire
<1>3. CASE Drain(t)
  BY <1>0, <1>3, DrainMoves, StepKeepsPool, MovesKeepInv DEF Drain
<1>4. CASE Break(t)
  BY <1>0, <1>4, BreakMoves, StepKeepsPool, MovesKeepInv DEF Break
<1>5. CASE Disconnect(t)
  BY <1>0, <1>5, DisconnectMoves, StepKeepsPool, MovesKeepInv DEF Disconnect, wire
<1> QED
  BY <1>1, <1>2, <1>3, <1>4, <1>5, MovesKeepInv DEF Peer

LEMMA ServeKeepsInv ==
  ASSUME HandlerInv, NEW t \in Requests, Serve(t)
  PROVE  HandlerInv'
<1>0. TypeOK /\ RequestInv(t) /\ PoolInv
  BY DEF HandlerInv
<1> SUFFICES Moves(t) /\ PoolInv'
  BY MovesKeepInv
<1>1. CASE Continue(t)
  BY <1>0, <1>1, ContinueMoves, StepKeepsPool DEF Continue, wire
<1>2. CASE Mutate(t)
  BY <1>0, <1>2, MutateMoves, StepKeepsPool DEF Mutate, wire
<1>3. CASE Reject(t)
  BY <1>0, <1>3, RejectMoves, StepKeepsPool DEF Reject, wire
<1>4. CASE CrashScreening(t)
  BY <1>0, <1>4, CrashScreeningMoves, StepKeepsPool DEF CrashScreening, wire
<1>5. CASE Unroutable(t)
  BY <1>0, <1>5, UnroutableMoves, StepKeepsPool DEF Unroutable, wire
<1>6. CASE RefuseCall(t)
  BY <1>0, <1>6, RefuseCallMoves, StepKeepsPool DEF RefuseCall, wire
<1>7. CASE AdmitCall(t)
  BY <1>0, <1>7, AdmitCallMoves, StepKeepsPool DEF AdmitCall, wire
<1>8. CASE CrashCall(t)
  BY <1>0, <1>8, CrashCallMoves, StepKeepsPool DEF CrashCall, wire
<1>9. CASE Connect(t)
  BY <1>0, <1>9, ConnectMoves, StepKeepsPool
<1>10. CASE FailCall(t)
  BY <1>0, <1>10, FailCallMoves, StepKeepsPool DEF FailCall
<1>11. CASE ReturnCall(t)
  BY <1>0, <1>11, ReturnCallMoves, StepKeepsPool DEF ReturnCall, wire
<1>12. CASE FailRelay(t)
  BY <1>0, <1>12, FailRelayMoves, StepKeepsPool DEF FailRelay, wire
<1>13. CASE Audit(t)
  BY <1>0, <1>13, AuditMoves, StepKeepsPool DEF Audit, wire
<1>14. CASE Respond(t)
  BY <1>0, <1>14, RespondMoves, StepKeepsPool DEF Respond, wire
<1>15. CASE Close(t)
  BY <1>0, <1>15, CloseMoves, StepKeepsPool DEF Close
<1>16. CASE CrashAudit(t)
  BY <1>0, <1>16, CrashAuditMoves, StepKeepsPool DEF CrashAudit, wire
<1> QED
  BY <1>1, <1>2, <1>3, <1>4, <1>5, <1>6, <1>7, <1>8, <1>9, <1>10, <1>11,
     <1>12, <1>13, <1>14, <1>15, <1>16 DEF Serve

LEMMA NextHandlerInv == HandlerInv /\ [Next]_vars => HandlerInv'
<1> SUFFICES ASSUME HandlerInv, [Next]_vars
             PROVE  HandlerInv'
  OBVIOUS
<1>1. ASSUME NEW t \in Requests, Serve(t) \/ Peer(t)
      PROVE  HandlerInv'
  BY <1>1, ServeKeepsInv, PeerKeepsInv
<1>2. CASE Tick
  <2> USE DEF Tick, envelope, wire, told
  <2>1. Breaker!TypeOK'
    BY <1>2 DEF HandlerInv, TypeOK, Breaker!Tick, Breaker!TypeOK, Breaker!Refusing, Breaker!Outcomes
  <2>2. TypeOK'
    BY <1>2, <2>1 DEF HandlerInv, TypeOK
  <2>3. \A u \in Requests : Same(u)
    BY <1>2 DEF Same, Breaker!Tick
  <2>4. \A u \in Requests : RequestInv(u)'
    BY <2>3, SameKeeps DEF HandlerInv
  <2>5. PoolInv'
    BY <1>2 DEF HandlerInv, PoolInv
  <2> QED
    BY <2>2, <2>4, <2>5 DEF HandlerInv
<1>3. CASE UNCHANGED vars
  <2> USE DEF vars, envelope, wire, told, breaker
  <2>1. TypeOK'
    BY <1>3 DEF HandlerInv, TypeOK, Breaker!TypeOK, Breaker!Outcomes
  <2>2. \A u \in Requests : Same(u)
    BY <1>3 DEF Same
  <2>3. \A u \in Requests : RequestInv(u)'
    BY <2>2, SameKeeps DEF HandlerInv
  <2>4. PoolInv'
    BY <1>3 DEF HandlerInv, PoolInv
  <2> QED
    BY <2>1, <2>3, <2>4 DEF HandlerInv
<1> QED
  BY <1>1, <1>2, <1>3 DEF Next, AllDone

(* The inductive invariant of the handler holds in every reachable state.   *)
THEOREM HandlerSafe == Spec => []HandlerInv
  BY InitHandlerInv, NextHandlerInv, PTL DEF Spec

-----------------------------------------------------------------------------
(* Every variable keeps its type. *)
THEOREM TypeCorrect == Spec => []TypeOK
<1>1. HandlerInv => TypeOK
  BY DEF HandlerInv
<1> QED
  BY <1>1, HandlerSafe, PTL

(* Whatever is sent, each middleware let pass what it was shown, and what   *)
(* was found is gone.                                                       *)
THEOREM OnlyScreenedIsSent == Spec => []UpstreamSeesScreened
<1>1. HandlerInv => UpstreamSeesScreened
  <2> SUFFICES ASSUME HandlerInv, NEW t \in Requests, NEW k \in 1..Len(sent[t])
               PROVE  /\ \A i \in 1..Len(Chain) : Passes(Chain[i], Shown(t, i, sent[t][k]))
                      /\ IF \E i \in 1..Len(Chain) : Mutates(Chain[i], received[t])
                           THEN "pii" \notin sent[t][k]
                           ELSE sent[t][k] = received[t]
    BY DEF UpstreamSeesScreened
  <2>1. sent[t][k] = body[t] /\ step[t] > Len(Chain)
    BY DEF HandlerInv, RequestInv, Wired
  <2>2. \A i \in 1..Len(Chain) : i < step[t]
    BY <2>1, LenProperties DEF HandlerInv, TypeOK
  <2>3. rewritten[t] <=> \E i \in 1..Len(Chain) : Mutates(Chain[i], received[t])
    BY <2>2 DEF HandlerInv, RequestInv, Screened
  <2> QED
    BY <2>1, <2>2, <2>3 DEF HandlerInv, RequestInv, Screened
<1> QED
  BY <1>1, HandlerSafe, PTL

(* The audit ledger and the client are told the same, once, ledger first.   *)
THEOREM LedgerAlwaysMatchesReply == Spec => []LedgerMatchesReply
<1>1. HandlerInv => LedgerMatchesReply
  <2> SUFFICES ASSUME HandlerInv, NEW t \in Requests
               PROVE  IF reply[t] \in {200, 403, 413, 502}
                        THEN Len(audited[t]) = 1 /\ Explains(audited[t][1], reply[t])
                        ELSE audited[t] = <<>> \/ stage[t] = "recorded"
    BY DEF LedgerMatchesReply
  <2>1. Told(t) /\ outcome[t] \in Decisions \cup {"none"}
    BY DEF HandlerInv, RequestInv, TypeOK
  <2>2. CASE reply[t] \in {200, 403, 413, 502}
    <3>1. audited[t] = <<RecordOf(t)>> /\ outcome[t] # "none" /\ reply[t] = StatusOf(outcome[t])
      BY <2>1, <2>2, StatusTyped DEF Told, NoReply
    <3>2. Explains(RecordOf(t), StatusOf(outcome[t]))
      BY <2>1, <3>1 DEF Explains, RecordOf, StatusOf, Decisions, Middlewares
    <3> QED
      BY <2>2, <3>1, <3>2
  <2>3. CASE reply[t] \notin {200, 403, 413, 502}
    <3>1. outcome[t] # "none" => StatusOf(outcome[t]) \in {200, 403, 413, 502}
      BY <2>1, StatusTyped
    <3> QED
      BY <2>1, <2>3, <3>1 DEF Told
  <2> QED
    BY <2>2, <2>3
<1> QED
  BY <1>1, HandlerSafe, PTL

(* What the ledger says about the wire is so. *)
THEOREM LedgerAlwaysMatchesWire == Spec => []LedgerMatchesWire
<1>1. HandlerInv => LedgerMatchesWire
  <2> SUFFICES ASSUME HandlerInv, NEW t \in Requests, NEW k \in 1..Len(audited[t])
               PROVE  LET r == audited[t][k] IN
                      /\ r.verdict = "rejected" => sent[t] = <<>>
                      /\ r.upstream = "status" => Len(sent[t]) = 1
                      /\ ~r.mutations => \A j \in 1..Len(sent[t]), i \in 1..Len(Chain) :
                                            ~Mutates(Chain[i], sent[t][j])
    BY DEF LedgerMatchesWire
  <2>1. Told(t) /\ Wired(t) /\ Screened(t) /\ step[t] \in Nat /\ Len(Chain) \in Nat
    BY LenProperties DEF HandlerInv, RequestInv, TypeOK
  <2>2. audited[t] = <<RecordOf(t)>> /\ audited[t][k] = RecordOf(t)
    BY <2>1 DEF Told
  <2>3. RecordOf(t).verdict = "rejected" => outcome[t] \in Middlewares
    BY DEF RecordOf
  <2>4. RecordOf(t).upstream = "status" => outcome[t] = "relay"
    BY DEF RecordOf
  <2>5. RecordOf(t).mutations = rewritten[t]
    BY DEF RecordOf
  <2>6. \A j \in 1..Len(sent[t]), i \in 1..Len(Chain) : sent[t][j] = body[t] /\ i < step[t]
    BY <2>1 DEF Wired
  <2> QED
    BY <2>1, <2>2, <2>3, <2>4, <2>5, <2>6 DEF Wired, Screened
<1> QED
  BY <1>1, HandlerSafe, PTL

(* The pool is never overdrawn, and a connection that is out is on its way  *)
(* back or belongs to a response that could not be built.                   *)
THEOREM ConnectionsAlwaysAccounted == Spec => []ConnectionsAccounted
<1>1. HandlerInv => ConnectionsAccounted
  BY DEF HandlerInv, TypeOK, PoolInv, RequestInv, Shares, ConnectionsAccounted
<1> QED
  BY <1>1, HandlerSafe, PTL

(* Whatever the handlers do, the breaker they share behaves as              *)
(* BreakerContract says, so all that is shown of the contract holds of the  *)
(* breaker inside the proxy.                                                *)
THEOREM HandlerKeepsContract == Spec => Breaker!Spec
<1>1. Init => Breaker!Init
  BY DEF Init
<1>2. [Next]_vars => [Breaker!Next]_(Breaker!vars)
  <2> SUFFICES ASSUME [Next]_vars
               PROVE  Breaker!Next \/ UNCHANGED breaker
    BY DEF Breaker!vars, breaker
  <2>1. ASSUME NEW t \in Requests, Serve(t)
        PROVE  Breaker!Step(t) \/ UNCHANGED breaker
    BY <2>1 DEF Serve, Breaker!Step, Continue, Mutate, Reject, CrashScreening, Unroutable,
                RefuseCall, AdmitCall, CrashCall, Connect, FailCall, ReturnCall, FailRelay,
                Audit, CrashAudit, Respond, Close
  <2>2. ASSUME NEW t \in Requests, Peer(t)
        PROVE  UNCHANGED breaker
    BY <2>2 DEF Peer, Receive, TurnAway, Drain, Break, Disconnect
  <2>3. CASE Tick
    BY <2>3 DEF Tick, Breaker!Next
  <2>4. CASE UNCHANGED vars
    BY <2>4 DEF vars
  <2> QED
    BY <2>1, <2>2, <2>3, <2>4 DEF Next, AllDone, Breaker!Next
<1> QED
  BY <1>1, <1>2, PTL DEF Spec, Breaker!Spec

-----------------------------------------------------------------------------
(* The refinement of ProxyContract.  Sending, auditing and answering map to *)
(* the contract's steps, a request that ends without a decision to GiveUp,  *)
(* and all else - screening, waiting, the breaker, the pool, relaying the   *)
(* upstream's body - to a stutter.                                          *)
promised == Promise!vars

LEMMA LedgerOfNone == LedgerOf(<<>>) = <<>>
BY DEF LedgerOf

LEMMA LedgerOfOne == ASSUME NEW r PROVE LedgerOf(<<r>>) = <<DecisionOf(r)>>
<1>1. DOMAIN <<r>> = {1} /\ <<r>>[1] = r
  OBVIOUS
<1>2. LedgerOf(<<r>>) = [k \in {1} |-> DecisionOf(r)]
  BY <1>1 DEF LedgerOf
<1>3. <<DecisionOf(r)>> = [k \in {1} |-> DecisionOf(r)]
  OBVIOUS
<1> QED
  BY <1>2, <1>3

(* A decision is in the ledger's words what is answered. *)
LEMMA DecisionOfRecord ==
  ASSUME NEW t \in Requests, outcome[t] \in Decisions
  PROVE  /\ DecisionOf(RecordOf(t)) \in {"forbidden", "too_large", "relayed", "unreachable"}
         /\ Promise!Status[DecisionOf(RecordOf(t))] = StatusOf(outcome[t])
         /\ DecisionOf(RecordOf(t)) \in {"forbidden", "too_large"} => outcome[t] \in Middlewares
         /\ DecisionOf(RecordOf(t)) = "relayed" => outcome[t] = "relay"
<1> USE DEF RecordOf, DecisionOf, StatusOf, Promise!Status
<1>1. CASE outcome[t] = "secret_scan" \/ outcome[t] = "pii_scan"
  BY <1>1 DEF Middlewares
<1>2. CASE outcome[t] = "tokenomics"
  BY <1>2 DEF Middlewares
<1>3. CASE outcome[t] = "relay"
  BY <1>3 DEF Middlewares
<1>4. CASE outcome[t] = "upstream_error"
  BY <1>4 DEF Middlewares
<1> QED
  BY <1>1, <1>2, <1>3, <1>4 DEF Decisions, Middlewares

(* What no step of the contract is about. *)
LEMMA Unheard ==
  ASSUME sent' = sent, audited' = audited, reply' = reply
  PROVE  UNCHANGED promised
BY DEF promised, Promise!vars

LEMMA ConnectForwards ==
  ASSUME HandlerInv, NEW t \in Requests, Connect(t)
  PROVE  Promise!Forward(t)
<1>1. stage[t] = "queued" /\ sent' = [sent EXCEPT ![t] = Append(@, body[t])]
  BY DEF Connect
<1>2. audited' = audited /\ reply' = reply
  BY DEF Connect, told
<1>3. RequestInv(t) /\ sent \in [Requests -> Seq(SUBSET Traits)]
  BY DEF HandlerInv, TypeOK
<1>4. sent[t] = <<>> /\ audited[t] = <<>> /\ reply[t] = 0
  BY <1>1, <1>3 DEF RequestInv, Told, Wired, NoReply
<1>5. sent' = [sent EXCEPT ![t] = <<body[t]>>]
  BY <1>1, <1>3, <1>4
<1>6. Len(sent[t]) = 0 /\ Len(sent'[t]) = 1
  BY <1>3, <1>4, <1>5
<1>7. [u \in Requests |-> Len(sent[u])]' = [[u \in Requests |-> Len(sent[u])] EXCEPT ![t] = 1]
  <2>1. \A u \in Requests : sent'[u] = IF u = t THEN <<body[t]>> ELSE sent[u]
    BY <1>3, <1>5
  <2>2. \A u \in Requests : Len(sent'[u]) = IF u = t THEN 1 ELSE Len(sent[u])
    BY <2>1
  <2> QED
    BY <2>2
<1>8. Promise!Undecided(t)
  BY <1>4, LedgerOfNone DEF Promise!Undecided
<1> QED
  BY <1>2, <1>6, <1>7, <1>8 DEF Promise!Forward, Promise!Hears

LEMMA AuditRecords ==
  ASSUME HandlerInv, NEW t \in Requests, Audit(t)
  PROVE  Promise!Record(t)
<1>1. stage[t] = "decided" /\ sent' = sent /\ reply' = reply
  BY DEF Audit, wire
<1>2. RequestInv(t) /\ audited \in [Requests -> Seq(Records)] /\ outcome[t] \in Decisions \cup {"none"}
  BY DEF HandlerInv, TypeOK
<1>3. audited[t] = <<>> /\ reply[t] = 0 /\ outcome[t] \in Decisions
  BY <1>1, <1>2 DEF RequestInv, Told, NoReply
<1>4. audited' = [audited EXCEPT ![t] = <<RecordOf(t)>>]
  BY <1>2, <1>3 DEF Audit
<1> DEFINE decision == DecisionOf(RecordOf(t))
<1>5. decision \in {"forbidden", "too_large", "relayed", "unreachable"}
  BY <1>3, DecisionOfRecord
<1>6. Promise!Truthful(decision, t)
  <2>1. decision \in {"forbidden", "too_large"} => sent[t] = <<>>
    BY <1>2, <1>3, DecisionOfRecord DEF RequestInv, Wired
  <2>2. decision = "relayed" => sent[t] = <<body[t]>>
    BY <1>2, <1>3, DecisionOfRecord DEF RequestInv, Wired
  <2> HIDE DEF decision
  <2> QED
    BY <1>5, <2>1, <2>2 DEF Promise!Truthful
<1>7. [u \in Requests |-> LedgerOf(audited[u])]'
        = [[u \in Requests |-> LedgerOf(audited[u])] EXCEPT ![t] = <<decision>>]
  <2>1. \A u \in Requests : audited'[u] = IF u = t THEN <<RecordOf(t)>> ELSE audited[u]
    BY <1>2, <1>4
  <2>2. LedgerOf(audited'[t]) = <<decision>>
    BY <2>1, LedgerOfOne
  <2>3. \A u \in Requests : LedgerOf(audited'[u]) = IF u = t THEN <<decision>> ELSE LedgerOf(audited[u])
    BY <2>1, <2>2
  <2> QED
    BY <2>3
<1>8. Promise!Undecided(t)
  BY <1>3, LedgerOfNone DEF Promise!Undecided
<1>9. LedgerOf(audited'[t]) = <<decision>> /\ <<decision>> # <<>>
  BY <1>2, <1>4, LedgerOfOne
<1>10. LedgerOf(audited[t]) = <<>> /\ LedgerOf(audited'[t]) # <<>>
  BY <1>3, <1>9, LedgerOfNone
<1>11. decision \in Promise!Decisions
  BY <1>5 DEF Promise!Decisions
<1> HIDE DEF decision
<1> QED
  BY <1>1, <1>6, <1>7, <1>8, <1>10, <1>11 DEF Promise!Record, Promise!Hears

LEMMA RespondAnswers ==
  ASSUME HandlerInv, NEW t \in Requests, Respond(t)
  PROVE  Promise!Answer(t)
<1>1. /\ stage[t] = "recorded" /\ sent' = sent /\ audited' = audited
      /\ reply' = [reply EXCEPT ![t] = StatusOf(outcome[t])]
  BY DEF Respond, wire
<1>2. RequestInv(t) /\ outcome[t] \in Decisions \cup {"none"}
  BY DEF HandlerInv, TypeOK
<1>3. audited[t] = <<RecordOf(t)>> /\ reply[t] = 0 /\ outcome[t] \in Decisions
  BY <1>1, <1>2 DEF RequestInv, Told, NoReply
<1>4. LedgerOf(audited[t]) = <<DecisionOf(RecordOf(t))>>
  BY <1>3, LedgerOfOne
<1>5. LedgerOf(audited[t]) # <<>> /\ LedgerOf(audited[t])[1] = DecisionOf(RecordOf(t))
  BY <1>4
<1>6. Promise!Status[LedgerOf(audited[t])[1]] = StatusOf(outcome[t])
  BY <1>3, <1>5, DecisionOfRecord
<1>7. reply'[t] = StatusOf(outcome[t]) /\ StatusOf(outcome[t]) # 0
  <2>1. StatusOf(outcome[t]) \in {200, 403, 413, 502}
    BY <1>3, StatusTyped
  <2>2. DOMAIN reply = Requests
    BY DEF HandlerInv, TypeOK
  <2> QED
    BY <1>1, <2>1, <2>2
<1>8. Promise!Hears(reply, t, 0)
  BY <1>3, <1>7 DEF Promise!Hears
<1> QED
  BY <1>1, <1>5, <1>6, <1>8 DEF Promise!Answer

(* A request is given up before anyone was told anything about it. *)
LEMMA AnswerGivesUp ==
  ASSUME HandlerInv, NEW t \in Requests, NEW status \in {400, 404, 500},
         stage[t] \in {"idle", "screening", "queued", "sending", "decided"},
         Answer(t, status), sent' = sent, audited' = audited
  PROVE  Promise!GiveUp(t)
<1>1. audited[t] = <<>> /\ reply[t] = 0
  BY DEF HandlerInv, RequestInv, Told, NoReply
<1>2. Promise!Undecided(t)
  BY <1>1, LedgerOfNone DEF Promise!Undecided
<1>3. reply' = [reply EXCEPT ![t] = status]
  BY DEF Answer
<1>4. UNCHANGED <<[u \in Requests |-> Len(sent[u])], [u \in Requests |-> LedgerOf(audited[u])]>>
  OBVIOUS
<1>5. reply'[t] = status /\ status # 0
  BY <1>3 DEF HandlerInv, TypeOK
<1>6. \E s \in {400, 404, 500} : reply' = [reply EXCEPT ![t] = s]
  <2> DEFINE failures == {400, 404, 500}
  <2>1. status \in failures
    OBVIOUS
  <2> HIDE DEF failures
  <2>2. \E s \in failures : reply' = [reply EXCEPT ![t] = s]
    BY <1>3, <2>1, Zenon
  <2> QED
    BY <2>2, Zenon DEF failures
<1>7. Promise!Hears(reply, t, 0)
  BY <1>1, <1>5 DEF Promise!Hears
<1>8. /\ Promise!Hears(reply, t, 0)
      /\ Promise!Undecided(t)
      /\ \E s \in {400, 404, 500} : reply' = [reply EXCEPT ![t] = s]
      /\ UNCHANGED <<[u \in Requests |-> Len(sent[u])], [u \in Requests |-> LedgerOf(audited[u])]>>
  BY <1>2, <1>4, <1>6, <1>7, Zenon
<1> QED
  BY <1>8, Zenon DEF Promise!GiveUp

(* The handler implements ProxyContract: upstream, ledger and client hear   *)
(* of every request in this order, once each at most, and are told the same. *)
THEOREM HandlerKeepsPromise == Spec => KeepsPromise
<1>1. Init => Promise!Init
  BY LedgerOfNone DEF Init, Promise!Init, NoReply
<1>2. HandlerInv /\ [Next]_vars => [Promise!Next]_promised
  <2> SUFFICES ASSUME HandlerInv, [Next]_vars
               PROVE  Promise!Next \/ UNCHANGED promised
    OBVIOUS
  <2>1. ASSUME NEW t \in Requests, Serve(t)
        PROVE  Promise!Next \/ UNCHANGED promised
    <3>1. CASE \/ Continue(t) \/ Mutate(t) \/ Reject(t) \/ Unroutable(t) \/ RefuseCall(t)
               \/ AdmitCall(t) \/ FailCall(t) \/ ReturnCall(t) \/ Close(t)
      BY <3>1, Unheard DEF Continue, Mutate, Reject, Unroutable, RefuseCall, AdmitCall,
                           FailCall, ReturnCall, Close, wire, told
    <3>2. CASE CrashScreening(t) \/ CrashCall(t) \/ FailRelay(t) \/ CrashAudit(t)
      BY <3>2, AnswerGivesUp DEF CrashScreening, Screening, CrashCall, FailRelay, CrashAudit, wire,
                                 Promise!Next
    <3>3. CASE Connect(t)
      BY <3>3, ConnectForwards DEF Promise!Next
    <3>4. CASE Audit(t)
      BY <3>4, AuditRecords DEF Promise!Next
    <3>5. CASE Respond(t)
      BY <3>5, RespondAnswers DEF Promise!Next
    <3> QED
      BY <2>1, <3>1, <3>2, <3>3, <3>4, <3>5 DEF Serve
  <2>2. ASSUME NEW t \in Requests, Peer(t)
        PROVE  Promise!Next \/ UNCHANGED promised
    <3>1. CASE \E status \in {400, 404, 500} : TurnAway(t, status)
      BY <3>1, AnswerGivesUp DEF TurnAway, wire, Promise!Next
    <3>2. CASE (\E b \in Bodies : Receive(t, b)) \/ Drain(t) \/ Break(t) \/ Disconnect(t)
      BY <3>2, Unheard DEF Receive, Drain, Break, Disconnect, wire, told
    <3> QED
      BY <2>2, <3>1, <3>2 DEF Peer
  <2>3. CASE Tick \/ UNCHANGED vars
    BY <2>3, Unheard DEF Tick, vars, wire, told
  <2> QED
    BY <2>1, <2>2, <2>3 DEF Next, AllDone
<1> QED
  BY <1>1, <1>2, HandlerSafe, PTL DEF Spec, KeepsPromise, Promise!Spec, promised

-----------------------------------------------------------------------------
(* What BreakerContract itself promises, for every set of callers: the      *)
(* requests are any set, and no handler has a part in these two theorems.   *)
(* The streak stays saturated at the threshold and the age at the cooldown. *)
THEOREM ContractTypeCorrect == Breaker!Spec => []Breaker!TypeOK
<1>1. Breaker!Init => Breaker!TypeOK
  BY DEF Breaker!Init, Breaker!TypeOK, Breaker!Outcomes
<1>2. Breaker!TypeOK /\ [Breaker!Next]_(Breaker!vars) => Breaker!TypeOK'
  <2> SUFFICES ASSUME Breaker!TypeOK, [Breaker!Next]_(Breaker!vars)
               PROVE  Breaker!TypeOK'
    OBVIOUS
  <2> USE DEF Breaker!TypeOK, Breaker!Outcomes
  <2>1. CASE Breaker!Tick
    BY <2>1 DEF Breaker!Tick, Breaker!Refusing
  <2>2. ASSUME NEW c \in Requests, Breaker!Admit(c) \/ Breaker!Refuse(c) \/ Breaker!Cancel(c)
        PROVE  Breaker!TypeOK'
    BY <2>2 DEF Breaker!Admit, Breaker!Refuse, Breaker!Cancel
  <2>3. ASSUME NEW c \in Requests, Breaker!Succeed(c)
        PROVE  Breaker!TypeOK'
    BY <2>3 DEF Breaker!Succeed
  <2>4. ASSUME NEW c \in Requests, Breaker!Fail(c)
        PROVE  Breaker!TypeOK'
    BY <2>4 DEF Breaker!Fail, Breaker!Saturated
  <2>5. CASE UNCHANGED Breaker!vars
    BY <2>5 DEF Breaker!vars
  <2> QED
    BY <2>1, <2>2, <2>3, <2>4, <2>5 DEF Breaker!Next, Breaker!Step
<1> QED
  BY <1>1, <1>2, PTL DEF Breaker!Spec

(* A cooldown ends by time or by a success that was in flight: no refused,  *)
(* cancelled or failed call ends it early.                                  *)
THEOREM CooldownOnlyEndsSo == Breaker!Spec => Breaker!CooldownEndsByTimeOrSuccess
<1>1. Breaker!TypeOK /\ [Breaker!Next]_(Breaker!vars) =>
        [Breaker!Refusing /\ ~Breaker!Refusing' =>
            \/ age' = Reset /\ streak' = Threshold
            \/ \E c \in Requests : Breaker!InFlight(c) /\ call'[c] = "returned"]_(Breaker!vars)
  <2> SUFFICES ASSUME Breaker!TypeOK, [Breaker!Next]_(Breaker!vars),
                      Breaker!Refusing, ~Breaker!Refusing'
               PROVE  \/ age' = Reset /\ streak' = Threshold
                      \/ \E c \in Requests : Breaker!InFlight(c) /\ call'[c] = "returned"
    OBVIOUS
  <2> USE DEF Breaker!TypeOK, Breaker!Refusing, Breaker!Tripped
  <2>1. CASE Breaker!Tick
    BY <2>1 DEF Breaker!Tick
  <2>2. ASSUME NEW c \in Requests, Breaker!Admit(c) \/ Breaker!Refuse(c) \/ Breaker!Cancel(c)
        PROVE  FALSE
    BY <2>2 DEF Breaker!Admit, Breaker!Refuse, Breaker!Cancel
  <2>3. ASSUME NEW c \in Requests, Breaker!Succeed(c)
        PROVE  Breaker!InFlight(c) /\ call'[c] = "returned"
    BY <2>3 DEF Breaker!Succeed
  <2>4. ASSUME NEW c \in Requests, Breaker!Fail(c)
        PROVE  FALSE
    BY <2>4 DEF Breaker!Fail, Breaker!Saturated
  <2>5. CASE UNCHANGED Breaker!vars
    BY <2>5 DEF Breaker!vars
  <2> QED
    BY <2>1, <2>2, <2>3, <2>4, <2>5 DEF Breaker!Next, Breaker!Step
<1> QED
  BY <1>1, ContractTypeCorrect, PTL DEF Breaker!Spec, Breaker!CooldownEndsByTimeOrSuccess

(* And so inside the proxy, for any number of requests under way when the   *)
(* breaker trips: refused, failed and broken-off ones do not end the        *)
(* cooldown.                                                                *)
THEOREM ProxyCooldownOnlyEndsSo == Spec => Breaker!CooldownEndsByTimeOrSuccess
  BY HandlerKeepsContract, CooldownOnlyEndsSo, PTL
=============================================================================
