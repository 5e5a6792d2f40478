---------------------------- MODULE ProxyHandler ----------------------------
(***************************************************************************)
(* proxy/handler.py, with the pipeline, the middlewares and the forwarder   *)
(* it calls: the life of every proxied request, from the moment its body    *)
(* has been read until its response has been sent and its upstream          *)
(* connection is back in the pool.                                          *)
(*                                                                          *)
(* Requests run as tasks of one event loop and share the circuit breaker    *)
(* (BreakerContract, which CircuitBreaker.tla implements) and the           *)
(* connection pool of the one httpx client.  Of the audit sink the handler   *)
(* sees only that record() comes back; AuditSinks.tla is the sink itself.   *)
(*                                                                          *)
(* A request is known by the traits the code tells apart; a scanner's       *)
(* verdict on a text is a trait of that text.                               *)
(***************************************************************************)
EXTENDS Naturals, Sequences, FiniteSets

CONSTANTS
    Requests,     \* the tasks, one per request
    Bodies,       \* the requests the clients may send, as sets of traits
    Chain,        \* the names of the pipeline's middlewares, in order
    PiiPolicy,    \* settings.scanning.pii_policy
    Pool,         \* max_connections of the httpx client
    Threshold,    \* the breaker's failure_threshold
    Reset         \* the breaker's reset_seconds, in clock ticks

Middlewares == {"secret_scan", "pii_scan", "tokenomics"}

(* secret      the prompt holds a credential                                *)
(* pii         it holds personal data within one message                    *)
(* split_pii   it holds personal data the replacements leave: it straddles  *)
(*             two of the joined messages, overlaps a finding replaced      *)
(*             before it, or is found only when the new text is scanned     *)
(* long        it exceeds a token or cost threshold                         *)
(* unpriced    TokenomicsService.evaluate raises a GuardrailError on it     *)
(* unscannable the recogniser raises on it                                  *)
(* unencodable a lone surrogate stays in it when it is rewritten: UTF-8 has *)
(*             no bytes for one                                             *)
(* unrecordable  one in the model name or a preview, so that pydantic       *)
(*             refuses the record                                           *)
(* no_origin   the forwarder has no origin for its provider                 *)
(* unsendable  httpx cannot build the outbound request from its headers     *)
Traits == {"secret", "pii", "split_pii", "long", "unpriced", "unscannable",
           "unencodable", "unrecordable", "no_origin", "unsendable"}

ASSUME BodiesAssumption == Bodies \subseteq SUBSET Traits
ASSUME ChainAssumption ==
    /\ Chain \in Seq(Middlewares)
    /\ \A i, j \in 1..Len(Chain) : Chain[i] = Chain[j] => i = j
ASSUME PolicyAssumption == PiiPolicy \in {"block", "redact"}
ASSUME BreakerAssumption == Threshold \in Nat \ {0} /\ Reset \in Nat \ {0}
ASSUME PoolAssumption == Pool \in Nat \ {0}

VARIABLES
    stage,      \* where each task is
    step,       \* the index in Chain of the next middleware; 0: no envelope yet
    received,   \* the traits of the client's request (`envelope`)
    body,       \* those of the in-flight envelope (`current`, final_request)
    rewritten,  \* final_request is not the envelope the pipeline was given
    outcome,    \* what is to be audited and answered
    sent,       \* the bodies that went out to the upstream for each request, in order
    held,       \* the requests that hold a connection of the pool
    audited,    \* the records handed to the audit sink for each request
    reply,      \* the status the client was answered
    streak, age, call   \* the breaker

envelope == <<step, received, body, rewritten>>
wire == <<sent, held>>
told == <<audited, reply>>
breaker == <<streak, age, call>>
vars == <<stage, envelope, outcome, wire, told, breaker>>

Breaker == INSTANCE BreakerContract WITH Callers <- Requests

Stages == {"idle", "screening", "queued", "sending", "decided",
           "recorded", "relaying", "closing", "done"}
Decisions == Middlewares \cup {"upstream_error", "relay"}
NoReply == 0

Init ==
    /\ stage = [t \in Requests |-> "idle"]
    /\ step = [t \in Requests |-> 0]
    /\ received = [t \in Requests |-> {}]
    /\ body = [t \in Requests |-> {}]
    /\ rewritten = [t \in Requests |-> FALSE]
    /\ outcome = [t \in Requests |-> "none"]
    /\ sent = [t \in Requests |-> <<>>]
    /\ held = {}
    /\ audited = [t \in Requests |-> <<>>]
    /\ reply = [t \in Requests |-> NoReply]
    /\ Breaker!Init

Goto(t, s) == stage' = [stage EXCEPT ![t] = s]
Decide(t, o) == Goto(t, "decided") /\ outcome' = [outcome EXCEPT ![t] = o]
Answer(t, status) == Goto(t, "done") /\ reply' = [reply EXCEPT ![t] = status]

-----------------------------------------------------------------------------
(* The body is read and resolve_adapter and parse succeed. *)
Receive(t, b) ==
    /\ stage[t] = "idle"
    /\ Goto(t, "screening")
    /\ step' = [step EXCEPT ![t] = 1]
    /\ received' = [received EXCEPT ![t] = b]
    /\ body' = [body EXCEPT ![t] = b]
    /\ UNCHANGED <<rewritten, outcome, wire, told, breaker>>

(* Nothing is screened or audited: 404 for an unknown provider, 400 for a   *)
(* malformed payload, 500 when the client went away before its body ended   *)
(* or the body is not UTF-8 (exceptions no handler catches).                *)
TurnAway(t, status) ==
    /\ stage[t] = "idle"
    /\ Answer(t, status)
    /\ UNCHANGED <<envelope, outcome, wire, audited, breaker>>

-----------------------------------------------------------------------------
(* MiddlewarePipeline.run: one step per middleware, two of which await a    *)
(* worker thread.                                                           *)
HasPii(b) == b \cap {"pii", "split_pii"} # {}

Rejects(m, b) ==
    \/ m = "secret_scan" /\ "secret" \in b
    \/ m = "pii_scan" /\ PiiPolicy = "block" /\ HasPii(b)
    \/ m = "tokenomics" /\ "long" \in b

Mutates(m, b) == m = "pii_scan" /\ PiiPolicy = "redact" /\ HasPii(b)

(* The middleware raises, or the adapter that encodes its rewritten body.   *)
Raises(m, b) ==
    \/ m = "pii_scan" /\ "unscannable" \in b
    \/ m = "tokenomics" /\ "unpriced" \in b
    \/ Mutates(m, b) /\ "unencodable" \in b

(* str.replace removes what was found from every message.  Nothing else is  *)
(* certain of the new text: a tag may part a credential from the word that  *)
(* hid it from the look-behind of its pattern, or tear one up; the          *)
(* recogniser would find other names in it; it is longer or shorter.        *)
Redacted(b) ==
    IF "pii" \in b
      THEN LET open == {"secret", "split_pii", "long"}
           IN  {(b \ ({"pii"} \cup open)) \cup new : new \in SUBSET open}
      ELSE {b}

Screening(t) == stage[t] = "screening" /\ step[t] <= Len(Chain)
Current(t) == Chain[step[t]]

Continue(t) ==
    /\ Screening(t)
    /\ ~Raises(Current(t), body[t]) /\ ~Rejects(Current(t), body[t]) /\ ~Mutates(Current(t), body[t])
    /\ step' = [step EXCEPT ![t] = @ + 1]
    /\ UNCHANGED <<stage, received, body, rewritten, outcome, wire, told, breaker>>

(* Bugs the properties at the end must notice, here and below; no           *)
(* specification uses them.  The original envelope is threaded on, and      *)
(* forwarded:                                                               *)
MutateKeepsBody(t) ==
    /\ Screening(t)
    /\ ~Raises(Current(t), body[t])
    /\ Mutates(Current(t), body[t])
    /\ step' = [step EXCEPT ![t] = @ + 1]
    /\ rewritten' = [rewritten EXCEPT ![t] = TRUE]
    /\ UNCHANGED <<stage, received, body, outcome, wire, told, breaker>>

(* Mutate: _apply_mutate redacts, parses again, and the next middleware     *)
(* sees the rewritten envelope; those before it never will.                 *)
Mutate(t) ==
    /\ Screening(t)
    /\ ~Raises(Current(t), body[t])
    /\ Mutates(Current(t), body[t])
    /\ step' = [step EXCEPT ![t] = @ + 1]
    /\ \E b \in Redacted(body[t]) : body' = [body EXCEPT ![t] = b]
    /\ rewritten' = [rewritten EXCEPT ![t] = TRUE]
    /\ UNCHANGED <<stage, received, outcome, wire, told, breaker>>

Reject(t) ==
    /\ Screening(t)
    /\ ~Raises(Current(t), body[t])
    /\ Rejects(Current(t), body[t])
    /\ Decide(t, Current(t))
    /\ UNCHANGED <<envelope, wire, told, breaker>>

(* An exception of a middleware or of an adapter's redact is caught by      *)
(* nobody: it leaves the handler before any audit; the server answers 500.  *)
CrashScreening(t) ==
    /\ Screening(t)
    /\ Raises(Current(t), body[t])
    /\ Answer(t, 500)
    /\ UNCHANGED <<envelope, outcome, wire, audited, breaker>>

-----------------------------------------------------------------------------
(* UpstreamForwarder.forward, which the handler goes on to when no          *)
(* middleware is left.                                                      *)
Approved(t) == stage[t] = "screening" /\ step[t] > Len(Chain)

Unroutable(t) ==
    /\ Approved(t)
    /\ "no_origin" \in body[t]
    /\ Decide(t, "upstream_error")
    /\ UNCHANGED <<envelope, wire, told, breaker>>

(* CircuitOpenError is an UpstreamError. *)
RefuseCall(t) ==
    /\ Approved(t)
    /\ "no_origin" \notin body[t]
    /\ Breaker!Refuse(t)
    /\ Decide(t, "upstream_error")
    /\ UNCHANGED <<envelope, wire, told>>

AdmitCall(t) ==
    /\ Approved(t)
    /\ "no_origin" \notin body[t]
    /\ Breaker!Admit(t)
    /\ Goto(t, "queued")
    /\ UNCHANGED <<envelope, outcome, wire, told>>

(* build_request raises something that is not an httpx.HTTPError: the       *)
(* breaker counts a failure of the upstream, and nobody catches it.         *)
CrashCall(t) ==
    /\ stage[t] = "queued"
    /\ "unsendable" \in body[t]
    /\ Breaker!Fail(t)
    /\ Answer(t, 500)
    /\ UNCHANGED <<envelope, outcome, wire, audited>>

(* What went out unanswered is sent once more: *)
ConnectResends(t) ==
    /\ stage[t] \in {"queued", "sending"}
    /\ "unsendable" \notin body[t]
    /\ Cardinality(held \ {t}) < Pool
    /\ held' = held \cup {t}
    /\ sent' = [sent EXCEPT ![t] = Append(@, body[t])]
    /\ Goto(t, "sending")
    /\ UNCHANGED <<envelope, outcome, told, breaker>>

(* httpx has a connection for the request and sends it; its transport       *)
(* retries nothing.                                                         *)
Connect(t) ==
    /\ stage[t] = "queued"
    /\ "unsendable" \notin body[t]
    /\ Cardinality(held) < Pool
    /\ held' = held \cup {t}
    /\ sent' = [sent EXCEPT ![t] = Append(@, body[t])]
    /\ Goto(t, "sending")
    /\ UNCHANGED <<envelope, outcome, told, breaker>>

(* The timeout starts when the request has a connection: *)
FailCallOnceSent(t) ==
    /\ stage[t] = "sending"
    /\ Breaker!Fail(t)
    /\ held' = held \ {t}
    /\ Decide(t, "upstream_error")
    /\ UNCHANGED <<envelope, sent, told>>

(* httpx.HTTPError: no connection in time, connect, write or read failed or *)
(* timed out before the response headers.                                   *)
FailCall(t) ==
    /\ stage[t] \in {"queued", "sending"}
    /\ "unsendable" \notin body[t]
    /\ Breaker!Fail(t)
    /\ held' = held \ {t}
    /\ Decide(t, "upstream_error")
    /\ UNCHANGED <<envelope, sent, told>>

(* Response headers, whatever the status; the connection stays held for     *)
(* the body.                                                                *)
ReturnCall(t) ==
    /\ stage[t] = "sending"
    /\ Breaker!Succeed(t)
    /\ Decide(t, "relay")
    /\ UNCHANGED <<envelope, wire, told>>

(* Response headers that StreamingResponse cannot encode in Latin-1: its    *)
(* constructor raises, nobody catches it, nobody closes the response.       *)
FailRelay(t) ==
    /\ stage[t] = "sending"
    /\ Breaker!Succeed(t)
    /\ Answer(t, 500)
    /\ UNCHANGED <<envelope, outcome, wire, audited>>

-----------------------------------------------------------------------------
(* The record takes every request that was not relayed for a rejected one: *)
RecordOfUnrelayed(t) ==
    [verdict   |-> IF outcome[t] # "relay" THEN "rejected" ELSE "allowed",
     by        |-> IF outcome[t] \in Middlewares THEN outcome[t] ELSE "none",
     mutations |-> rewritten[t],
     upstream  |-> CASE outcome[t] = "relay" -> "status"
                     [] outcome[t] = "upstream_error" -> "error"
                     [] OTHER -> "none"]

(* build_audit_record *)
RecordOf(t) ==
    [verdict   |-> IF outcome[t] \in Middlewares THEN "rejected" ELSE "allowed",
     by        |-> IF outcome[t] \in Middlewares THEN outcome[t] ELSE "none",
     mutations |-> rewritten[t],
     upstream  |-> CASE outcome[t] = "relay" -> "status"
                     [] outcome[t] = "upstream_error" -> "error"
                     [] OTHER -> "none"]

(* _record_audit hands the record to the sink and swallows what record()    *)
(* raises: either way the handler goes on.                                  *)
Audit(t) ==
    /\ stage[t] = "decided"
    /\ "unrecordable" \notin received[t]
    /\ audited' = [audited EXCEPT ![t] = Append(@, RecordOf(t))]
    /\ Goto(t, "recorded")
    /\ UNCHANGED <<envelope, outcome, wire, reply, breaker>>

(* The record is built outside of the try, from the client's envelope: the  *)
(* validation error leaves the handler, with the upstream response, if      *)
(* there is one, neither relayed nor closed.                                *)
CrashAudit(t) ==
    /\ stage[t] = "decided"
    /\ "unrecordable" \in received[t]
    /\ Answer(t, 500)
    /\ UNCHANGED <<envelope, outcome, wire, audited, breaker>>

StatusOf(o) == CASE o = "tokenomics" -> 413
                 [] o = "upstream_error" -> 502
                 [] o = "relay" -> 200
                 [] OTHER -> 403

(* The handler returns its response; 200 stands for the upstream's status.  *)
Respond(t) ==
    /\ stage[t] = "recorded"
    /\ reply' = [reply EXCEPT ![t] = StatusOf(outcome[t])]
    /\ Goto(t, IF outcome[t] = "relay" THEN "relaying" ELSE "done")
    /\ UNCHANGED <<envelope, outcome, wire, audited, breaker>>

(* StreamingResponse relays _iter_body.  The iterator closes the upstream   *)
(* response itself when it ends or breaks; when the client goes away the    *)
(* iterator is abandoned where it stands.                                   *)
Drain(t) ==
    /\ stage[t] = "relaying"
    /\ held' = held \ {t}
    /\ Goto(t, "closing")
    /\ UNCHANGED <<envelope, outcome, sent, told, breaker>>

Break(t) ==
    /\ stage[t] = "relaying"
    /\ held' = held \ {t}
    /\ Goto(t, "done")
    /\ UNCHANGED <<envelope, outcome, sent, told, breaker>>

(* The response has no BackgroundTask: *)
DisconnectSkipsClose(t) ==
    /\ stage[t] = "relaying"
    /\ Goto(t, "done")
    /\ UNCHANGED <<envelope, outcome, wire, told, breaker>>

Disconnect(t) ==
    /\ stage[t] = "relaying"
    /\ Goto(t, "closing")
    /\ UNCHANGED <<envelope, outcome, wire, told, breaker>>

(* The background task closes only what the iterator has closed already: *)
CloseWhenDrained(t) ==
    /\ stage[t] = "closing"
    /\ t \notin held
    /\ Goto(t, "done")
    /\ UNCHANGED <<envelope, outcome, wire, told, breaker>>

(* BackgroundTask(upstream.aclose) *)
Close(t) ==
    /\ stage[t] = "closing"
    /\ held' = held \ {t}
    /\ Goto(t, "done")
    /\ UNCHANGED <<envelope, outcome, sent, told, breaker>>

Tick == Breaker!Tick /\ UNCHANGED <<stage, envelope, outcome, wire, told>>

(* What the server and its timeouts bring about by themselves. *)
Serve(t) ==
    \/ Continue(t) \/ Mutate(t) \/ Reject(t) \/ CrashScreening(t)
    \/ Unroutable(t) \/ RefuseCall(t) \/ AdmitCall(t) \/ CrashCall(t)
    \/ Connect(t) \/ FailCall(t) \/ ReturnCall(t) \/ FailRelay(t)
    \/ Audit(t) \/ CrashAudit(t) \/ Respond(t) \/ Close(t)

(* What it takes a client, or the upstream's body, to bring about. *)
Peer(t) ==
    \/ \E b \in Bodies : Receive(t, b)
    \/ \E status \in {400, 404, 500} : TurnAway(t, status)
    \/ Drain(t) \/ Break(t) \/ Disconnect(t)

AllDone == (\A t \in Requests : stage[t] = "done") /\ ~Breaker!Refusing /\ UNCHANGED vars

Next == Tick \/ (\E t \in Requests : Serve(t) \/ Peer(t)) \/ AllDone

Spec == Init /\ [][Next]_vars

(* The event loop runs every task that can go on; worker threads, sinks and *)
(* the client's timeouts end.  Neither clients nor upstream bodies are      *)
(* assumed to make progress.                                                *)
FairSpec == Spec /\ \A t \in Requests : WF_vars(Serve(t))

-----------------------------------------------------------------------------
Records == [verdict : {"allowed", "rejected"},
            by : Middlewares \cup {"none"}, mutations : BOOLEAN,
            upstream : {"status", "error", "none"}]

TypeOK ==
    /\ stage \in [Requests -> Stages]
    /\ step \in [Requests -> 0..Len(Chain) + 1]
    /\ received \in [Requests -> SUBSET Traits]
    /\ body \in [Requests -> SUBSET Traits]
    /\ rewritten \in [Requests -> BOOLEAN]
    /\ outcome \in [Requests -> Decisions \cup {"none"}]
    /\ sent \in [Requests -> Seq(SUBSET Traits)]
    /\ held \subseteq Requests
    /\ audited \in [Requests -> Seq(Records)]
    /\ reply \in [Requests -> {NoReply, 200, 400, 403, 404, 413, 500, 502}]
    /\ Breaker!TypeOK

(* Nothing goes out that was not screened.  Each configured middleware let  *)
(* pass what it was shown of the request: the client's text up to and with  *)
(* the middleware that rewrites it, and from there on the very text that    *)
(* is sent.  The personal values that were found are gone from that text,   *)
(* and one no middleware rewrites is the client's own.  It is not promised  *)
(* that the middlewares before a redaction would pass the redacted text.    *)
Passes(m, b) == ~Raises(m, b) /\ ~Rejects(m, b)

Shown(t, i, text) ==
    IF \E j \in i..Len(Chain) : Mutates(Chain[j], received[t]) THEN received[t] ELSE text

UpstreamSeesScreened ==
    \A t \in Requests : \A k \in 1..Len(sent[t]) : LET text == sent[t][k] IN
        /\ \A i \in 1..Len(Chain) : Passes(Chain[i], Shown(t, i, text))
        /\ IF \E i \in 1..Len(Chain) : Mutates(Chain[i], received[t])
             THEN "pii" \notin text
             ELSE text = received[t]

(* The ledger and the client agree: a request answered with a policy        *)
(* status, a 502 or the upstream's own status has been handed to the audit  *)
(* sink exactly once, before the answer, with a verdict that names that     *)
(* answer; a request answered without a decision has left no record.        *)
Explains(r, status) ==
    /\ r.verdict = "rejected" <=> status \in {403, 413}
    /\ r.by = "tokenomics" <=> status = 413
    /\ r.upstream = "error" <=> status = 502
    /\ r.upstream = "status" <=> status = 200

LedgerMatchesReply ==
    \A t \in Requests :
        IF reply[t] \in {200, 403, 413, 502}
          THEN Len(audited[t]) = 1 /\ Explains(audited[t][1], reply[t])
          ELSE audited[t] = <<>> \/ stage[t] = "recorded"

(* The ledger and the wire agree: of a request the ledger says was rejected *)
(* nothing went out, one it gives an upstream status for went out once, and *)
(* one it says went out unmodified carried nothing the redaction removes.   *)
LedgerMatchesWire ==
    \A t \in Requests : \A k \in 1..Len(audited[t]) :
        LET r == audited[t][k] IN
        /\ r.verdict = "rejected" => sent[t] = <<>>
        /\ r.upstream = "status" => Len(sent[t]) = 1
        /\ ~r.mutations => \A j \in 1..Len(sent[t]), i \in 1..Len(Chain) :
                              ~Mutates(Chain[i], sent[t][j])

(* The handler implements ProxyContract: upstream, ledger and client hear   *)
(* of a request in this order, once each at most, and are told the same,    *)
(* whatever the other requests, the breaker and the pool do meanwhile.      *)
DecisionOf(r) ==
    CASE r.by = "tokenomics" -> "too_large"
      [] r.verdict = "rejected" /\ r.by # "tokenomics" -> "forbidden"
      [] r.upstream = "status" -> "relayed"
      [] OTHER -> "unreachable"

LedgerOf(records) == [k \in DOMAIN records |-> DecisionOf(records[k])]

Promise == INSTANCE ProxyContract WITH
    sent <- [t \in Requests |-> Len(sent[t])],
    ledger <- [t \in Requests |-> LedgerOf(audited[t])]

KeepsPromise == Promise!Spec

(* No more connections are out than the pool has, and every one is on its   *)
(* way back: it is held by a request that still sends, audits or relays,    *)
(* or by one that ended in a 500 once the upstream had answered, its record *)
(* or its response impossible to build.                                     *)
Abandoned(t) == stage[t] = "done" /\ reply[t] = 500

ConnectionsAccounted ==
    /\ Cardinality(held) <= Pool
    /\ \A t \in held :
          \/ stage[t] = "sending"
          \/ stage[t] \in {"decided", "recorded", "relaying", "closing"} /\ outcome[t] = "relay"
          \/ Abandoned(t)

(* Every request whose body arrived is answered, whatever the upstream, the *)
(* sinks and the other clients do: slow clients may hold every connection   *)
(* of the pool, the breaker may be open.                                    *)
EveryRequestAnswered ==
    \A t \in Requests : stage[t] = "screening" ~> reply[t] # NoReply

(* A connection comes back to the pool, unless its client keeps reading for *)
(* ever or the handler failed with the upstream response in hand.           *)
ConnectionsReturn ==
    \A t \in Requests :
        t \in held ~> t \notin held \/ stage[t] = "relaying" \/ Abandoned(t)

(* The documentation of handle_proxied_request: "Audit is recorded on every *)
(* terminating path" and "Exactly one record is produced per request", of   *)
(* which its body exempts the failures before the envelope is built.        *)
ExactlyOneRecord ==
    \A t \in Requests :
        stage[t] = "done" /\ step[t] > 0 => Len(audited[t]) = 1
=============================================================================
