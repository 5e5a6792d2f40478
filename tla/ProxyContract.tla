--------------------------- MODULE ProxyContract ---------------------------
(***************************************************************************)
(* What the proxy promises about every request, without the middlewares,    *)
(* the breaker, the connection pool or the order its tasks run in.          *)
(*                                                                          *)
(* Three parties may hear of a request: the upstream, the audit ledger and  *)
(* the client.  They hear of it in that order, each once at most, and what  *)
(* the later ones are told is true of the earlier ones.  A request that     *)
(* fails on the way is told to the client alone.  ProxyHandler.tla is shown *)
(* to implement this module.                                                *)
(***************************************************************************)
EXTENDS Naturals, Sequences

CONSTANT
    Requests    \* the requests, each of them one task of the server

VARIABLES
    sent,       \* how often each request went out to the upstream
    ledger,     \* the decisions the audit sink was handed for each request
    reply       \* the status each client was answered, 0 for none yet

vars == <<sent, ledger, reply>>

Init ==
    /\ sent = [t \in Requests |-> 0]
    /\ ledger = [t \in Requests |-> <<>>]
    /\ reply = [t \in Requests |-> 0]

(* One of the three, who knew nothing of a request, hears of it. *)
Hears(party, t, nothing) == party[t] = nothing /\ party'[t] # nothing

(* Neither the ledger nor the client has been told anything. *)
Undecided(t) == ledger[t] = <<>> /\ reply[t] = 0

(* A request goes out while it is undecided, and does not go out again. *)
Forward(t) ==
    /\ Hears(sent, t, 0)
    /\ Undecided(t)
    /\ sent' = [sent EXCEPT ![t] = 1]
    /\ UNCHANGED <<ledger, reply>>

(* What may be said of a request: a policy turned down what was never sent, *)
(* what was sent has been answered, or the upstream could not be reached or *)
(* did not answer.                                                          *)
Decisions == {"forbidden", "too_large", "relayed", "unreachable"}

Truthful(decision, t) ==
    \/ decision \in {"forbidden", "too_large"} /\ sent[t] = 0
    \/ decision = "relayed" /\ sent[t] = 1
    \/ decision = "unreachable"

Record(t) ==
    /\ Hears(ledger, t, <<>>)
    /\ Undecided(t)
    /\ \E decision \in Decisions :
          Truthful(decision, t) /\ ledger' = [ledger EXCEPT ![t] = <<decision>>]
    /\ UNCHANGED <<sent, reply>>

Status == [forbidden |-> 403, too_large |-> 413, relayed |-> 200, unreachable |-> 502]

Answer(t) ==
    /\ Hears(reply, t, 0)
    /\ ledger[t] # <<>>
    /\ reply' = [reply EXCEPT ![t] = Status[ledger[t][1]]]
    /\ UNCHANGED <<sent, ledger>>

(* Not a proxied request at all (404, 400), or an exception on its way.     *)
GiveUp(t) ==
    /\ Hears(reply, t, 0)
    /\ Undecided(t)
    /\ \E status \in {400, 404, 500} : reply' = [reply EXCEPT ![t] = status]
    /\ UNCHANGED <<sent, ledger>>

Next == \E t \in Requests : Forward(t) \/ Record(t) \/ Answer(t) \/ GiveUp(t)

Spec == Init /\ [][Next]_vars
=============================================================================
