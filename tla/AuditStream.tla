---------------------------- MODULE AuditStream ----------------------------
(***************************************************************************)
(* What proxy/audit/composite.py promises: the configured sinks "must all   *)
(* observe the same record stream", and a fault in one "must never starve   *)
(* the others".                                                             *)
(*                                                                          *)
(* There is one stream of records.  Every sink takes it from the front, at  *)
(* its own pace but never ahead of a sink declared before it; a sink may    *)
(* fail to accept the record it takes, and then goes on with the next one.  *)
(* Nothing is ever reordered, repeated or invented.                         *)
(***************************************************************************)
EXTENDS Naturals, Sequences

CONSTANTS
    Records,    \* the audit records of the run
    N           \* the number of sinks, in declaration order

VARIABLES
    stream,     \* the records in the order record() was called
    taken,      \* how many of them each sink has dealt with
    accepted    \* the records each sink took and did not fail on, in order

vars == <<stream, taken, accepted>>

Init ==
    /\ stream = <<>>
    /\ taken = [i \in 1..N |-> 0]
    /\ accepted = [i \in 1..N |-> <<>>]

Unpublished == {r \in Records : \A k \in 1..Len(stream) : stream[k] # r}

(* The sinks in `movers` each take their next record, those in `keepers`    *)
(* accept it.                                                               *)
Take(movers, keepers) ==
    /\ taken' = [i \in 1..N |-> IF i \in movers THEN taken[i] + 1 ELSE taken[i]]
    /\ \A i \in 1..N : taken'[i] <= IF i = 1 THEN Len(stream') ELSE taken'[i - 1]
    /\ accepted' = [i \in 1..N |-> IF i \in keepers
                                     THEN Append(accepted[i], stream'[taken'[i]])
                                     ELSE accepted[i]]

Publish ==
    \/ UNCHANGED stream
    \/ \E r \in Unpublished : stream' = Append(stream, r)

Next ==
    /\ Publish
    /\ \E movers \in SUBSET (1..N) :
          \E keepers \in SUBSET movers : Take(movers, keepers)

Spec == Init /\ [][Next]_vars
=============================================================================
