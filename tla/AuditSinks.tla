----------------------------- MODULE AuditSinks ----------------------------
(***************************************************************************)
(* proxy/audit: the CompositeAuditSink and the four sinks _build_audit_sink *)
(* composes, shared by all request tasks of the process.                    *)
(*                                                                          *)
(* A task runs record() of one sink after the other, in declaration order.  *)
(* All sinks but the logging one hold an anyio.Lock around their write.     *)
(* That lock is handed directly to the task that has waited longest, so it  *)
(* is modelled by the line of tasks at it, whose head is the owner.  What a *)
(* task does between two awaits is one step: it leaves one sink, passes the *)
(* logging sink (which never awaits) and joins the line of the next.        *)
(***************************************************************************)
EXTENDS Integers, Sequences

CONSTANTS
    Tasks,      \* request tasks, each with one record to audit
    Sinks,      \* the composite's sinks in declaration order
    Capacity,   \* memory_capacity: records the ring retains
    Ids,        \* values of X-Request-Id, chosen by the clients
    NoId,       \* a task that has not come to its audit yet
    Faulty      \* the kinds of sink whose write may raise

Kinds == {"ring", "log", "jsonl", "duckdb"}

ASSUME SinksAssumption ==
    /\ Sinks \in Seq(Kinds)
    /\ \A i, j \in 1..Len(Sinks) : Sinks[i] = Sinks[j] => i = j
ASSUME CapacityAssumption == Capacity \in Nat \ {0}
ASSUME FaultyAssumption == Faulty \subseteq Kinds \ {"ring"}
ASSUME IdsAssumption == NoId \notin Ids

N == Len(Sinks)
Index == 1..N

VARIABLES
    at,         \* the sink each task is at; 0 before the first, N + 1 after the last
    id,         \* the request_id of each task's record
    line,       \* the owner of each sink's lock and, behind it, those who wait
    written,    \* the owner's worker-thread write is over, its task not resumed yet
    kept,       \* the contents of each sink: deque, log, file, table
    lost,       \* the records whose write a sink raised on (logged, swallowed)
    left,       \* history: the tasks that left each sink, in order; left[0] is
                \* the order in which the composite's record() was called
    closed      \* aclose() ran

vars == <<at, id, line, written, kept, lost, left, closed>>

Returned(t) == at[t] = N + 1
Waiting(t) == at[t] \in Index
Owner(i) == Head(line[i])
Has(s, t) == \E k \in 1..Len(s) : s[k] = t

Init ==
    /\ at = [t \in Tasks |-> 0]
    /\ id = [t \in Tasks |-> NoId]
    /\ line = [i \in Index |-> <<>>]
    /\ written = [i \in Index |-> FALSE]
    /\ kept = [i \in Index |-> <<>>]
    /\ lost = [i \in Index |-> {}]
    /\ left = [i \in 0..N |-> <<>>]
    /\ closed = FALSE

(* A bug RingIsRecent must notice, as the others below are named for the     *)
(* properties that catch them; no specification uses them.                  *)
EvictNewest(s) == IF Len(s) > Capacity THEN SubSeq(s, 1, Capacity) ELSE s

(* deque(maxlen=Capacity).append *)
Evict(s) == IF Len(s) > Capacity THEN Tail(s) ELSE s

-----------------------------------------------------------------------------
IsLog(i) == i \in Index /\ Sinks[i] = "log"

(* After sink i a task runs through the logging sink, if that is the next   *)
(* one, and stops at the lock of the sink after it.                         *)
Passed(i) == IF IsLog(i + 1) THEN {i + 1} ELSE {}
NextStop(i) == IF IsLog(i + 1) THEN i + 2 ELSE i + 1

(* A bug OneStream must notice: a lock that lets newcomers overtake. *)
JoinsAhead(s, t) == IF Len(s) < 2 THEN Append(s, t) ELSE <<Head(s), t>> \o Tail(s)

(* anyio.Lock: a newcomer queues up behind those who wait already. *)
Join(s, t) == Append(s, t)

(* Task t is done with sink i (0: it calls the composite's record()) and    *)
(* goes on to its next stop, or returns to the handler after the last sink. *)
(* `k` is the contents of the sinks so far; `emitted` says whether the log  *)
(* call, if one is passed, succeeded.                                       *)
Advance(t, i, k, emitted) ==
    LET next == NextStop(i)
        passed == Passed(i)
    IN  /\ emitted \/ \E j \in passed : Sinks[j] \in Faulty
        /\ at' = [at EXCEPT ![t] = next]
        /\ line' = [j \in Index |-> IF j = i THEN Tail(line[j])
                                    ELSE IF j = next THEN Join(line[j], t)
                                    ELSE line[j]]
        /\ kept' = [j \in Index |-> IF j \in passed /\ emitted THEN Append(k[j], t) ELSE k[j]]
        /\ lost' = [j \in Index |-> IF j \in passed /\ ~emitted THEN lost[j] \cup {t} ELSE lost[j]]
        /\ left' = [j \in 0..N |-> IF j \in {i} \cup passed THEN Append(left[j], t) ELSE left[j]]

(* _record_audit awaits sink.record(record). *)
Record(t, r, emitted) ==
    /\ at[t] = 0
    /\ ~closed
    /\ id' = [id EXCEPT ![t] = r]
    /\ Advance(t, 0, kept, emitted)
    /\ UNCHANGED <<written, closed>>

(* InMemoryAuditSink.record: the append follows the acquisition of the lock *)
(* on the event loop and cannot fail.                                       *)
AppendToRing(i, emitted) ==
    /\ Sinks[i] = "ring"
    /\ line[i] # <<>>
    /\ Advance(Owner(i), i, [kept EXCEPT ![i] = Evict(Append(@, Owner(i)))], emitted)
    /\ UNCHANGED <<id, written, closed>>

(* JsonlAuditSink._append or DuckdbAuditSink._execute_insert, on a worker   *)
(* thread, for the owner of the lock.  request_id is the table's PRIMARY    *)
(* KEY, and a closed connection executes nothing.                           *)
Insertable(i, t) ==
    Sinks[i] = "duckdb" => ~closed /\ \A u \in Tasks : Has(kept[i], u) => id[u] # id[t]

(* A bug ObservesOneStream must notice: an insert that raised is retried    *)
(* until it succeeds, though the record was given up.                       *)
WriteLate(i) ==
    /\ Sinks[i] \in {"jsonl", "duckdb"}
    /\ line[i] # <<>>
    /\ \E t \in lost[i] \cup {Owner(i)} :
          /\ ~written[i] \/ t # Owner(i)
          /\ ~Has(kept[i], t)
          /\ kept' = [kept EXCEPT ![i] = Append(@, t)]
          /\ written' = [written EXCEPT ![i] = @ \/ t = Owner(i)]
    /\ UNCHANGED <<at, id, line, lost, left, closed>>

Write(i) ==
    /\ Sinks[i] \in {"jsonl", "duckdb"}
    /\ line[i] # <<>>
    /\ ~written[i]
    /\ Insertable(i, Owner(i))
    /\ written' = [written EXCEPT ![i] = TRUE]
    /\ kept' = [kept EXCEPT ![i] = Append(@, Owner(i))]
    /\ UNCHANGED <<at, id, line, lost, left, closed>>

FailWrite(i) ==
    /\ Sinks[i] \in {"jsonl", "duckdb"}
    /\ line[i] # <<>>
    /\ ~written[i]
    /\ Sinks[i] \in Faulty \/ ~Insertable(i, Owner(i))
    /\ written' = [written EXCEPT ![i] = TRUE]
    /\ lost' = [lost EXCEPT ![i] = @ \cup {Owner(i)}]
    /\ UNCHANGED <<at, id, line, kept, left, closed>>

(* Bugs the properties below must notice.  The first has no try around the  *)
(* sink's record(): a fault ends the fan-out.  The second keeps the lock    *)
(* when the write raised.                                                   *)
ResumeAborting(i, emitted) ==
    /\ line[i] # <<>>
    /\ written[i]
    /\ written' = [written EXCEPT ![i] = FALSE]
    /\ IF Owner(i) \in lost[i]
         THEN /\ at' = [at EXCEPT ![Owner(i)] = N + 1]
              /\ line' = [line EXCEPT ![i] = Tail(@)]
              /\ left' = [left EXCEPT ![i] = Append(@, Owner(i))]
              /\ UNCHANGED <<kept, lost>>
         ELSE Advance(Owner(i), i, kept, emitted)
    /\ UNCHANGED <<id, closed>>

ResumeOnSuccess(i, emitted) ==
    /\ line[i] # <<>>
    /\ written[i]
    /\ Owner(i) \notin lost[i]
    /\ written' = [written EXCEPT ![i] = FALSE]
    /\ Advance(Owner(i), i, kept, emitted)
    /\ UNCHANGED <<id, closed>>

(* The worker thread is done and the owner's task resumes: it leaves the    *)
(* `async with`, the composite logs the exception if there was one, and     *)
(* goes on with the next sink.                                              *)
Resume(i, emitted) ==
    /\ line[i] # <<>>
    /\ written[i]
    /\ written' = [written EXCEPT ![i] = FALSE]
    /\ Advance(Owner(i), i, kept, emitted)
    /\ UNCHANGED <<id, closed>>

(* The lifespan's finally: sink.aclose(), once no request is being handled. *)
Close ==
    /\ ~closed
    /\ \A t \in Tasks : ~Waiting(t)
    /\ closed' = TRUE
    /\ UNCHANGED <<at, id, line, written, kept, lost, left>>

(* The process is gone. *)
Stopped == closed /\ UNCHANGED vars

Next ==
    \/ \E t \in Tasks, r \in Ids, e \in BOOLEAN : Record(t, r, e)
    \/ \E i \in Index, e \in BOOLEAN : AppendToRing(i, e)
    \/ \E i \in Index : Write(i)
    \/ \E i \in Index : FailWrite(i)
    \/ \E i \in Index, e \in BOOLEAN : Resume(i, e)
    \/ Close
    \/ Stopped

Spec == Init /\ [][Next]_vars

(* The event loop runs every task that can go on, and worker threads finish *)
(* their write, well or badly.  No client is obliged to send a request.     *)
Fairness ==
    \A i \in Index :
        /\ WF_vars(\E e \in BOOLEAN : AppendToRing(i, e))
        /\ WF_vars(Write(i) \/ FailWrite(i))
        /\ WF_vars(\E e \in BOOLEAN : Resume(i, e))

FairSpec == Spec /\ Fairness

-----------------------------------------------------------------------------
TypeOK ==
    /\ at \in [Tasks -> 0..N + 1]
    /\ id \in [Tasks -> Ids \cup {NoId}]
    /\ line \in [Index -> Seq(Tasks)]
    /\ written \in [Index -> BOOLEAN]
    /\ kept \in [Index -> Seq(Tasks)]
    /\ lost \in [Index -> SUBSET Tasks]
    /\ left \in [0..N -> Seq(Tasks)]
    /\ closed \in BOOLEAN
    /\ \A i \in Index : Sinks[i] = "ring" => Len(kept[i]) <= Capacity

(* First come, first served along the whole chain: what has left a sink is  *)
(* what left the next one, in the same order, followed by those in line at  *)
(* the next one.  No record overtakes another between two sinks, none is    *)
(* dropped on the way and none is handed to a sink twice.                   *)
OneStream ==
    \A i \in Index : left[i - 1] = left[i] \o line[i]

(* A task stands in one line at most, once, and it is the line of the sink  *)
(* it is at; nobody ever waits for the logging sink; and a finished write   *)
(* always has an owner to resume, in a sink that writes on a thread.        *)
LinesMatchTasks ==
    /\ \A i \in Index : \A k, m \in 1..Len(line[i]) : line[i][k] = line[i][m] => k = m
    /\ \A i \in Index : \A k \in 1..Len(line[i]) : at[line[i][k]] = i
    /\ \A i \in Index : IsLog(i) => line[i] = <<>>
    /\ \A i \in Index : written[i] => line[i] # <<>> /\ Sinks[i] # "ring"

AuditInv == TypeOK /\ OneStream /\ LinesMatchTasks

(* A fault in one sink starves no other: when the composite's record()      *)
(* returns, each sink has been offered the record, once, and either holds   *)
(* it or was the very sink that raised on it.                               *)
Isolated ==
    \A t \in Tasks, i \in Index : Returned(t) =>
        /\ Has(left[i], t)
        /\ Sinks[i] # "ring" => (Has(kept[i], t) <=> t \notin lost[i])

(* The ring holds the latest Capacity records that passed it, oldest first, *)
(* which is what /stats/recent reverses and cuts.                           *)
RingIsRecent ==
    \A i \in Index : Sinks[i] = "ring" =>
        LET n == Len(left[i])
        IN  kept[i] = SubSeq(left[i], IF n > Capacity THEN n - Capacity + 1 ELSE 1, n)

(* Every sink observes the one stream of AuditStream, in order, missing     *)
(* only what it failed on itself, so that the log, the JSONL file and the    *)
(* DuckDB table can be joined on position, although only locks of their own  *)
(* serialise them.  (The ring's evictions are RingIsRecent.)                *)
Contract == INSTANCE AuditStream WITH
    Records <- Tasks,
    stream <- left[0],
    taken <- [i \in Index |-> Len(left[i]) + (IF written[i] THEN 1 ELSE 0)],
    accepted <- [i \in Index |-> IF Sinks[i] = "ring" THEN left[i] ELSE kept[i]]

ObservesOneStream == Contract!Spec

(* No record() hangs in a line: whoever is asked to audit returns to its    *)
(* handler, whatever the sinks raise, so no response waits for ever.        *)
EveryRecordReturns ==
    \A t \in Tasks : Waiting(t) ~> Returned(t)

(* The module documentation of composite.py: the sinks "must all observe    *)
(* the same record stream".  With no sink faulty, the durable sinks hold    *)
(* the same records once every record() has returned.                       *)
SameRecords ==
    (Faulty = {} /\ \A t \in Tasks : ~Waiting(t)) =>
        \A i, j \in Index : \A t \in Tasks :
            Sinks[i] # "ring" /\ Sinks[j] # "ring" /\ Has(kept[i], t) => Has(kept[j], t)
=============================================================================
