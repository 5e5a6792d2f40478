----------------------------- MODULE JsonlFile ------------------------------
(***************************************************************************)
(* The JSONL file of proxy/audit/sinks.py and the worker threads its writes  *)
(* share with the scans of the middlewares, through kills and restarts.      *)
(*                                                                          *)
(* anyio.to_thread.run_sync takes one of the threads of the default limiter, *)
(* first come, first served, and gives it back when its task resumes.  A     *)
(* scan asks for a thread and nothing else; an append takes the lock of the  *)
(* sink first and asks for a thread while it holds it.  When the process is  *)
(* killed, what the kernel has appended stays, whole or cut short, and the   *)
(* next process goes on at that very byte.                                   *)
(***************************************************************************)
EXTENDS Naturals, Sequences, FiniteSets

CONSTANTS
    Requests,   \* requests sent to the proxy, each with one record to append
    Workers,    \* threads of the default limiter (anyio: 40)
    Scans,      \* middlewares that scan on a thread: tokenomics, and PII if enabled
    MaxKills    \* bound: kills of the process

ASSUME WorkersAssumption == Workers \in Nat /\ Workers > 1
ASSUME ScansAssumption == Scans \in Nat /\ MaxKills \in Nat

(* The process. *)
VARIABLES
    up,         \* it runs
    stage,      \* where the task of each request is
    scans,      \* scans each request has behind it
    threads,    \* tasks that hold a thread
    queue,      \* tasks that wait for one
    line        \* the owner of the sink's lock and, behind it, those who wait

(* What outlives it. *)
VARIABLES
    file,       \* what was appended, piece by piece: a whole line, or part of one
    missed,     \* records whose append raised (swallowed by the composite)
    ticket,     \* history: the order in which the requests came to record()
    issued,     \* the last ticket
    kills       \* kills so far

process == <<up, stage, scans, threads, queue, line>>
vars == <<up, stage, scans, threads, queue, line, file, missed, ticket, issued, kills>>

(* "handling": on the event loop, or awaiting upstream; "scanning",          *)
(* "auditing": from asking for the thread, or the lock, to the end of the    *)
(* call on the thread; "written": that call is over, the task not resumed.   *)
Live == {"handling", "scanning", "auditing", "written"}
Ended == {"answered", "raised", "killed"}
Stages == {"idle"} \cup Live \cup Ended

Init ==
    /\ up = TRUE
    /\ stage = [r \in Requests |-> "idle"]
    /\ scans = [r \in Requests |-> 0]
    /\ threads = {}
    /\ queue = <<>>
    /\ line = <<>>
    /\ file = <<>>
    /\ missed = {}
    /\ ticket = [r \in Requests |-> 0]
    /\ issued = 0
    /\ kills = 0

To(r, s) == stage' = [stage EXCEPT ![r] = s]

-----------------------------------------------------------------------------
(* CapacityLimiter.acquire: a free thread, or the end of the queue. *)
TakeThread(r) ==
    IF Cardinality(threads) < Workers
    THEN threads' = threads \cup {r} /\ UNCHANGED queue
    ELSE queue' = Append(queue, r) /\ UNCHANGED threads

(* CapacityLimiter.release: the thread goes to whoever waited longest. *)
GiveThread(r) ==
    IF queue = <<>>
    THEN threads' = threads \ {r} /\ UNCHANGED queue
    ELSE threads' = (threads \ {r}) \cup {Head(queue)} /\ queue' = Tail(queue)

Arrive(r) ==
    /\ up
    /\ stage[r] = "idle"
    /\ To(r, "handling")
    /\ UNCHANGED <<up, scans, threads, queue, line, file, missed, ticket, issued, kills>>

(* TokenomicsMiddleware.process, PiiScanMiddleware.process. *)
StartScan(r) ==
    /\ stage[r] = "handling"
    /\ scans[r] < Scans
    /\ To(r, "scanning")
    /\ TakeThread(r)
    /\ UNCHANGED <<up, scans, line, file, missed, ticket, issued, kills>>

(* A bug EveryRequestEnds must notice: the thread is not given back. *)
EndScanKeepsThread(r) ==
    /\ stage[r] = "scanning"
    /\ r \in threads
    /\ scans' = [scans EXCEPT ![r] = @ + 1]
    /\ To(r, "handling")
    /\ UNCHANGED <<up, threads, queue, line, file, missed, ticket, issued, kills>>

(* The scan returns, or raises, and then so does the handler. *)
EndScan(r) ==
    /\ stage[r] = "scanning"
    /\ r \in threads
    /\ scans' = [scans EXCEPT ![r] = @ + 1]
    /\ To(r, "handling") \/ To(r, "raised")
    /\ GiveThread(r)
    /\ UNCHANGED <<up, line, file, missed, ticket, issued, kills>>

(* The verdict and upstream's answer are there, possibly before the last     *)
(* scan: record() serialises the record and asks for the lock.               *)
Audit(r) ==
    /\ stage[r] = "handling"
    /\ To(r, "auditing")
    /\ line' = Append(line, r)
    /\ issued' = issued + 1
    /\ ticket' = [ticket EXCEPT ![r] = issued + 1]
    /\ UNCHANGED <<up, scans, threads, queue, file, missed, kills>>

(* A bug InArrivalOrder and ScansSurviveAHungDisk must notice: the lock is   *)
(* taken on the thread, so that those who wait for it hold threads.          *)
AskThreadUnlocked(r) ==
    /\ stage[r] = "auditing"
    /\ r \notin threads
    /\ \A k \in 1..Len(queue) : queue[k] # r
    /\ TakeThread(r)
    /\ UNCHANGED <<up, stage, scans, line, file, missed, ticket, issued, kills>>

AskThread(r) ==
    /\ stage[r] = "auditing"
    /\ line # <<>> /\ Head(line) = r
    /\ r \notin threads
    /\ \A k \in 1..Len(queue) : queue[k] # r
    /\ TakeThread(r)
    /\ UNCHANGED <<up, stage, scans, line, file, missed, ticket, issued, kills>>

-----------------------------------------------------------------------------
(* _append on its thread: open in append mode, write, close. *)
Writing(r) == stage[r] = "auditing" /\ r \in threads
Whole(r) == [record |-> r, whole |-> TRUE]
Part(r) == [record |-> r, whole |-> FALSE]

(* A bug DamageIsBounded must notice: the record without its newline. *)
WriteUnended(r) ==
    /\ Writing(r)
    /\ file' = Append(file, Part(r))
    /\ To(r, "written")
    /\ UNCHANGED <<up, scans, threads, queue, line, missed, ticket, issued, kills>>

Write(r) ==
    /\ Writing(r)
    /\ file' = Append(file, Whole(r))
    /\ To(r, "written")
    /\ UNCHANGED <<up, scans, threads, queue, line, missed, ticket, issued, kills>>

(* The disk is full, or the path is gone: nothing or a part is appended.     *)
FailWrite(r) ==
    /\ Writing(r)
    /\ file' \in {file, Append(file, Part(r))}
    /\ missed' = missed \cup {r}
    /\ To(r, "written")
    /\ UNCHANGED <<up, scans, threads, queue, line, ticket, issued, kills>>

(* A bug AnsweredIsOnFile must notice: nobody waits for the append. *)
ResumeEarly(r) ==
    /\ stage[r] \in {"auditing", "written"}
    /\ r \in threads
    /\ line # <<>> /\ Head(line) = r
    /\ To(r, "answered")
    /\ GiveThread(r)
    /\ line' = Tail(line)
    /\ UNCHANGED <<up, scans, file, missed, ticket, issued, kills>>

(* The task resumes, gives back thread and lock, and answers its client. *)
Resume(r) ==
    /\ stage[r] = "written"
    /\ line # <<>> /\ Head(line) = r
    /\ To(r, "answered")
    /\ GiveThread(r)
    /\ line' = Tail(line)
    /\ UNCHANGED <<up, scans, file, missed, ticket, issued, kills>>

(* The kernel serves one append at a time: at most one is cut short. *)
Kill ==
    /\ up
    /\ kills < MaxKills
    /\ kills' = kills + 1
    /\ up' = FALSE
    /\ \/ UNCHANGED file
       \/ \E r \in Requests : Writing(r) /\ file' = Append(file, Part(r))
    /\ stage' = [r \in Requests |-> IF stage[r] \in Live THEN "killed" ELSE stage[r]]
    /\ threads' = {}
    /\ queue' = <<>>
    /\ line' = <<>>
    /\ UNCHANGED <<scans, missed, ticket, issued>>

Restart ==
    /\ ~up
    /\ up' = TRUE
    /\ UNCHANGED <<stage, scans, threads, queue, line, file, missed, ticket, issued, kills>>

(* No client has anything left to ask. *)
Quiet == up /\ (\A r \in Requests : stage[r] \in Ended) /\ UNCHANGED vars

Next ==
    \/ \E r \in Requests :
          \/ Arrive(r) \/ StartScan(r) \/ EndScan(r) \/ Audit(r) \/ AskThread(r)
          \/ Write(r) \/ FailWrite(r) \/ Resume(r)
    \/ Kill
    \/ Restart
    \/ Quiet

(* Scans end and the event loop runs who can go on; httpx's time-outs end    *)
(* the wait for upstream.  No append is obliged to end, no client to ask and *)
(* nobody to restart the process.                                            *)
Spec ==
    /\ Init
    /\ [][Next]_vars
    /\ \A r \in Requests :
        /\ WF_vars(StartScan(r) \/ Audit(r))
        /\ WF_vars(EndScan(r))
        /\ WF_vars(AskThread(r))
        /\ WF_vars(Resume(r))

-----------------------------------------------------------------------------
TypeOK ==
    /\ up \in BOOLEAN
    /\ stage \in [Requests -> Stages]
    /\ scans \in [Requests -> Nat]
    /\ threads \subseteq Requests
    /\ queue \in Seq(Requests)
    /\ line \in Seq(Requests)
    /\ file \in Seq([record: Requests, whole: BOOLEAN])
    /\ missed \subseteq Requests
    /\ ticket \in [Requests -> Nat]
    /\ issued \in Nat
    /\ kills \in Nat

(* An answered request is on the file, and one that was killed may be: the   *)
(* answer waits for the append, so a kill takes no record whose client was   *)
(* answered, except those whose append raised.                              *)
OnFile(r) == \E k \in 1..Len(file) : file[k] = Whole(r)

AnsweredIsOnFile ==
    \A r \in Requests : stage[r] = "answered" => OnFile(r) \/ r \in missed

(* The file is in the order in which record() was called, each record there  *)
(* once at most, through every kill and failed append: the order of the lock *)
(* is the order of the threads' writes.                                      *)
InArrivalOrder ==
    \A j, k \in 1..Len(file) : j < k => ticket[file[j].record] < ticket[file[k].record]

(* sinks.py: "partial writes at process kill are limited to the last         *)
(* in-flight line".  The line that is cut short is lost, and so is the next  *)
(* one, which is glued to it; no kill and no failed append costs more.       *)
Readable(k) == file[k].whole /\ (k > 1 => file[k - 1].whole)

DamageIsBounded ==
    Cardinality({k \in 1..Len(file) : ~Readable(k)}) <= 2 * (kills + Cardinality(missed))

(* Waiting for the lock costs no thread: appends hold one thread at most, so *)
(* a disk that never answers leaves the others to the scans, and every scan  *)
(* still gets its thread and ends (or the process does).                     *)
OneWriter == \A r, s \in Requests : Writing(r) /\ Writing(s) => r = s

ScansSurviveAHungDisk ==
    \A r \in Requests : stage[r] = "scanning" ~> stage[r] # "scanning"

(* Lock and threads are taken in one order only, so nobody waits for ever:   *)
(* as long as appends end, every request that arrived ends.                  *)
DiskAnswers == []<>(\A r \in Requests : ~Writing(r))

EveryRequestEnds ==
    DiskAnswers => \A r \in Requests : stage[r] # "idle" ~> stage[r] \in Ended
=============================================================================
