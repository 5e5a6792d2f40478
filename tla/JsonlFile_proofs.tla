-------------------------- MODULE JsonlFile_proofs --------------------------
(***************************************************************************)
(* Safety of JsonlFile for any number of requests, threads, scans and kills. *)
(*                                                                          *)
(* The file is in the order of the tickets because three facts hold          *)
(* together: the line of the lock is in the order of the tickets, whoever   *)
(* audits and has (or awaits) a thread is the head of that line, and what   *)
(* is on the file has an older ticket than anyone who has still to append.  *)
(*                                                                          *)
(* The damage is bounded because every piece that lacks its end is paid for  *)
(* by a kill or by a record whose append raised, and none of these is        *)
(* counted twice: no request appends again after its append has raised.      *)
(***************************************************************************)
EXTENDS JsonlFile, SequenceTheorems, FiniteSetTheorems, TLAPS

InQueue(r) == \E k \in 1..Len(queue) : queue[k] = r
InPool(r) == r \in threads \/ InQueue(r)
Auditing(r) == stage[r] \in {"auditing", "written"}

(* Nobody is in the pool of threads twice. *)
Apart ==
    /\ \A k \in 1..Len(queue) : queue[k] \notin threads
    /\ \A j, k \in 1..Len(queue) : queue[j] = queue[k] => j = k

(* Only scans and the owner of the lock are in the pool, and a task whose   *)
(* append is over is that owner.                                            *)
Owned ==
    /\ \A r \in Requests : InPool(r) => stage[r] = "scanning" \/ Auditing(r)
    /\ \A r \in Requests : (InPool(r) /\ Auditing(r)) \/ stage[r] = "written" =>
          line # <<>> /\ line[1] = r
    /\ \A r \in Requests : stage[r] = "written" => r \in threads

Lined ==
    /\ \A j, k \in 1..Len(line) : j < k => ticket[line[j]] < ticket[line[k]]
    /\ \A k \in 1..Len(line) : Auditing(line[k]) /\ ticket[line[k]] <= issued

Filed ==
    /\ \A k \in 1..Len(file) :
          /\ ticket[file[k].record] <= issued
          /\ stage[file[k].record] \in Ended \cup {"written"}
    /\ \A k \in 1..Len(file), m \in 1..Len(line) :
          stage[line[m]] = "auditing" => ticket[file[k].record] < ticket[line[m]]

Appended ==
    \A r \in Requests : stage[r] \in {"written", "answered"} => OnFile(r) \/ r \in missed

FileInv == TypeOK /\ Apart /\ Owned /\ Lined /\ Filed /\ InArrivalOrder /\ Appended

-----------------------------------------------------------------------------
(* A task that takes a thread is in the pool afterwards, and nobody else is  *)
(* who was not.  (CapacityLimiter.acquire)                                   *)
LEMMA TakeThreadJoins ==
    ASSUME TypeOK, Apart, NEW r \in Requests, ~InPool(r), TakeThread(r)
    PROVE  /\ threads' \subseteq Requests /\ queue' \in Seq(Requests)
           /\ Apart' /\ threads \subseteq threads'
           /\ \A s \in Requests : InPool(s)' => s = r \/ InPool(s)
<1>1. CASE Cardinality(threads) < Workers
  BY <1>1 DEF TakeThread, TypeOK, Apart, InPool, InQueue
<1>2. CASE ~(Cardinality(threads) < Workers)
  <2>1. queue' = Append(queue, r) /\ threads' = threads
    BY <1>2 DEF TakeThread
  <2>2. /\ queue' \in Seq(Requests)
        /\ Len(queue') = Len(queue) + 1
        /\ queue'[Len(queue) + 1] = r
        /\ \A k \in 1..Len(queue) : queue'[k] = queue[k]
    BY <2>1 DEF TypeOK
  <2>3. Len(queue) \in Nat
    BY DEF TypeOK
  <2> QED
    BY <2>1, <2>2, <2>3 DEF TypeOK, Apart, InPool, InQueue
<1> QED
  BY <1>1, <1>2

(* A task that gives its thread back is out of the pool, and nobody joins    *)
(* it: the thread goes to one who waited.  (CapacityLimiter.release)         *)
LEMMA GiveThreadLeaves ==
    ASSUME TypeOK, Apart, NEW r \in Requests, r \in threads, GiveThread(r)
    PROVE  /\ threads' \subseteq Requests /\ queue' \in Seq(Requests)
           /\ Apart' /\ threads \ {r} \subseteq threads'
           /\ \A s \in Requests : InPool(s)' => s # r /\ InPool(s)
<1>1. CASE queue = <<>>
  BY <1>1 DEF GiveThread, TypeOK, Apart, InPool, InQueue
<1>2. CASE queue # <<>>
  <2>1. threads' = (threads \ {r}) \cup {queue[1]} /\ queue' = Tail(queue)
    BY <1>2 DEF GiveThread, TypeOK
  <2>2. /\ queue' \in Seq(Requests)
        /\ Len(queue') = Len(queue) - 1
        /\ Len(queue) \in Nat \ {0}
        /\ \A k \in 1..Len(queue) - 1 : queue'[k] = queue[k + 1]
    BY <1>2, <2>1 DEF TypeOK
  <2>3. queue[1] \in Requests
    BY <2>2 DEF TypeOK
  <2>4. \A k \in 1..Len(queue') : k + 1 \in 1..Len(queue) /\ k + 1 # 1 /\ queue'[k] = queue[k + 1]
    BY <2>2
  <2>5. 1 \in 1..Len(queue)
    BY <2>2
  <2>6. Apart'
    <3>1. \A k \in 1..Len(queue') : queue'[k] \notin threads'
      BY <2>1, <2>4, <2>5 DEF Apart
    <3>2. \A j, k \in 1..Len(queue') : queue'[j] = queue'[k] => j = k
      BY <2>2, <2>4 DEF Apart
    <3> QED
      BY <3>1, <3>2 DEF Apart
  <2>7. \A s \in Requests : InPool(s)' => s # r /\ InPool(s)
    BY <2>1, <2>4, <2>5 DEF Apart, InPool, InQueue
  <2> QED
    BY <2>1, <2>2, <2>3, <2>6, <2>7 DEF TypeOK
<1> QED
  BY <1>1, <1>2

(* A line that is joined at its end or left at its head. *)
LEMMA LineJoins ==
    ASSUME TypeOK, NEW r \in Requests, line' = Append(line, r)
    PROVE  /\ line' \in Seq(Requests)
           /\ Len(line') = Len(line) + 1 /\ Len(line) \in Nat
           /\ line'[Len(line) + 1] = r
           /\ \A k \in 1..Len(line) : line'[k] = line[k]
           /\ line # <<>> => line' # <<>> /\ line'[1] = line[1]
BY DEF TypeOK

LEMMA LineLeaves ==
    ASSUME TypeOK, line # <<>>, line' = Tail(line)
    PROVE  /\ line' \in Seq(Requests)
           /\ Len(line') = Len(line) - 1 /\ Len(line) \in Nat \ {0}
           /\ \A k \in 1..Len(line') : k + 1 \in 1..Len(line) /\ line'[k] = line[k + 1]
BY DEF TypeOK

LEMMA FileGrows ==
    ASSUME TypeOK, NEW r \in Requests, NEW w \in BOOLEAN,
           file' = Append(file, [record |-> r, whole |-> w])
    PROVE  /\ file' \in Seq([record: Requests, whole: BOOLEAN])
           /\ Len(file') = Len(file) + 1 /\ Len(file) \in Nat
           /\ file'[Len(file) + 1] = [record |-> r, whole |-> w]
           /\ \A k \in 1..Len(file) : file'[k] = file[k]
BY DEF TypeOK

-----------------------------------------------------------------------------
LEMMA Elements ==
    ASSUME TypeOK
    PROVE  /\ \A k \in 1..Len(file) : file[k].record \in Requests
           /\ \A m \in 1..Len(line) : line[m] \in Requests
<1>1. \A k \in 1..Len(file) : file[k] \in [record: Requests, whole: BOOLEAN]
  BY ElementOfSeq DEF TypeOK
<1>2. \A m \in 1..Len(line) : line[m] \in Requests
  BY ElementOfSeq DEF TypeOK
<1> QED
  BY <1>1, <1>2

(* A step of one request whose record is not on the file, and which ends up  *)
(* at no point where it appends, leaves the file as it should be.            *)
LEMMA FiledKeeps ==
    ASSUME TypeOK, Filed, InArrivalOrder, NEW r \in Requests, NEW s,
           stage' = [stage EXCEPT ![r] = s],
           stage[r] \notin Ended \cup {"written"}, s # "auditing",
           UNCHANGED <<line, file, ticket, issued>>
    PROVE  Filed' /\ InArrivalOrder'
<1>1. \A u \in Requests : u # r => stage'[u] = stage[u]
  BY DEF TypeOK
<1>2. stage'[r] = s
  BY DEF TypeOK
<1>3. Filed'
  <2>1. ASSUME NEW k \in 1..Len(file)
        PROVE  ticket[file[k].record] <= issued /\ stage'[file[k].record] \in Ended \cup {"written"}
    <3>1. file[k].record # r /\ file[k].record \in Requests
      BY Elements DEF Filed
    <3> QED
      BY <1>1, <3>1 DEF Filed
  <2>2. ASSUME NEW k \in 1..Len(file), NEW m \in 1..Len(line), stage'[line[m]] = "auditing"
        PROVE  ticket[file[k].record] < ticket[line[m]]
    <3>1. line[m] # r /\ line[m] \in Requests
      BY <1>2, <2>2, Elements
    <3> QED
      BY <1>1, <2>2, <3>1 DEF Filed
  <2> QED
    BY <2>1, <2>2 DEF Filed
<1> QED
  BY <1>3 DEF InArrivalOrder

-----------------------------------------------------------------------------
LEMMA InitInv == Init => FileInv
BY DEF Init, FileInv, TypeOK, Apart, Owned, Lined, Filed, InArrivalOrder, Appended,
       InPool, InQueue, Auditing, Stages, Live, Ended

LEMMA ArriveInv == ASSUME FileInv, NEW r \in Requests, Arrive(r) PROVE FileInv'
<1>1. stage[r] = "idle" /\ stage' = [stage EXCEPT ![r] = "handling"]
  BY DEF Arrive, To
<1>2. UNCHANGED <<threads, queue, line, file, missed, ticket, issued>>
  BY DEF Arrive
<1>3. TypeOK'
  BY DEF Arrive, To, FileInv, TypeOK, Stages, Live
<1>4. Apart' /\ InArrivalOrder'
  BY <1>2 DEF FileInv, Apart, InArrivalOrder
<1>5. Owned'
  BY <1>1, <1>2 DEF FileInv, TypeOK, Owned, InPool, InQueue, Auditing
<1>6. Lined'
  BY <1>1, <1>2 DEF FileInv, TypeOK, Lined, Auditing
<1>7. Filed'
  BY <1>1, <1>2, FiledKeeps DEF FileInv, Ended
<1>8. Appended'
  BY <1>1, <1>2 DEF FileInv, TypeOK, Appended, OnFile
<1> QED
  BY <1>3, <1>4, <1>5, <1>6, <1>7, <1>8 DEF FileInv

LEMMA StartScanInv == ASSUME FileInv, NEW r \in Requests, StartScan(r) PROVE FileInv'
<1>1. stage[r] = "handling" /\ stage' = [stage EXCEPT ![r] = "scanning"]
  BY DEF StartScan, To
<1>2. UNCHANGED <<line, file, missed, ticket, issued>>
  BY DEF StartScan
<1>3. ~InPool(r)
  BY <1>1 DEF FileInv, Owned, Auditing
<1>4. /\ threads' \subseteq Requests /\ queue' \in Seq(Requests)
      /\ Apart' /\ threads \subseteq threads'
      /\ \A s \in Requests : InPool(s)' => s = r \/ InPool(s)
  BY <1>3, TakeThreadJoins DEF FileInv, StartScan
<1>5. TypeOK'
  BY <1>4 DEF StartScan, To, FileInv, TypeOK, Stages, Live
<1>6. Owned'
  BY <1>1, <1>2, <1>4 DEF FileInv, TypeOK, Owned, Auditing
<1>7. Lined'
  BY <1>1, <1>2 DEF FileInv, TypeOK, Lined, Auditing
<1>8. Filed' /\ InArrivalOrder'
  BY <1>1, <1>2, FiledKeeps DEF FileInv, Ended
<1>9. Appended'
  BY <1>1, <1>2 DEF FileInv, TypeOK, Appended, OnFile
<1> QED
  BY <1>4, <1>5, <1>6, <1>7, <1>8, <1>9 DEF FileInv

LEMMA EndScanInv == ASSUME FileInv, NEW r \in Requests, EndScan(r) PROVE FileInv'
<1>1. PICK s \in {"handling", "raised"} :
        stage[r] = "scanning" /\ stage' = [stage EXCEPT ![r] = s]
  BY DEF EndScan, To
<1>2. UNCHANGED <<line, file, missed, ticket, issued>> /\ r \in threads
  BY DEF EndScan
<1>3. /\ threads' \subseteq Requests /\ queue' \in Seq(Requests)
      /\ Apart' /\ threads \ {r} \subseteq threads'
      /\ \A u \in Requests : InPool(u)' => u # r /\ InPool(u)
  BY <1>2, GiveThreadLeaves DEF FileInv, EndScan
<1>4. TypeOK'
  BY <1>1, <1>3 DEF EndScan, FileInv, TypeOK, Stages, Live, Ended
<1>5. Owned'
  BY <1>1, <1>2, <1>3 DEF FileInv, TypeOK, Owned, Auditing
<1>6. Lined'
  BY <1>1, <1>2 DEF FileInv, TypeOK, Lined, Auditing
<1>7. Filed' /\ InArrivalOrder'
  BY <1>1, <1>2, FiledKeeps DEF FileInv, Ended
<1>8. Appended'
  BY <1>1, <1>2 DEF FileInv, TypeOK, Appended, OnFile
<1> QED
  BY <1>3, <1>4, <1>5, <1>6, <1>7, <1>8 DEF FileInv
LEMMA AuditInv == ASSUME FileInv, NEW r \in Requests, Audit(r) PROVE FileInv'
<1>1. /\ stage[r] = "handling" /\ stage' = [stage EXCEPT ![r] = "auditing"]
      /\ line' = Append(line, r)
      /\ issued' = issued + 1 /\ ticket' = [ticket EXCEPT ![r] = issued + 1]
  BY DEF Audit, To
<1>2. UNCHANGED <<threads, queue, file, missed>>
  BY DEF Audit
<1>3. TypeOK'
  BY DEF Audit, To, FileInv, TypeOK, Stages, Live
<1>4. Apart'
  BY <1>2 DEF FileInv, Apart
<1> DEFINE n == Len(line)
<1>5. /\ Len(line') = n + 1 /\ n \in Nat
      /\ line'[n + 1] = r
      /\ \A k \in 1..n : line'[k] = line[k]
      /\ line # <<>> => line' # <<>> /\ line'[1] = line[1]
  BY <1>1, LineJoins DEF FileInv
<1>6. /\ \A u \in Requests : u # r => stage'[u] = stage[u] /\ ticket'[u] = ticket[u]
      /\ stage'[r] = "auditing" /\ ticket'[r] = issued + 1 /\ issued \in Nat
      /\ \A u \in Requests : ticket[u] \in Nat
  BY <1>1 DEF FileInv, TypeOK
<1>7. \A k \in 1..n : line[k] # r /\ line[k] \in Requests
  BY <1>1, Elements DEF FileInv, Lined, Auditing
<1>8. \A k \in 1..Len(file) : file[k].record # r /\ file[k].record \in Requests
  BY <1>1, Elements DEF FileInv, Filed, Ended
<1>9. Owned'
  <2>1. ~InPool(r)
    BY <1>1 DEF FileInv, Owned, Auditing
  <2> QED
    BY <1>2, <1>5, <1>6, <2>1 DEF FileInv, Owned, Auditing, InPool, InQueue
<1>10. Lined'
  <2>1. ASSUME NEW k \in 1..n + 1
        PROVE  stage'[line'[k]] \in {"auditing", "written"} /\ ticket'[line'[k]] <= issued + 1
    <3>1. CASE k \in 1..n
      BY <1>5, <1>6, <1>7, <3>1 DEF FileInv, Lined, Auditing
    <3>2. CASE k = n + 1
      BY <1>5, <1>6, <3>2 DEF Auditing
    <3> QED
      BY <1>5, <3>1, <3>2
  <2>2. ASSUME NEW j \in 1..n + 1, NEW k \in 1..n + 1, j < k
        PROVE  ticket'[line'[j]] < ticket'[line'[k]]
    <3>1. j \in 1..n
      BY <1>5, <2>2
    <3>2. ticket'[line'[j]] = ticket[line[j]] /\ ticket[line[j]] <= issued /\ ticket[line[j]] \in Nat
      BY <1>5, <1>6, <1>7, <3>1 DEF FileInv, Lined
    <3>3. CASE k \in 1..n
      BY <1>5, <1>6, <1>7, <2>2, <3>1, <3>2, <3>3 DEF FileInv, Lined
    <3>4. CASE k = n + 1
      BY <1>5, <1>6, <3>2, <3>4
    <3> QED
      BY <1>5, <3>3, <3>4
  <2> QED
    BY <1>1, <1>5, <2>1, <2>2 DEF Lined, Auditing
<1>11. Filed'
  <2>1. ASSUME NEW k \in 1..Len(file)
        PROVE  /\ ticket'[file[k].record] = ticket[file[k].record]
               /\ ticket[file[k].record] <= issued
               /\ stage'[file[k].record] \in Ended \cup {"written"}
    BY <1>6, <1>8 DEF FileInv, Filed
  <2>2. ASSUME NEW k \in 1..Len(file), NEW m \in 1..n + 1, stage'[line'[m]] = "auditing"
        PROVE  ticket'[file[k].record] < ticket'[line'[m]]
    <3>1. CASE m \in 1..n
      BY <1>5, <1>6, <1>7, <2>1, <2>2, <3>1 DEF FileInv, Filed
    <3>2. CASE m = n + 1
      BY <1>5, <1>6, <1>8, <2>1, <3>2
    <3> QED
      BY <1>5, <3>1, <3>2
  <2>3. \A k \in 1..Len(file) : ticket[file[k].record] <= issued => ticket[file[k].record] <= issued + 1
    BY <1>6, <1>8
  <2> QED
    BY <1>1, <1>2, <1>5, <2>1, <2>2, <2>3 DEF Filed
<1>12. InArrivalOrder'
  BY <1>2, <1>6, <1>8 DEF FileInv, InArrivalOrder
<1>13. Appended'
  BY <1>1, <1>2, <1>6 DEF FileInv, Appended, OnFile
<1> QED
  BY <1>3, <1>4, <1>9, <1>10, <1>11, <1>12, <1>13 DEF FileInv

LEMMA AskThreadInv == ASSUME FileInv, NEW r \in Requests, AskThread(r) PROVE FileInv'
<1>1. stage[r] = "auditing" /\ line # <<>> /\ Head(line) = r /\ ~InPool(r)
  BY DEF AskThread, InPool, InQueue
<1>2. UNCHANGED <<stage, line, file, missed, ticket, issued>>
  BY DEF AskThread
<1>3. /\ threads' \subseteq Requests /\ queue' \in Seq(Requests)
      /\ Apart' /\ threads \subseteq threads'
      /\ \A s \in Requests : InPool(s)' => s = r \/ InPool(s)
  BY <1>1, TakeThreadJoins DEF FileInv, AskThread
<1>4. TypeOK'
  BY <1>3 DEF AskThread, FileInv, TypeOK
<1>5. line[1] = r
  BY <1>1 DEF FileInv, TypeOK
<1>6. Owned'
  BY <1>1, <1>2, <1>3, <1>5 DEF FileInv, Owned, Auditing
<1>7. Lined' /\ Filed' /\ InArrivalOrder' /\ Appended'
  BY <1>2 DEF FileInv, Lined, Filed, InArrivalOrder, Appended, OnFile, Auditing
<1> QED
  BY <1>3, <1>4, <1>6, <1>7 DEF FileInv
(* Who appends is the head of the line, so that its ticket is newer than any *)
(* on the file and older than any that waits.                                *)
LEMMA WriterIsNext ==
    ASSUME FileInv, NEW r \in Requests, Writing(r)
    PROVE  /\ line # <<>> /\ Len(line) \in Nat \ {0} /\ line[1] = r
           /\ \A k \in 1..Len(file) : ticket[file[k].record] < ticket[r]
           /\ \A m \in 1..Len(line) : m # 1 => line[m] # r /\ ticket[r] < ticket[line[m]]
           /\ ticket[r] <= issued
<1>1. line # <<>> /\ line[1] = r
  BY DEF FileInv, Owned, InPool, Auditing, Writing
<1>2. Len(line) \in Nat \ {0} /\ ticket[r] \in Nat
  BY <1>1 DEF FileInv, TypeOK
<1>3. 1 \in 1..Len(line)
  BY <1>2
<1>4. \A k \in 1..Len(file) : ticket[file[k].record] < ticket[r]
  BY <1>1, <1>3 DEF FileInv, Filed, Writing
<1>5. \A m \in 1..Len(line) : m # 1 => ticket[r] < ticket[line[m]]
  BY <1>1, <1>2, <1>3 DEF FileInv, Lined
<1> QED
  BY <1>1, <1>2, <1>3, <1>4, <1>5 DEF FileInv, Lined

(* Whatever is appended for the writer, whole, cut short or not at all.      *)
Grown(r) ==
    \/ file' = file
    \/ \E w \in BOOLEAN : file' = Append(file, [record |-> r, whole |-> w])

LEMMA AppendKeepsOrder ==
    ASSUME FileInv, NEW r \in Requests, Writing(r), Grown(r), UNCHANGED <<ticket, issued>>
    PROVE  /\ file' \in Seq([record: Requests, whole: BOOLEAN])
           /\ InArrivalOrder'
           /\ \A k \in 1..Len(file') : \/ file'[k].record = r
                                        \/ \E j \in 1..Len(file) : file'[k] = file[j]
           /\ \A u \in Requests : OnFile(u) => OnFile(u)'
<1>1. CASE file' = file
  BY <1>1 DEF FileInv, TypeOK, InArrivalOrder, OnFile
<1>2. CASE \E w \in BOOLEAN : file' = Append(file, [record |-> r, whole |-> w])
  <2>1. PICK w \in BOOLEAN : file' = Append(file, [record |-> r, whole |-> w])
    BY <1>2
  <2>2. /\ file' \in Seq([record: Requests, whole: BOOLEAN])
        /\ Len(file') = Len(file) + 1 /\ Len(file) \in Nat
        /\ file'[Len(file) + 1].record = r
        /\ \A k \in 1..Len(file) : file'[k] = file[k]
    <3>1. [record |-> r, whole |-> w].record = r
      OBVIOUS
    <3> QED
      BY <2>1, <3>1, FileGrows DEF FileInv
  <2>3. ASSUME NEW j \in 1..Len(file'), NEW k \in 1..Len(file'), j < k
        PROVE  ticket[file'[j].record] < ticket[file'[k].record]
    <3>1. j \in 1..Len(file)
      BY <2>2, <2>3
    <3>2. CASE k \in 1..Len(file)
      BY <2>2, <2>3, <3>1, <3>2 DEF FileInv, InArrivalOrder
    <3>3. CASE k = Len(file) + 1
      BY <2>2, <3>1, <3>3, WriterIsNext
    <3> QED
      BY <2>2, <3>2, <3>3
  <2>4. \A k \in 1..Len(file') : k \in 1..Len(file) \/ k = Len(file) + 1
    BY <2>2
  <2>5. \A k \in 1..Len(file) : k \in 1..Len(file')
    BY <2>2
  <2>6. \A u \in Requests : OnFile(u) => OnFile(u)'
    BY <2>2, <2>5 DEF OnFile, Whole
  <2> QED
    BY <2>2, <2>3, <2>4, <2>6 DEF InArrivalOrder
<1> QED
  BY <1>1, <1>2 DEF Grown

(* The end of an append, good or bad. *)
LEMMA WrittenInv ==
    ASSUME FileInv, NEW r \in Requests, Writing(r), Grown(r),
           stage' = [stage EXCEPT ![r] = "written"],
           missed' \subseteq Requests, missed \subseteq missed', OnFile(r)' \/ r \in missed',
           UNCHANGED <<up, scans, threads, queue, line, ticket, issued, kills>>
    PROVE  FileInv'
<1>1. /\ file' \in Seq([record: Requests, whole: BOOLEAN])
      /\ InArrivalOrder'
      /\ \A k \in 1..Len(file') : \/ file'[k].record = r
                                   \/ \E j \in 1..Len(file) : file'[k] = file[j]
      /\ \A u \in Requests : OnFile(u) => OnFile(u)'
  BY AppendKeepsOrder
<1>2. /\ \A u \in Requests : u # r => stage'[u] = stage[u]
      /\ stage'[r] = "written" /\ stage[r] = "auditing"
  BY DEF FileInv, TypeOK, Writing
<1>3. TypeOK'
  BY <1>1 DEF FileInv, TypeOK, Stages, Live
<1>4. Apart'
  BY DEF FileInv, Apart
<1>5. Owned'
  BY <1>2, WriterIsNext DEF FileInv, Owned, InPool, InQueue, Auditing, Writing
<1>6. Lined'
  BY <1>2, Elements DEF FileInv, Lined, Auditing
<1>7. Filed'
  <2>1. ASSUME NEW k \in 1..Len(file')
        PROVE  ticket[file'[k].record] <= issued /\ stage'[file'[k].record] \in Ended \cup {"written"}
    <3>1. CASE file'[k].record = r
      BY <1>2, <3>1, WriterIsNext
    <3>2. CASE \E j \in 1..Len(file) : file'[k] = file[j]
      BY <1>2, <3>2, Elements DEF FileInv, Filed
    <3> QED
      BY <1>1, <3>1, <3>2
  <2>2. ASSUME NEW k \in 1..Len(file'), NEW m \in 1..Len(line), stage'[line[m]] = "auditing"
        PROVE  ticket[file'[k].record] < ticket[line[m]]
    <3>1. line[m] # r /\ line[m] \in Requests /\ stage[line[m]] = "auditing"
      BY <1>2, <2>2, Elements DEF FileInv
    <3>2. CASE file'[k].record = r
      BY <3>1, <3>2, WriterIsNext
    <3>3. CASE \E j \in 1..Len(file) : file'[k] = file[j]
      BY <3>1, <3>3 DEF FileInv, Filed
    <3> QED
      BY <1>1, <3>2, <3>3
  <2> QED
    BY <2>1, <2>2 DEF Filed
<1>8. Appended'
  BY <1>1, <1>2 DEF FileInv, Appended
<1> QED
  BY <1>1, <1>3, <1>4, <1>5, <1>6, <1>7, <1>8 DEF FileInv

LEMMA WriteInv == ASSUME FileInv, NEW r \in Requests, Write(r) PROVE FileInv'
<1>1. Writing(r) /\ file' = Append(file, Whole(r)) /\ UNCHANGED missed
  BY DEF Write
<1>2. /\ Len(file') = Len(file) + 1 /\ Len(file) \in Nat
      /\ file'[Len(file) + 1] = Whole(r)
  BY <1>1, FileGrows DEF FileInv, Whole
<1>3. OnFile(r)'
  <2>1. Len(file) + 1 \in 1..Len(file')
    BY <1>2
  <2> QED
    BY <1>2, <2>1 DEF OnFile, Whole
<1>4. Grown(r)
  BY <1>1 DEF Grown, Whole
<1>5. missed \subseteq Requests
  BY DEF FileInv, TypeOK
<1> QED
  BY <1>1, <1>3, <1>4, <1>5, WrittenInv DEF Write, To

LEMMA FailWriteInv == ASSUME FileInv, NEW r \in Requests, FailWrite(r) PROVE FileInv'
<1>1. Writing(r) /\ file' \in {file, Append(file, Part(r))} /\ missed' = missed \cup {r}
  BY DEF FailWrite
<1>2. Grown(r)
  BY <1>1 DEF Grown, Part
<1>3. missed \subseteq Requests
  BY DEF FileInv, TypeOK
<1> QED
  BY <1>1, <1>2, <1>3, WrittenInv DEF FailWrite, To

LEMMA ResumeInv == ASSUME FileInv, NEW r \in Requests, Resume(r) PROVE FileInv'
<1>1. /\ stage[r] = "written" /\ stage' = [stage EXCEPT ![r] = "answered"]
      /\ line # <<>> /\ line' = Tail(line)
  BY DEF Resume, To
<1>2. UNCHANGED <<file, missed, ticket, issued>>
  BY DEF Resume
<1>3. line[1] = r
  BY <1>1 DEF FileInv, Owned
<1>4. /\ line' \in Seq(Requests)
      /\ Len(line') = Len(line) - 1 /\ Len(line) \in Nat \ {0}
      /\ \A k \in 1..Len(line') : k + 1 \in 1..Len(line) /\ line'[k] = line[k + 1]
  BY <1>1, LineLeaves DEF FileInv
<1>5. /\ \A u \in Requests : u # r => stage'[u] = stage[u]
      /\ stage'[r] = "answered"
  BY <1>1 DEF FileInv, TypeOK
<1>6. \A k \in 1..Len(line') : line[k + 1] # r /\ line[k + 1] \in Requests
  <2>1. \A u \in Requests : ticket[u] \in Nat
    BY DEF FileInv, TypeOK
  <2>2. \A k \in 1..Len(line') : k + 1 \in 1..Len(line) /\ 1 \in 1..Len(line) /\ 1 < k + 1
    BY <1>4
  <2> QED
    BY <1>3, <2>1, <2>2, Elements DEF FileInv, Lined
<1>7. /\ threads' \subseteq Requests /\ queue' \in Seq(Requests)
      /\ Apart' /\ threads \ {r} \subseteq threads'
      /\ \A u \in Requests : InPool(u)' => u # r /\ InPool(u)
  <2>1. r \in threads
    BY <1>1 DEF FileInv, Owned
  <2> QED
    BY <2>1, GiveThreadLeaves DEF FileInv, Resume
<1>8. TypeOK'
  BY <1>1, <1>4, <1>7 DEF Resume, FileInv, TypeOK, Stages, Ended
<1>9. Owned'
  <2>1. ASSUME NEW u \in Requests, Auditing(u)', InPool(u)' \/ stage'[u] = "written"
        PROVE  FALSE
    <3>1. u # r /\ stage'[u] = stage[u]
      BY <1>5, <2>1 DEF Auditing
    <3>2. line[1] = u
      BY <1>7, <2>1, <3>1 DEF FileInv, Owned, Auditing
    <3> QED
      BY <1>3, <3>1, <3>2
  <2>2. \A u \in Requests : InPool(u)' => stage'[u] = "scanning" \/ Auditing(u)'
    BY <1>5, <1>7 DEF FileInv, Owned, Auditing
  <2>3. \A u \in Requests : stage'[u] # "written"
    BY <2>1 DEF Auditing
  <2> QED
    BY <2>1, <2>2, <2>3 DEF Owned
<1>10. Lined'
  <2>1. ASSUME NEW j \in 1..Len(line'), NEW k \in 1..Len(line'), j < k
        PROVE  ticket[line'[j]] < ticket[line'[k]]
    BY <1>4, <2>1 DEF FileInv, Lined
  <2>2. \A k \in 1..Len(line') :
            stage'[line'[k]] \in {"auditing", "written"} /\ ticket[line'[k]] <= issued
    BY <1>4, <1>5, <1>6 DEF FileInv, Lined, Auditing
  <2> QED
    BY <1>2, <2>1, <2>2 DEF Lined, Auditing
<1>11. Filed'
  <2>1. \A k \in 1..Len(file) : file[k].record \in Requests
    BY Elements DEF FileInv
  <2>2. \A k \in 1..Len(file) : stage'[file[k].record] \in Ended \cup {"written"}
    BY <1>5, <2>1 DEF FileInv, Filed, Ended
  <2>3. \A k \in 1..Len(file), m \in 1..Len(line') :
            stage'[line'[m]] = "auditing" => ticket[file[k].record] < ticket[line'[m]]
    BY <1>4, <1>5, <1>6 DEF FileInv, Filed
  <2> QED
    BY <1>2, <2>2, <2>3 DEF FileInv, Filed
<1>12. InArrivalOrder'
  BY <1>2 DEF FileInv, InArrivalOrder
<1>13. Appended'
  BY <1>1, <1>2, <1>5 DEF FileInv, Appended, OnFile
<1> QED
  BY <1>7, <1>8, <1>9, <1>10, <1>11, <1>12, <1>13 DEF FileInv

LEMMA KillInv == ASSUME FileInv, Kill PROVE FileInv'
<1>1. /\ stage' = [r \in Requests |-> IF stage[r] \in Live THEN "killed" ELSE stage[r]]
      /\ threads' = {} /\ queue' = <<>> /\ line' = <<>>
      /\ UNCHANGED <<missed, ticket, issued>>
  BY DEF Kill
<1>2. /\ file' \in Seq([record: Requests, whole: BOOLEAN])
      /\ InArrivalOrder'
      /\ \A u \in Requests : OnFile(u) => OnFile(u)'
      /\ \A k \in 1..Len(file') : /\ file'[k].record \in Requests
                                   /\ ticket[file'[k].record] <= issued
                                   /\ stage'[file'[k].record] \in Ended
  <2>1. ASSUME file' = file
        PROVE  <1>2!1 /\ <1>2!2 /\ <1>2!3 /\ <1>2!4
    BY <1>1, <2>1, Elements DEF FileInv, TypeOK, InArrivalOrder, OnFile, Filed, Live, Ended
  <2>2. ASSUME NEW r \in Requests, Writing(r), file' = Append(file, Part(r))
        PROVE  <1>2!1 /\ <1>2!2 /\ <1>2!3 /\ <1>2!4
    <3>1. Grown(r)
      BY <2>2 DEF Grown, Part
    <3>2. /\ file' \in Seq([record: Requests, whole: BOOLEAN])
          /\ InArrivalOrder'
          /\ \A k \in 1..Len(file') : \/ file'[k].record = r
                                       \/ \E j \in 1..Len(file) : file'[k] = file[j]
          /\ \A u \in Requests : OnFile(u) => OnFile(u)'
      BY <1>1, <2>2, <3>1, AppendKeepsOrder
    <3>3. ASSUME NEW k \in 1..Len(file')
          PROVE  /\ file'[k].record \in Requests
                 /\ ticket[file'[k].record] <= issued
                 /\ stage'[file'[k].record] \in Ended
      <4>1. CASE file'[k].record = r
        BY <1>1, <2>2, <4>1, WriterIsNext DEF Writing, Live, Ended
      <4>2. CASE \E j \in 1..Len(file) : file'[k] = file[j]
        BY <1>1, <4>2, Elements DEF FileInv, Filed, Live, Ended
      <4> QED
        BY <3>2, <4>1, <4>2
    <3> QED
      BY <3>2, <3>3
  <2> QED
    BY <2>1, <2>2 DEF Kill
<1>3. TypeOK'
  <2>1. stage' \in [Requests -> Stages]
    BY <1>1 DEF FileInv, TypeOK, Stages, Live, Ended
  <2>2. up' \in BOOLEAN /\ kills' \in Nat /\ UNCHANGED scans
    <3>1. up' = FALSE /\ kills' = kills + 1 /\ UNCHANGED scans
      BY DEF Kill
    <3>2. kills \in Nat
      BY DEF FileInv, TypeOK
    <3>3. kills' \in Nat
      BY <3>1, <3>2
    <3> QED
      BY <3>1, <3>3, Zenon
  <2>3. threads' \subseteq Requests /\ queue' \in Seq(Requests) /\ line' \in Seq(Requests)
    BY <1>1
  <2> QED
    BY <1>1, <1>2, <2>1, <2>2, <2>3 DEF FileInv, TypeOK
<1>4. Apart'
  BY <1>1 DEF Apart
<1>5. Owned'
  BY <1>1 DEF Owned, InPool, InQueue, Live
<1>6. Lined' /\ Filed'
  BY <1>1, <1>2 DEF Lined, Filed
<1>7. Appended'
  BY <1>1, <1>2 DEF FileInv, Appended, Live
<1> QED
  BY <1>2, <1>3, <1>4, <1>5, <1>6, <1>7 DEF FileInv

(* The invariant speaks of variables that a restart and a stutter keep. *)
LEMMA RestInv == ASSUME FileInv, Restart \/ UNCHANGED vars PROVE FileInv'
<1>1. UNCHANGED <<stage, scans, threads, queue, line, file, missed, ticket, issued, kills>>
  BY DEF Restart, vars
<1>2. up' \in BOOLEAN
  BY DEF FileInv, TypeOK, Restart, vars
<1> QED
  BY <1>1, <1>2 DEF FileInv, TypeOK, Apart, Owned, Lined, Filed, InArrivalOrder, Appended,
                    InPool, InQueue, Auditing, OnFile

-----------------------------------------------------------------------------
LEMMA StepInv == FileInv /\ [Next]_vars => FileInv'
<1> SUFFICES ASSUME FileInv, [Next]_vars PROVE FileInv'
  OBVIOUS
<1>1. ASSUME NEW r \in Requests,
             \/ Arrive(r) \/ StartScan(r) \/ EndScan(r) \/ Audit(r) \/ AskThread(r)
             \/ Write(r) \/ FailWrite(r) \/ Resume(r)
      PROVE  FileInv'
  BY <1>1, ArriveInv, StartScanInv, EndScanInv, AuditInv, AskThreadInv, WriteInv,
     FailWriteInv, ResumeInv
<1>2. CASE Kill
  BY <1>2, KillInv
<1>3. CASE Restart \/ Quiet \/ UNCHANGED vars
  BY <1>3, RestInv DEF Quiet
<1> QED
  BY <1>1, <1>2, <1>3 DEF Next

(* The inductive invariant of the file, its lock and the worker threads. *)
THEOREM FileInvariant == Spec => []FileInv
BY InitInv, StepInv, PTL DEF Spec

(* Type correctness, kills and restarts included. *)
THEOREM FileTypes == Spec => []TypeOK
BY FileInvariant, PTL DEF FileInv

(* sinks.py: a client that got its answer has its record on the file, unless *)
(* the append raised; no kill takes it back.                                *)
THEOREM AnsweredAlwaysOnFile == Spec => []AnsweredIsOnFile
<1>1. FileInv => AnsweredIsOnFile
  BY DEF FileInv, Appended, AnsweredIsOnFile
<1> QED
  BY <1>1, FileInvariant, PTL

(* sinks.py: the lines are in the order in which record() was called, across *)
(* processes, whichever threads write them.                                 *)
THEOREM FileAlwaysInArrivalOrder == Spec => []InArrivalOrder
BY FileInvariant, PTL DEF FileInv

(* sinks.py: the lock is taken before the thread, so appends never hold more *)
(* than one of the threads the scans need.                                  *)
THEOREM OneWriterAtMost == Spec => []OneWriter
<1>1. FileInv => OneWriter
  BY DEF FileInv, Owned, OneWriter, Writing, InPool, Auditing
<1> QED
  BY <1>1, FileInvariant, PTL

-----------------------------------------------------------------------------
Parts == {k \in 1..Len(file) : ~file[k].whole}

DamageInv ==
    /\ IsFiniteSet(missed)
    /\ \A r \in missed : stage[r] \in Ended \cup {"written"}
    /\ Cardinality(Parts) <= kills + Cardinality(missed)

(* The pieces without an end are finitely many. *)
LEMMA PartsFinite == ASSUME TypeOK PROVE IsFiniteSet(Parts) /\ Cardinality(Parts) \in Nat
<1>1. Len(file) \in Int /\ 1 \in Int
  BY DEF TypeOK
<1>2. IsFiniteSet(1..Len(file))
  BY <1>1, FS_Interval
<1>3. IsFiniteSet(Parts)
  BY <1>2, FS_Subset DEF Parts
<1> QED
  BY <1>3, FS_CardinalityType

(* An append adds the piece without an end it wrote, if it did, and no other. *)
LEMMA PartsGrow ==
    ASSUME TypeOK, NEW e \in [record: Requests, whole: BOOLEAN], file' = Append(file, e)
    PROVE  /\ e.whole => Cardinality(Parts') = Cardinality(Parts)
           /\ Cardinality(Parts') <= Cardinality(Parts) + 1
           /\ Cardinality(Parts') \in Nat
<1>1. /\ Len(file') = Len(file) + 1
      /\ Len(file) \in Nat
      /\ file'[Len(file) + 1] = e
      /\ \A k \in 1..Len(file) : file'[k] = file[k]
  BY DEF TypeOK
<1>2. CASE e.whole
  <2>1. Parts' = Parts
    BY <1>1, <1>2 DEF Parts
  <2> QED
    BY <2>1, PartsFinite
<1>3. CASE ~e.whole
  <2>1. Parts' = Parts \cup {Len(file) + 1}
    BY <1>1, <1>3 DEF Parts
  <2>2. Len(file) + 1 \notin Parts
    BY <1>1 DEF Parts
  <2>3. Cardinality(Parts \cup {Len(file) + 1}) = Cardinality(Parts) + 1
    BY <2>2, PartsFinite, FS_AddElement
  <2> QED
    BY <1>3, <2>1, <2>3, PartsFinite
<1> QED
  BY <1>2, <1>3

LEMMA InitDamage == Init => DamageInv
<1> SUFFICES ASSUME Init PROVE DamageInv
  OBVIOUS
<1>1. Parts = {} /\ missed = {} /\ kills = 0
  BY DEF Init, Parts
<1> QED
  BY <1>1, FS_EmptySet DEF DamageInv

(* A request's step that leaves the file and the missed records alone, and   *)
(* takes nobody from the end of its append back to before it.                *)
LEMMA DamageKeeps ==
    ASSUME DamageInv, TypeOK, NEW r \in Requests, NEW s,
           stage' = [stage EXCEPT ![r] = s],
           s \in Ended \cup {"written"} \/ r \notin missed,
           UNCHANGED <<file, missed, kills>>
    PROVE  DamageInv'
BY DEF DamageInv, TypeOK, Parts

LEMMA WriteDamage ==
    ASSUME FileInv, DamageInv, NEW r \in Requests, Write(r) PROVE DamageInv'
<1>1. /\ file' = Append(file, Whole(r)) /\ stage' = [stage EXCEPT ![r] = "written"]
      /\ UNCHANGED <<missed, kills>>
  BY DEF Write, To
<1>2. Cardinality(Parts') = Cardinality(Parts)
  <2>1. Whole(r) \in [record: Requests, whole: BOOLEAN] /\ Whole(r).whole
    BY DEF Whole
  <2> QED
    BY <1>1, <2>1, PartsGrow DEF FileInv
<1> QED
  BY <1>1, <1>2 DEF DamageInv, FileInv, TypeOK

(* The one whose append raises had not missed an append before. *)
LEMMA FailWriteDamage ==
    ASSUME FileInv, DamageInv, NEW r \in Requests, FailWrite(r) PROVE DamageInv'
<1>1. /\ file' = file \/ file' = Append(file, Part(r))
      /\ missed' = missed \cup {r} /\ stage' = [stage EXCEPT ![r] = "written"]
      /\ kills' = kills /\ stage[r] = "auditing"
  BY DEF FailWrite, To, Writing
<1>2. r \notin missed
  BY <1>1 DEF DamageInv, Ended
<1>3. IsFiniteSet(missed') /\ Cardinality(missed') = Cardinality(missed) + 1
  BY <1>1, <1>2, FS_AddElement DEF DamageInv
<1>4. Cardinality(Parts') <= Cardinality(Parts) + 1 /\ Cardinality(Parts') \in Nat
  <2>1. CASE file' = file
    BY <2>1, PartsFinite DEF Parts, FileInv
  <2>2. CASE file' = Append(file, Part(r))
    <3>1. Part(r) \in [record: Requests, whole: BOOLEAN]
      BY DEF Part
    <3> QED
      BY <2>2, <3>1, PartsGrow DEF FileInv
  <2> QED
    BY <1>1, <2>1, <2>2
<1>5. Cardinality(missed) \in Nat /\ kills \in Nat /\ Cardinality(Parts) \in Nat
  BY FS_CardinalityType, PartsFinite DEF DamageInv, FileInv, TypeOK
<1>6. Cardinality(Parts') <= kills' + Cardinality(missed')
  BY <1>1, <1>3, <1>4, <1>5 DEF DamageInv
<1> QED
  BY <1>1, <1>3, <1>6 DEF DamageInv, FileInv, TypeOK

(* The kernel serves one append at a time, so a kill cuts one short at most. *)
LEMMA KillDamage == ASSUME FileInv, DamageInv, Kill PROVE DamageInv'
<1>1. /\ file' = file \/ \E r \in Requests : file' = Append(file, Part(r))
      /\ stage' = [r \in Requests |-> IF stage[r] \in Live THEN "killed" ELSE stage[r]]
      /\ missed' = missed /\ kills' = kills + 1
  BY DEF Kill
<1>2. Cardinality(Parts') <= Cardinality(Parts) + 1 /\ Cardinality(Parts') \in Nat
  <2>1. CASE file' = file
    BY <2>1, PartsFinite DEF Parts, FileInv
  <2>2. ASSUME NEW r \in Requests, file' = Append(file, Part(r))
        PROVE  Cardinality(Parts') <= Cardinality(Parts) + 1 /\ Cardinality(Parts') \in Nat
    <3>1. Part(r) \in [record: Requests, whole: BOOLEAN]
      BY DEF Part
    <3> QED
      BY <2>2, <3>1, PartsGrow DEF FileInv
  <2> QED
    BY <1>1, <2>1, <2>2
<1>4. Cardinality(missed) \in Nat /\ kills \in Nat /\ Cardinality(Parts) \in Nat
  BY FS_CardinalityType, PartsFinite DEF DamageInv, FileInv, TypeOK
<1>5. Cardinality(Parts') <= kills' + Cardinality(missed')
  BY <1>1, <1>2, <1>4 DEF DamageInv
<1>6. \A r \in missed' : stage'[r] \in Ended \cup {"written"}
  BY <1>1 DEF DamageInv, FileInv, TypeOK, Ended
<1> QED
  BY <1>1, <1>5, <1>6 DEF DamageInv

LEMMA StepDamage == FileInv /\ DamageInv /\ [Next]_vars => DamageInv'
<1> SUFFICES ASSUME FileInv, DamageInv, [Next]_vars PROVE DamageInv'
  OBVIOUS
<1> USE DEF To
<1>t. TypeOK
  BY DEF FileInv
<1>1. ASSUME NEW r \in Requests, Arrive(r) \/ StartScan(r) PROVE DamageInv'
  <2>1. stage[r] \in {"idle", "handling"} /\ r \notin missed
    BY <1>1 DEF Arrive, StartScan, DamageInv, Ended
  <2> QED
    BY <1>1, <1>t, <2>1, DamageKeeps DEF Arrive, StartScan
<1>2. ASSUME NEW r \in Requests, EndScan(r) \/ Audit(r) PROVE DamageInv'
  <2>1. stage[r] \in {"scanning", "handling"} /\ r \notin missed
    BY <1>2 DEF EndScan, Audit, DamageInv, Ended
  <2> QED
    BY <1>2, <1>t, <2>1, DamageKeeps DEF EndScan, Audit
<1>3. ASSUME NEW r \in Requests, Resume(r) PROVE DamageInv'
  BY <1>3, <1>t, DamageKeeps DEF Resume, Ended
<1>4. ASSUME NEW r \in Requests, Write(r) \/ FailWrite(r) PROVE DamageInv'
  BY <1>4, WriteDamage, FailWriteDamage
<1>5. CASE Kill
  BY <1>5, KillDamage
<1>6. CASE Restart \/ Quiet \/ UNCHANGED vars \/ \E r \in Requests : AskThread(r)
  <2>1. UNCHANGED <<stage, file, missed, kills>>
    BY <1>6 DEF Restart, Quiet, vars, AskThread
  <2> QED
    BY <2>1 DEF DamageInv, Parts
<1> QED
  BY <1>1, <1>2, <1>3, <1>4, <1>5, <1>6 DEF Next

(* A line that cannot be read lacks its end or comes after one that does. *)
LEMMA UnreadableFollowsPart ==
    ASSUME TypeOK
    PROVE  Cardinality({k \in 1..Len(file) : ~Readable(k)}) <= 2 * Cardinality(Parts)
<1> DEFINE Damaged == {k \in 1..Len(file) : ~Readable(k)}
           glue == [p \in Parts |-> p + 1]
           Glued == {p + 1 : p \in Parts}
<1>1. Damaged \subseteq Parts \cup Glued
  <2> SUFFICES ASSUME NEW k \in 1..Len(file), ~Readable(k), k \notin Parts
               PROVE  k \in Glued
    OBVIOUS
  <2>1. file[k].whole /\ k > 1 /\ ~file[k - 1].whole
    BY DEF Readable, Parts
  <2>2. Len(file) \in Nat
    BY DEF TypeOK
  <2>3. k - 1 \in Parts /\ k = (k - 1) + 1
    BY <2>1, <2>2 DEF Parts
  <2> QED
    BY <2>3
<1>2. glue \in Surjection(Parts, Glued)
  BY DEF Surjection
<1>3. IsFiniteSet(Parts) /\ Cardinality(Parts) \in Nat
  BY PartsFinite
<1>4. IsFiniteSet(Glued) /\ Cardinality(Glued) <= Cardinality(Parts)
  BY <1>2, <1>3, FS_Surjection
<1>5. /\ IsFiniteSet(Parts \cup Glued)
      /\ Cardinality(Parts \cup Glued)
           = Cardinality(Parts) + Cardinality(Glued) - Cardinality(Parts \cap Glued)
  BY <1>3, <1>4, FS_Union
<1>6. Cardinality(Glued) \in Nat /\ Cardinality(Parts \cap Glued) \in Nat
  <2>1. IsFiniteSet(Parts \cap Glued)
    BY <1>3, FS_Subset
  <2> QED
    BY <1>4, <2>1, FS_CardinalityType
<1>7. IsFiniteSet(Damaged) /\ Cardinality(Damaged) <= Cardinality(Parts \cup Glued)
  BY <1>1, <1>5, FS_Subset
<1>8. Cardinality(Damaged) \in Nat
  BY <1>7, FS_CardinalityType
<1> HIDE DEF Damaged, Glued
<1>9. Cardinality(Damaged) <= 2 * Cardinality(Parts)
  BY <1>3, <1>4, <1>5, <1>6, <1>7, <1>8
<1> QED
  BY <1>9 DEF Damaged

(* sinks.py: "partial writes at process kill are limited to the last          *)
(* in-flight line": a kill or a failed append costs the line it cuts short    *)
(* and the one that is glued to it, and nothing else is ever lost.           *)
THEOREM DamageAlwaysBounded == Spec => []DamageIsBounded
<1>1. FileInv /\ DamageInv => DamageIsBounded
  <2> SUFFICES ASSUME FileInv, DamageInv PROVE DamageIsBounded
    OBVIOUS
  <2> DEFINE damage == Cardinality({k \in 1..Len(file) : ~Readable(k)})
  <2>1. damage <= 2 * Cardinality(Parts) /\ damage \in Nat
    <3>1. {k \in 1..Len(file) : ~Readable(k)} \subseteq 1..Len(file) /\ Len(file) \in Int
      BY DEF FileInv, TypeOK
    <3>2. IsFiniteSet(1..Len(file))
      BY <3>1, FS_Interval
    <3>3. IsFiniteSet({k \in 1..Len(file) : ~Readable(k)})
      BY <3>1, <3>2, FS_Subset
    <3> QED
      BY <3>3, FS_CardinalityType, UnreadableFollowsPart DEF FileInv
  <2>2. Cardinality(missed) \in Nat /\ kills \in Nat /\ Cardinality(Parts) \in Nat
    BY FS_CardinalityType, PartsFinite DEF DamageInv, FileInv, TypeOK
  <2>3. Cardinality(Parts) <= kills + Cardinality(missed)
    BY DEF DamageInv
  <2> HIDE DEF damage
  <2>4. damage <= 2 * (kills + Cardinality(missed))
    BY <2>1, <2>2, <2>3
  <2> QED
    BY <2>4 DEF damage, DamageIsBounded
<1> QED
  BY <1>1, FileInvariant, InitDamage, StepDamage, PTL DEF Spec
=============================================================================
