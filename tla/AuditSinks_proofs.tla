-------------------------- MODULE AuditSinks_proofs ------------------------
(***************************************************************************)
(* Proofs about AuditSinks.tla for every set of tasks, every choice and     *)
(* order of sinks, every capacity and every set of faulty sinks.            *)
(***************************************************************************)
EXTENDS AuditSinks, SequenceTheorems, TLAPS

USE SinksAssumption, CapacityAssumption

-----------------------------------------------------------------------------
(* Sequences.  x = l \o s is used position by position (Joined), and kept    *)
(* behind a name (Chained), for the provers do not unfold it well.          *)

Chained(x, l, s) == x = l \o s
Appended(x, s, e) == x = Append(s, e)

Joined(x, l, s) ==
    /\ Len(x) = Len(l) + Len(s)
    /\ \A m \in 1..Len(l) : x[m] = l[m]
    /\ \A m \in 1..Len(s) : x[Len(l) + m] = s[m]

LEMMA ConcatIsJoined ==
  ASSUME NEW S, NEW l \in Seq(S), NEW s \in Seq(S), NEW x \in Seq(S), x = l \o s
  PROVE  Joined(x, l, s)
<1>1. /\ Len(x) = Len(l) + Len(s) /\ Len(l) \in Nat /\ Len(s) \in Nat
      /\ \A i \in 1..Len(l) + Len(s) : x[i] = IF i <= Len(l) THEN l[i] ELSE s[i - Len(l)]
  BY ConcatProperties, LenProperties
<1>2. \A m \in 1..Len(l) : x[m] = l[m]
  BY <1>1
<1>3. ASSUME NEW m \in 1..Len(s)
      PROVE  x[Len(l) + m] = s[m]
  <2>1. Len(l) + m \in 1..Len(l) + Len(s) /\ ~(Len(l) + m <= Len(l)) /\ (Len(l) + m) - Len(l) = m
    BY <1>1
  <2> QED
    BY <1>1, <2>1
<1> QED
  BY <1>1, <1>2, <1>3 DEF Joined

LEMMA JoinedIsUnique ==
  ASSUME NEW S, NEW l \in Seq(S), NEW s \in Seq(S), NEW x \in Seq(S), NEW y \in Seq(S),
         Joined(x, l, s), Joined(y, l, s)
  PROVE  x = y
<1>1. PICK a \in Nat, b \in Nat : a = Len(l) /\ b = Len(s)
  BY LenProperties
<1>2. Len(x) = a + b /\ Len(y) = a + b
  BY <1>1 DEF Joined
<1>3. ASSUME NEW i \in 1..a + b
      PROVE  x[i] = y[i]
  <2>1. CASE i \in 1..a
    BY <1>1, <2>1 DEF Joined
  <2>2. CASE i \notin 1..a
    <3>1. i - a \in 1..b /\ i = a + (i - a)
      BY <2>2
    <3>2. PICK m \in 1..b : i = a + m
      BY <3>1
    <3> QED
      BY <1>1, <3>2 DEF Joined
  <2> QED
    BY <2>1, <2>2
<1> QED
  BY <1>2, <1>3, SeqEqual

LEMMA ChainedIsJoined ==
  ASSUME NEW S, NEW l \in Seq(S), NEW s \in Seq(S), NEW x \in Seq(S)
  PROVE  Chained(x, l, s) <=> Joined(x, l, s)
<1>1. PICK y \in Seq(S) : y = l \o s
  BY ConcatProperties
<1>2. Joined(y, l, s)
  BY <1>1, ConcatIsJoined
<1>3. Joined(x, l, s) => x = y
  BY <1>2, JoinedIsUnique
<1> QED
  BY <1>1, <1>2, <1>3 DEF Chained

(* Positions after the end was joined, and after the head was left. *)
LEMMA AtEnd ==
  ASSUME NEW S, NEW s \in Seq(S), NEW e \in S, NEW x, x = Append(s, e)
  PROVE  /\ x \in Seq(S)
         /\ Len(s) \in Nat
         /\ Len(x) = Len(s) + 1
         /\ \A m \in 1..Len(s) : x[m] = s[m]
         /\ x[Len(s) + 1] = e
         /\ x # <<>>
  BY AppendProperties, LenProperties

LEMMA AtHead ==
  ASSUME NEW S, NEW s \in Seq(S), s # <<>>, NEW x, x = Tail(s)
  PROVE  /\ x \in Seq(S)
         /\ Len(s) \in Nat \ {0}
         /\ Len(x) = Len(s) - 1
         /\ \A m \in 1..Len(x) : x[m] = s[m + 1]
         /\ Head(s) = s[1]
         /\ Head(s) \in S
  BY HeadTailProperties, EmptySeq

(* What leaves the head of a line for the history before it changes nothing *)
(* for the sink in front; what joins the end of a line leaves that sink.    *)
LEMMA MoveHead ==
  ASSUME NEW S, NEW l \in Seq(S), NEW s \in Seq(S), NEW x \in Seq(S),
         Chained(x, l, s), s # <<>>,
         NEW r, r = Tail(s), NEW m, Appended(m, l, Head(s))
  PROVE  Chained(x, m, r)
<1>1. PICK a \in Nat, b \in Nat : a = Len(l) /\ b = Len(s) /\ b # 0
  BY LenProperties, AtHead
<1>2. /\ r \in Seq(S) /\ Len(r) = b - 1
      /\ \A i \in 1..b - 1 : r[i] = s[i + 1]
      /\ Head(s) = s[1] /\ Head(s) \in S
  BY <1>1, AtHead
<1>3. /\ m \in Seq(S) /\ Len(m) = a + 1
      /\ \A i \in 1..a : m[i] = l[i]
      /\ m[a + 1] = s[1]
  BY <1>1, <1>2, AtEnd DEF Appended
<1>4. /\ Len(x) = a + b
      /\ \A i \in 1..a : x[i] = l[i]
      /\ \A i \in 1..b : x[a + i] = s[i]
  BY <1>1, ChainedIsJoined DEF Joined
<1>5. \A i \in 1..a + 1 : x[i] = m[i]
  <2>1. 1 \in 1..b /\ x[a + 1] = s[1]
    BY <1>1, <1>4
  <2> QED
    BY <1>3, <1>4, <2>1
<1>6. \A i \in 1..b - 1 : x[(a + 1) + i] = r[i]
  <2> TAKE i \in 1..b - 1
  <2>1. i + 1 \in 1..b /\ (a + 1) + i = a + (i + 1)
    BY <1>1
  <2> QED
    BY <1>2, <1>4, <2>1
<1>7. Len(x) = (a + 1) + (b - 1)
  BY <1>1, <1>4
<1>8. Joined(x, m, r)
  BY <1>2, <1>3, <1>5, <1>6, <1>7 DEF Joined
<1> QED
  BY <1>2, <1>3, <1>8, ChainedIsJoined

LEMMA JoinEnd ==
  ASSUME NEW S, NEW l \in Seq(S), NEW s \in Seq(S), NEW x \in Seq(S), NEW e \in S,
         Chained(x, l, s),
         NEW y, Appended(y, s, e), NEW z, Appended(z, x, e)
  PROVE  Chained(z, l, y)
<1>1. PICK a \in Nat, b \in Nat : a = Len(l) /\ b = Len(s)
  BY LenProperties
<1>2. /\ Len(x) = a + b
      /\ \A i \in 1..a : x[i] = l[i]
      /\ \A i \in 1..b : x[a + i] = s[i]
  BY <1>1, ChainedIsJoined DEF Joined
<1>3. /\ y \in Seq(S) /\ Len(y) = b + 1
      /\ \A i \in 1..b : y[i] = s[i]
      /\ y[b + 1] = e
  BY <1>1, AtEnd DEF Appended
<1>4. /\ z \in Seq(S) /\ Len(z) = (a + b) + 1
      /\ \A i \in 1..a + b : z[i] = x[i]
      /\ z[(a + b) + 1] = e
  BY <1>1, <1>2, AtEnd DEF Appended
<1>5. \A i \in 1..a : z[i] = l[i]
  BY <1>2, <1>4
<1>6. \A i \in 1..b + 1 : z[a + i] = y[i]
  <2> TAKE i \in 1..b + 1
  <2>1. CASE i \in 1..b
    <3>1. a + i \in 1..a + b
      BY <2>1
    <3> QED
      BY <1>2, <1>3, <1>4, <2>1, <3>1
  <2>2. CASE i = b + 1
    BY <1>3, <1>4, <2>2
  <2> QED
    BY <2>1, <2>2
<1>7. Joined(z, l, y)
  BY <1>1, <1>3, <1>4, <1>5, <1>6 DEF Joined
<1> QED
  BY <1>3, <1>4, <1>7, ChainedIsJoined

-----------------------------------------------------------------------------
(* The step every action but Write and FailWrite takes: t, the owner of     *)
(* sink i or a task that calls record(), goes on to its next stop.          *)

LEMMA Stops ==
  ASSUME NEW i \in 0..N
  PROVE  /\ N \in Nat
         /\ NextStop(i) \in i + 1 .. N + 1
         /\ Passed(i) \in SUBSET Index
         /\ ~IsLog(NextStop(i))
         /\ \A j \in Index : j - 1 \in {i} \cup Passed(i) <=> j \in Passed(i) \cup {NextStop(i)}
         /\ \A j \in Passed(i) : IsLog(j) /\ j = i + 1
         /\ Passed(i) # {} => NextStop(i) = i + 2
         /\ Passed(i) = {} => NextStop(i) = i + 1
<1>1. N \in Nat
  BY LenProperties DEF N
<1> QED
  BY <1>1 DEF NextStop, Passed, IsLog, Index, N

Leaving(t, i) ==
    /\ t \in Tasks
    /\ i \in 0..N
    /\ IF i = 0 THEN at[t] = 0 ELSE line[i] # <<>> /\ t = Owner(i)

LEMMA AdvanceKeepsTypes ==
  ASSUME TypeOK, LinesMatchTasks, NEW t, NEW i, NEW k, NEW emitted \in BOOLEAN,
         Leaving(t, i), Advance(t, i, k, emitted),
         k \in [Index -> Seq(Tasks)]
  PROVE  /\ at' \in [Tasks -> 0..N + 1]
         /\ line' \in [Index -> Seq(Tasks)]
         /\ kept' \in [Index -> Seq(Tasks)]
         /\ lost' \in [Index -> SUBSET Tasks]
         /\ left' \in [0..N -> Seq(Tasks)]
         /\ \A j \in Index : Sinks[j] = "ring" => kept'[j] = k[j]
<1> USE DEF Leaving, Advance, Join
<1>1. N \in Nat /\ NextStop(i) \in 0..N + 1 /\ Passed(i) \in SUBSET Index
  BY Stops
<1>2. at' \in [Tasks -> 0..N + 1]
  BY <1>1 DEF TypeOK
<1>3. line' \in [Index -> Seq(Tasks)]
  <2> SUFFICES ASSUME NEW j \in Index
               PROVE  (IF j = i THEN Tail(line[j])
                       ELSE IF j = NextStop(i) THEN Append(line[j], t)
                       ELSE line[j]) \in Seq(Tasks)
    OBVIOUS
  <2>1. line[j] \in Seq(Tasks)
    BY DEF TypeOK
  <2>2. j = i => line[j] # <<>>
    BY <1>1 DEF Index
  <2> QED
    BY <2>1, <2>2, HeadTailProperties, AppendProperties
<1>4. kept' \in [Index -> Seq(Tasks)]
  BY AppendProperties
<1>5. lost' \in [Index -> SUBSET Tasks]
  BY DEF TypeOK
<1>6. left' \in [0..N -> Seq(Tasks)]
  BY AppendProperties DEF TypeOK
<1>7. \A j \in Index : Sinks[j] = "ring" => kept'[j] = k[j]
  BY Stops DEF IsLog
<1> QED
  BY <1>2, <1>3, <1>4, <1>5, <1>6, <1>7

(* Leaving one line and joining the next keeps every link of the chain. *)
LEMMA AdvanceKeepsStream ==
  ASSUME TypeOK, LinesMatchTasks, OneStream,
         NEW t, NEW i, NEW k, NEW emitted,
         Leaving(t, i), Advance(t, i, k, emitted)
  PROVE  OneStream'
<1> SUFFICES ASSUME NEW j \in Index
             PROVE  Chained(left'[j - 1], left'[j], line'[j])
  BY DEF OneStream, Index, N, Chained
<1> USE DEF Leaving
<1>1. N \in Nat /\ j \in 1..N /\ j \in 0..N /\ j - 1 \in 0..N /\ t \in Tasks
  BY Stops DEF Index
<1>2. /\ left[j] \in Seq(Tasks)
      /\ left[j - 1] \in Seq(Tasks)
      /\ line[j] \in Seq(Tasks)
      /\ Chained(left[j - 1], left[j], line[j])
  BY <1>1 DEF TypeOK, OneStream, Chained
<1>3. /\ left'[j] = IF j \in {i} \cup Passed(i) THEN Append(left[j], t) ELSE left[j]
      /\ left'[j - 1] = IF j - 1 \in {i} \cup Passed(i)
                          THEN Append(left[j - 1], t) ELSE left[j - 1]
      /\ line'[j] = IF j = i THEN Tail(line[j])
                     ELSE IF j = NextStop(i) THEN Append(line[j], t) ELSE line[j]
  BY <1>1 DEF Advance, Join
<1>4. CASE j = i
  <2>1. j \notin Passed(i) /\ j # NextStop(i)
    BY <1>4, Stops
  <2>2. left'[j - 1] = left[j - 1]
    BY <1>3, <2>1, Stops
  <2>3. line[j] # <<>> /\ t = Head(line[j])
    BY <1>1, <1>4 DEF Owner
  <2>4. Appended(left'[j], left[j], Head(line[j])) /\ line'[j] = Tail(line[j])
    BY <1>3, <1>4, <2>3 DEF Appended
  <2>5. Chained(left[j - 1], left'[j], line'[j])
    BY <1>2, <2>3, <2>4, MoveHead
  <2> QED
    BY <2>2, <2>5
<1>5. CASE j \in Passed(i)
  <2>1. j # i /\ j # NextStop(i) /\ IsLog(j)
    BY <1>5, Stops
  <2>2. line[j] = <<>> /\ line'[j] = <<>>
    BY <1>3, <2>1 DEF LinesMatchTasks
  <2>3. left'[j] = Append(left[j], t) /\ left'[j - 1] = Append(left[j - 1], t)
    BY <1>3, <1>5, Stops
  <2>4. left[j] \o <<>> = left[j]
    BY <1>2, ConcatEmptySeq
  <2>5. left[j - 1] = left[j]
    BY <1>2, <2>2, <2>4 DEF Chained
  <2>6. left'[j] \in Seq(Tasks)
    BY <1>1, <1>2, <2>3, AtEnd
  <2>7. left'[j] \o <<>> = left'[j]
    BY <2>6, ConcatEmptySeq
  <2> QED
    BY <2>2, <2>3, <2>5, <2>7 DEF Chained
<1>6. CASE j = NextStop(i)
  <2>1. j # i /\ j \notin Passed(i)
    BY <1>6, Stops
  <2>2. left'[j - 1] = Append(left[j - 1], t)
    BY <1>3, <1>6, Stops
  <2>3. left'[j] = left[j] /\ line'[j] = Append(line[j], t)
    BY <1>3, <1>6, <2>1
  <2>4. Appended(left'[j - 1], left[j - 1], t) /\ Appended(line'[j], line[j], t)
    BY <2>2, <2>3 DEF Appended
  <2>5. Chained(left'[j - 1], left[j], line'[j])
    BY <1>1, <1>2, <2>4, JoinEnd
  <2> QED
    BY <2>3, <2>5
<1>7. CASE j # i /\ j \notin Passed(i) /\ j # NextStop(i)
  <2>1. left'[j - 1] = left[j - 1]
    BY <1>3, <1>7, Stops
  <2> QED
    BY <1>2, <1>3, <1>7, <2>1
<1> QED
  BY <1>4, <1>5, <1>6, <1>7

LEMMA AdvanceKeepsLines ==
  ASSUME TypeOK, LinesMatchTasks,
         NEW t, NEW i, NEW k, NEW emitted,
         Leaving(t, i), Advance(t, i, k, emitted)
  PROVE  /\ \A j \in Index : \A m, n \in 1..Len(line'[j]) : line'[j][m] = line'[j][n] => m = n
         /\ \A j \in Index : \A m \in 1..Len(line'[j]) : at'[line'[j][m]] = j
         /\ \A j \in Index : IsLog(j) => line'[j] = <<>>
         /\ \A j \in Index : j # i /\ line[j] # <<>> => line'[j] # <<>>
<1> SUFFICES ASSUME NEW j \in Index
             PROVE  /\ \A m, n \in 1..Len(line'[j]) : line'[j][m] = line'[j][n] => m = n
                    /\ \A m \in 1..Len(line'[j]) : at'[line'[j][m]] = j
                    /\ IsLog(j) => line'[j] = <<>>
                    /\ j # i /\ line[j] # <<>> => line'[j] # <<>>
  OBVIOUS
<1> USE DEF Leaving
<1>1. /\ N \in Nat /\ j \in 1..N /\ t \in Tasks /\ i \in 0..N
      /\ NextStop(i) \in i + 1..N + 1 /\ ~IsLog(NextStop(i))
  BY Stops DEF Index
<1>2. /\ line[j] \in Seq(Tasks)
      /\ Len(line[j]) \in Nat
      /\ \A m \in 1..Len(line[j]) : line[j][m] \in Tasks /\ at[line[j][m]] = j
      /\ \A m, n \in 1..Len(line[j]) : line[j][m] = line[j][n] => m = n
      /\ IsLog(j) => line[j] = <<>>
  BY ElementOfSeq, LenProperties DEF TypeOK, LinesMatchTasks
<1>3. /\ line'[j] = IF j = i THEN Tail(line[j])
                     ELSE IF j = NextStop(i) THEN Append(line[j], t) ELSE line[j]
      /\ \A u \in Tasks : at'[u] = IF u = t THEN NextStop(i) ELSE at[u]
  BY <1>1 DEF Advance, Join, TypeOK
<1>4. at[t] = i
  <2>1. CASE i = 0
    BY <2>1
  <2>2. CASE i # 0
    <3>1. i \in Index /\ line[i] # <<>> /\ t = Head(line[i]) /\ line[i] \in Seq(Tasks)
      BY <1>1, <2>2 DEF Index, Owner, TypeOK
    <3>2. Len(line[i]) \in Nat \ {0} /\ t = line[i][1]
      BY <3>1, AtHead
    <3> QED
      BY <3>1, <3>2 DEF LinesMatchTasks
  <2> QED
    BY <2>1, <2>2
<1>5. CASE j = i
  <2>1. line[j] # <<>> /\ t = Head(line[j]) /\ line'[j] = Tail(line[j])
    BY <1>1, <1>3, <1>5 DEF Owner
  <2>2. /\ Len(line'[j]) = Len(line[j]) - 1
        /\ \A m \in 1..Len(line'[j]) : line'[j][m] = line[j][m + 1]
        /\ Len(line[j]) # 0
        /\ t = line[j][1]
    BY <1>2, <2>1, AtHead
  <2>3. \A m \in 1..Len(line'[j]) : line'[j][m] # t /\ line'[j][m] \in Tasks
    BY <1>2, <2>2
  <2>4. ~IsLog(j)
    BY <1>2, <2>1
  <2> QED
    BY <1>2, <1>3, <1>5, <2>2, <2>3, <2>4
<1>6. CASE j # i /\ j = NextStop(i)
  <2>1. line'[j] = Append(line[j], t)
    BY <1>3, <1>6
  <2>2. /\ Len(line'[j]) = Len(line[j]) + 1
        /\ \A m \in 1..Len(line[j]) : line'[j][m] = line[j][m]
        /\ line'[j][Len(line[j]) + 1] = t
        /\ line'[j] # <<>>
    <3>1. line[j] \in Seq(Tasks) /\ t \in Tasks
      BY <1>1, <1>2
    <3> HIDE DEF Leaving
    <3> QED
      BY ONLY <2>1, <3>1, AtEnd
  <2>3. \A m \in 1..Len(line[j]) : line[j][m] # t
    BY <1>1, <1>2, <1>4, <1>6
  <2>4. \A m \in 1..Len(line'[j]) : m \in 1..Len(line[j]) \/ m = Len(line[j]) + 1
    BY <1>2, <2>2
  <2>5. ASSUME NEW m \in 1..Len(line'[j]), NEW n \in 1..Len(line'[j]), line'[j][m] = line'[j][n]
        PROVE  m = n
    <3>1. m \in 1..Len(line[j]) \/ m = Len(line[j]) + 1
      BY <2>4
    <3>2. n \in 1..Len(line[j]) \/ n = Len(line[j]) + 1
      BY <2>4
    <3> QED
      BY <1>2, <2>2, <2>3, <2>5, <3>1, <3>2
  <2>6. \A m \in 1..Len(line'[j]) : at'[line'[j][m]] = j
    BY <1>1, <1>2, <1>3, <1>6, <2>2, <2>3, <2>4
  <2> QED
    BY <1>1, <1>6, <2>2, <2>5, <2>6
<1>7. CASE j # i /\ j # NextStop(i)
  <2>1. line'[j] = line[j]
    BY <1>3, <1>7
  <2>2. \A m \in 1..Len(line[j]) : line[j][m] # t
    BY <1>2, <1>4, <1>7
  <2> QED
    BY <1>2, <1>3, <2>1, <2>2
<1> QED
  BY <1>5, <1>6, <1>7

LEMMA EvictBounds ==
  ASSUME NEW s \in Seq(Tasks), Len(s) <= Capacity, NEW t \in Tasks
  PROVE  /\ Evict(Append(s, t)) \in Seq(Tasks)
         /\ Len(Evict(Append(s, t))) <= Capacity
<1>1. PICK x \in Seq(Tasks) : x = Append(s, t)
  BY AppendProperties
<1>2. Len(x) = Len(s) + 1 /\ x # <<>> /\ Len(s) \in Nat
  BY <1>1, AtEnd
<1>3. Tail(x) \in Seq(Tasks) /\ Len(Tail(x)) = Len(x) - 1
  BY <1>2, HeadTailProperties
<1>4. Evict(x) \in Seq(Tasks) /\ Len(Evict(x)) <= Capacity
  BY <1>2, <1>3 DEF Evict
<1> QED
  BY <1>1, <1>4

LEMMA OwnerLeaves ==
  ASSUME TypeOK, NEW i \in Index, line[i] # <<>>
  PROVE  Leaving(Owner(i), i)
<1>1. i \in 0..N /\ i # 0
  BY Stops DEF Index, N
<1>2. Head(line[i]) \in Tasks
  BY AtHead DEF TypeOK
<1> QED
  BY <1>1, <1>2 DEF Leaving, Owner

-----------------------------------------------------------------------------
LEMMA InitAuditInv == Init => AuditInv
<1> SUFFICES ASSUME Init
             PROVE  AuditInv
  OBVIOUS
<1>1. N \in Nat
  BY LenProperties DEF N
<1>2. <<>> \in Seq(Tasks) /\ Len(<<>>) = 0
  BY EmptySeq
<1>3. TypeOK
  <2>1. at \in [Tasks -> 0..N + 1] /\ id \in [Tasks -> Ids \cup {NoId}]
    BY <1>1 DEF Init
  <2>2. /\ line \in [Index -> Seq(Tasks)]
        /\ kept \in [Index -> Seq(Tasks)]
        /\ left \in [0..N -> Seq(Tasks)]
    BY <1>2 DEF Init
  <2>3. written \in [Index -> BOOLEAN] /\ lost \in [Index -> SUBSET Tasks] /\ closed \in BOOLEAN
    BY DEF Init
  <2>4. \A i \in Index : Len(kept[i]) <= Capacity
    BY <1>2 DEF Init
  <2> QED
    BY <2>1, <2>2, <2>3, <2>4, Zenon DEF TypeOK
<1>4. <<>> \o <<>> = <<>>
  BY <1>2, ConcatEmptySeq
<1>5. OneStream
  BY <1>1, <1>4 DEF Init, OneStream, Index
<1>6. LinesMatchTasks
  BY <1>2 DEF Init, LinesMatchTasks
<1> QED
  BY <1>3, <1>5, <1>6 DEF AuditInv

LEMMA NextAuditInv == AuditInv /\ [Next]_vars => AuditInv'
<1> SUFFICES ASSUME AuditInv, [Next]_vars
             PROVE  AuditInv'
  OBVIOUS
<1>0. TypeOK /\ OneStream /\ LinesMatchTasks
  BY DEF AuditInv
<1>1. ASSUME NEW t \in Tasks, NEW r \in Ids, NEW e \in BOOLEAN, Record(t, r, e)
      PROVE  AuditInv'
  <2>1. Leaving(t, 0) /\ Advance(t, 0, kept, e)
    BY <1>1, Stops, LenProperties DEF Record, Leaving, N
  <2>2. kept \in [Index -> Seq(Tasks)]
    BY <1>0 DEF TypeOK
  <2>3. TypeOK'
    BY <1>0, <1>1, <2>1, <2>2, AdvanceKeepsTypes DEF Record, TypeOK, Index, N
  <2>4. OneStream'
    BY <1>0, <2>1, AdvanceKeepsStream
  <2>5. 0 \notin Index
    BY DEF Index
  <2>6. LinesMatchTasks'
    <3>1. \A i \in Index : written'[i] => line'[i] # <<>> /\ Sinks[i] # "ring"
      BY <1>0, <1>1, <2>1, <2>5, AdvanceKeepsLines DEF Record, LinesMatchTasks
    <3>2. /\ \A i \in Index : \A k, m \in 1..Len(line'[i]) : line'[i][k] = line'[i][m] => k = m
          /\ \A i \in Index : \A k \in 1..Len(line'[i]) : at'[line'[i][k]] = i
          /\ \A i \in Index : IsLog(i) => line'[i] = <<>>
      BY <1>0, <2>1, AdvanceKeepsLines
    <3> QED
      BY <3>1, <3>2 DEF LinesMatchTasks, Index, IsLog, N
  <2> QED
    BY <2>3, <2>4, <2>6 DEF AuditInv
<1>2. ASSUME NEW i \in Index, NEW e \in BOOLEAN, AppendToRing(i, e)
      PROVE  AuditInv'
  <2> DEFINE k == [kept EXCEPT ![i] = Evict(Append(kept[i], Owner(i)))]
  <2>1. Leaving(Owner(i), i) /\ Advance(Owner(i), i, k, e)
    BY <1>0, <1>2, OwnerLeaves DEF AppendToRing
  <2>2. /\ Evict(Append(kept[i], Owner(i))) \in Seq(Tasks)
        /\ Len(Evict(Append(kept[i], Owner(i)))) <= Capacity
    BY <1>0, <1>2, <2>1, EvictBounds DEF AppendToRing, TypeOK, Leaving
  <2>3. /\ k \in [Index -> Seq(Tasks)]
        /\ \A j \in Index : Sinks[j] = "ring" => Len(k[j]) <= Capacity
    BY <1>0, <2>2 DEF TypeOK
  <2> HIDE DEF k
  <2>4. TypeOK'
    BY <1>0, <1>2, <2>1, <2>3, AdvanceKeepsTypes DEF AppendToRing, TypeOK, Index, N
  <2>5. OneStream'
    BY <1>0, <2>1, AdvanceKeepsStream
  <2>6. LinesMatchTasks'
    <3>1. \A j \in Index : written'[j] => line'[j] # <<>> /\ Sinks[j] # "ring"
      BY <1>0, <1>2, <2>1, AdvanceKeepsLines DEF AppendToRing, LinesMatchTasks
    <3>2. /\ \A j \in Index : \A m, n \in 1..Len(line'[j]) : line'[j][m] = line'[j][n] => m = n
          /\ \A j \in Index : \A m \in 1..Len(line'[j]) : at'[line'[j][m]] = j
          /\ \A j \in Index : IsLog(j) => line'[j] = <<>>
      BY <1>0, <2>1, AdvanceKeepsLines
    <3> QED
      BY <3>1, <3>2 DEF LinesMatchTasks, Index, IsLog, N
  <2> QED
    BY <2>4, <2>5, <2>6 DEF AuditInv
<1>3. ASSUME NEW i \in Index, Write(i)
      PROVE  AuditInv'
  <2>1. Owner(i) \in Tasks
    BY <1>0, <1>3, OwnerLeaves DEF Write, Leaving
  <2>2. Append(kept[i], Owner(i)) \in Seq(Tasks)
    BY <1>0, <2>1, AppendProperties DEF TypeOK
  <2>3. Sinks[i] # "ring"
    BY <1>3 DEF Write
  <2>4. TypeOK'
    BY <1>0, <1>3, <2>2, <2>3 DEF Write, TypeOK, Index, N
  <2>5. OneStream'
    BY <1>0, <1>3 DEF Write, OneStream, Index, N
  <2>6. LinesMatchTasks'
    BY <1>0, <1>3, <2>3 DEF Write, LinesMatchTasks, TypeOK, Index, IsLog, N
  <2> QED
    BY <2>4, <2>5, <2>6 DEF AuditInv
<1>4. ASSUME NEW i \in Index, FailWrite(i)
      PROVE  AuditInv'
  <2>1. Owner(i) \in Tasks
    BY <1>0, <1>4, OwnerLeaves DEF FailWrite, Leaving
  <2>2. Sinks[i] # "ring"
    BY <1>4 DEF FailWrite
  <2>3. TypeOK'
    BY <1>0, <1>4, <2>1 DEF FailWrite, TypeOK, Index, N
  <2>4. OneStream'
    BY <1>0, <1>4 DEF FailWrite, OneStream, Index, N
  <2>5. LinesMatchTasks'
    BY <1>0, <1>4, <2>2 DEF FailWrite, LinesMatchTasks, TypeOK, Index, IsLog, N
  <2> QED
    BY <2>3, <2>4, <2>5 DEF AuditInv
<1>5. ASSUME NEW i \in Index, NEW e \in BOOLEAN, Resume(i, e)
      PROVE  AuditInv'
  <2>1. Leaving(Owner(i), i) /\ Advance(Owner(i), i, kept, e)
    BY <1>0, <1>5, OwnerLeaves DEF Resume
  <2>2. kept \in [Index -> Seq(Tasks)]
    BY <1>0 DEF TypeOK
  <2>3. TypeOK'
    BY <1>0, <1>5, <2>1, <2>2, AdvanceKeepsTypes DEF Resume, TypeOK, Index, N
  <2>4. OneStream'
    BY <1>0, <2>1, AdvanceKeepsStream
  <2>5. LinesMatchTasks'
    <3>1. \A j \in Index : written'[j] => line'[j] # <<>> /\ Sinks[j] # "ring"
      BY <1>0, <1>5, <2>1, AdvanceKeepsLines DEF Resume, LinesMatchTasks, TypeOK
    <3>2. /\ \A j \in Index : \A m, n \in 1..Len(line'[j]) : line'[j][m] = line'[j][n] => m = n
          /\ \A j \in Index : \A m \in 1..Len(line'[j]) : at'[line'[j][m]] = j
          /\ \A j \in Index : IsLog(j) => line'[j] = <<>>
      BY <1>0, <2>1, AdvanceKeepsLines
    <3> QED
      BY <3>1, <3>2 DEF LinesMatchTasks, Index, IsLog, N
  <2> QED
    BY <2>3, <2>4, <2>5 DEF AuditInv
<1>6. CASE Close
  <2>1. TypeOK'
    BY <1>0, <1>6 DEF Close, TypeOK, Index, N
  <2>2. OneStream' /\ LinesMatchTasks'
    BY <1>0, <1>6 DEF Close, OneStream, LinesMatchTasks, Index, IsLog, N
  <2> QED
    BY <2>1, <2>2 DEF AuditInv
<1>7. CASE UNCHANGED vars
  <2>1. TypeOK'
    BY <1>0, <1>7 DEF vars, TypeOK, Index, N
  <2>2. OneStream' /\ LinesMatchTasks'
    BY <1>0, <1>7 DEF vars, OneStream, LinesMatchTasks, Index, IsLog, N
  <2> QED
    BY <2>1, <2>2 DEF AuditInv
<1> QED
  BY <1>1, <1>2, <1>3, <1>4, <1>5, <1>6, <1>7 DEF Next, Stopped

(* Every variable keeps its type, the chain of sinks is first come, first   *)
(* served, and the lines are consistent, in every reachable state.          *)
THEOREM AuditSafe == Spec => []AuditInv
  BY InitAuditInv, NextAuditInv, PTL DEF Spec

(* Type correctness, the bound of the ring behind /stats included. *)
THEOREM TypeCorrect == Spec => []TypeOK
<1>1. AuditInv => TypeOK
  BY DEF AuditInv
<1> QED
  BY <1>1, AuditSafe, PTL

(* Nobody stands in two lines or waits for a sink it is not at, and no      *)
(* finished write is without an owner to resume.                            *)
THEOREM LinesAlwaysMatch == Spec => []LinesMatchTasks
<1>1. AuditInv => LinesMatchTasks
  BY DEF AuditInv
<1> QED
  BY <1>1, AuditSafe, PTL

(* All sinks see one stream: what has left a sink is what left the next,    *)
(* in the same order, followed by those who wait there.                     *)
THEOREM SinksShareOneStream == Spec => []OneStream
<1>1. AuditInv => OneStream
  BY DEF AuditInv
<1> QED
  BY <1>1, AuditSafe, PTL

-----------------------------------------------------------------------------
(* What every sink has made of every record: nothing before the write, and   *)
(* from then on it either holds the record or is known to have raised on it. *)

Settled(t, i) == at[t] > i \/ (at[t] = i /\ written[i] /\ t = Owner(i))

OfferedInTurn == \A i \in Index, t \in Tasks : at[t] > i => Has(left[i], t)

OutcomesKnown ==
    \A i \in Index, t \in Tasks : Sinks[i] # "ring" =>
        /\ Settled(t, i) => (Has(kept[i], t) <=> t \notin lost[i])
        /\ ~Settled(t, i) => ~Has(kept[i], t) /\ t \notin lost[i]

LEMMA HasAppended ==
  ASSUME NEW S, NEW s \in Seq(S), NEW e \in S, NEW x, Appended(x, s, e), NEW u
  PROVE  Has(x, u) <=> Has(s, u) \/ u = e
<1>1. /\ Len(s) \in Nat /\ Len(x) = Len(s) + 1
      /\ \A m \in 1..Len(s) : x[m] = s[m]
      /\ x[Len(s) + 1] = e
  BY AtEnd DEF Appended
<1>2. ASSUME Has(x, u)
      PROVE  Has(s, u) \/ u = e
  <2>1. PICK m \in 1..Len(x) : x[m] = u
    BY <1>2 DEF Has
  <2>2. m \in 1..Len(s) \/ m = Len(s) + 1
    BY <1>1
  <2> QED
    BY <1>1, <2>1, <2>2 DEF Has
<1>3. Has(s, u) => Has(x, u)
  BY <1>1 DEF Has
<1>4. Has(x, e)
  BY <1>1 DEF Has
<1> QED
  BY <1>2, <1>3, <1>4

LEMMA LeaverIsThere ==
  ASSUME TypeOK, LinesMatchTasks, NEW t, NEW i, Leaving(t, i)
  PROVE  at[t] = i
<1>1. CASE i = 0
  BY <1>1 DEF Leaving
<1>2. CASE i # 0
  <2>0. i \in Index
    BY <1>2, Stops DEF Leaving, Index
  <2>1. line[i] # <<>> /\ t = Head(line[i]) /\ line[i] \in Seq(Tasks)
    BY <1>2, <2>0 DEF Leaving, Owner, TypeOK
  <2>2. Len(line[i]) \in Nat \ {0} /\ t = line[i][1]
    BY <2>1, AtHead
  <2> QED
    BY <2>0, <2>2 DEF LinesMatchTasks
<1> QED
  BY <1>1, <1>2

(* The step from one stop to the next, seen by one sink. *)
LEMMA AdvanceAt ==
  ASSUME TypeOK, LinesMatchTasks, NEW t, NEW i, NEW k, NEW emitted \in BOOLEAN,
         Leaving(t, i), Advance(t, i, k, emitted), NEW j \in Index
  PROVE  /\ \A u \in Tasks : at'[u] = IF u = t THEN NextStop(i) ELSE at[u]
         /\ left'[j] = IF j \in {i} \cup Passed(i) THEN Append(left[j], t) ELSE left[j]
         /\ j \notin Passed(i) => kept'[j] = k[j] /\ lost'[j] = lost[j]
         /\ j \in Passed(i) => \/ kept'[j] = Append(k[j], t) /\ lost'[j] = lost[j]
                               \/ kept'[j] = k[j] /\ lost'[j] = lost[j] \cup {t}
         /\ j # i /\ line[j] # <<>> => Head(line'[j]) = Head(line[j])
<1>1. j \in 0..N
  BY Stops DEF Index, N
<1>2. j # i => line'[j] = IF j = NextStop(i) THEN Append(line[j], t) ELSE line[j]
  BY DEF Advance, Join
<1>3. ASSUME line[j] # <<>>, NEW x, x = Append(line[j], t)
      PROVE  Head(x) = Head(line[j])
  <2>1. line[j] \in Seq(Tasks) /\ t \in Tasks
    BY DEF TypeOK, Leaving
  <2>2. /\ x \in Seq(Tasks) /\ x # <<>>
        /\ \A m \in 1..Len(line[j]) : x[m] = line[j][m]
    BY <1>3, <2>1, AtEnd
  <2>3. Len(line[j]) \in Nat \ {0} /\ Head(line[j]) = line[j][1]
    BY <1>3, <2>1, AtHead
  <2>4. Head(x) = x[1]
    BY <2>2, AtHead
  <2> QED
    BY <2>2, <2>3, <2>4
<1>4. \A u \in Tasks : at'[u] = IF u = t THEN NextStop(i) ELSE at[u]
  BY DEF Advance, TypeOK
<1>5. left'[j] = IF j \in {i} \cup Passed(i) THEN Append(left[j], t) ELSE left[j]
  BY <1>1 DEF Advance
<1>6. /\ kept'[j] = IF j \in Passed(i) /\ emitted THEN Append(k[j], t) ELSE k[j]
      /\ lost'[j] = IF j \in Passed(i) /\ ~emitted THEN lost[j] \cup {t} ELSE lost[j]
  BY DEF Advance
<1>7. CASE emitted
  BY <1>2, <1>3, <1>4, <1>5, <1>6, <1>7
<1>8. CASE ~emitted
  BY <1>2, <1>3, <1>4, <1>5, <1>6, <1>8
<1> QED
  BY <1>7, <1>8

LEMMA AdvanceOffers ==
  ASSUME TypeOK, LinesMatchTasks, OfferedInTurn,
         NEW t, NEW i, NEW k, NEW emitted \in BOOLEAN,
         Leaving(t, i), Advance(t, i, k, emitted)
  PROVE  OfferedInTurn'
<1> SUFFICES ASSUME NEW j \in Index, NEW u \in Tasks, at'[u] > j
             PROVE  Has(left'[j], u)
  BY DEF OfferedInTurn, Index, N
<1>1. /\ at'[u] = IF u = t THEN NextStop(i) ELSE at[u]
      /\ left'[j] = IF j \in {i} \cup Passed(i) THEN Append(left[j], t) ELSE left[j]
  BY AdvanceAt
<1>2. t \in Tasks /\ i \in 0..N /\ N \in Nat /\ j \in 1..N
  BY Stops DEF Leaving, Index
<1>8. left[j] \in Seq(Tasks)
  BY <1>2 DEF TypeOK
<1>7. ASSUME NEW x, Appended(x, left[j], t)
      PROVE  (Has(left[j], u) => Has(x, u)) /\ Has(x, t)
  BY <1>2, <1>7, <1>8, HasAppended
<1>3. Has(left[j], u) => Has(left'[j], u)
  BY <1>1, <1>7 DEF Appended
<1>4. CASE u # t
  BY <1>1, <1>3, <1>4 DEF OfferedInTurn
<1>5. CASE u = t /\ j \in {i} \cup Passed(i)
  BY <1>1, <1>5, <1>7 DEF Appended
<1>6. CASE u = t /\ j \notin {i} \cup Passed(i)
  <2>1. at[t] = i /\ NextStop(i) > j
    BY <1>1, <1>6, LeaverIsThere
  <2>2. j < i
    BY <1>2, <1>6, <2>1, Stops DEF Passed, NextStop, IsLog, Index
  <2> QED
    BY <1>3, <1>6, <2>1, <2>2 DEF OfferedInTurn
<1> QED
  BY <1>4, <1>5, <1>6

LEMMA AdvanceKeepsOutcomes ==
  ASSUME TypeOK, LinesMatchTasks, OutcomesKnown,
         NEW t, NEW i, NEW k, NEW emitted \in BOOLEAN,
         Leaving(t, i), Advance(t, i, k, emitted),
         \A j \in Index : Sinks[j] # "ring" => k[j] = kept[j],
         \A j \in Index : written'[j] <=> j # i /\ written[j],
         i \in Index => Sinks[i] = "ring" \/ written[i]
  PROVE  OutcomesKnown'
<1> SUFFICES ASSUME NEW j \in Index, NEW u \in Tasks, Sinks[j] # "ring"
             PROVE  /\ Settled(u, j)' => (Has(kept'[j], u) <=> u \notin lost'[j])
                    /\ ~Settled(u, j)' => ~Has(kept'[j], u) /\ u \notin lost'[j]
  BY DEF OutcomesKnown, Index, N
<1>1. /\ at'[u] = IF u = t THEN NextStop(i) ELSE at[u]
      /\ j \notin Passed(i) => kept'[j] = kept[j] /\ lost'[j] = lost[j]
      /\ j \in Passed(i) => \/ kept'[j] = Append(kept[j], t) /\ lost'[j] = lost[j]
                            \/ kept'[j] = kept[j] /\ lost'[j] = lost[j] \cup {t}
      /\ j # i /\ line[j] # <<>> => Head(line'[j]) = Head(line[j])
  BY AdvanceAt
<1>2. /\ kept[j] \in Seq(Tasks) /\ t \in Tasks /\ i \in 0..N /\ at[t] = i
      /\ N \in Nat /\ j \in 1..N /\ at[u] \in 0..N + 1
  BY Stops, LeaverIsThere DEF TypeOK, Leaving, Index
<1>3. /\ Settled(u, j) => (Has(kept[j], u) <=> u \notin lost[j])
      /\ ~Settled(u, j) => ~Has(kept[j], u) /\ u \notin lost[j]
  BY DEF OutcomesKnown
<1>4. Settled(u, j)' <=> at'[u] > j \/ (at'[u] = j /\ written'[j] /\ u = Head(line'[j]))
  BY DEF Settled, Owner
<1>5. Settled(u, j) <=> at[u] > j \/ (at[u] = j /\ written[j] /\ u = Head(line[j]))
  BY DEF Settled, Owner
<1>6. CASE u = t /\ j \in Passed(i)
  <2>1. j = i + 1 /\ NextStop(i) = i + 2
    BY <1>2, <1>6, Stops
  <2>2. ~Settled(u, j)
    BY <1>2, <1>5, <1>6, <2>1
  <2>3. at'[u] > j
    BY <1>1, <1>2, <1>6, <2>1
  <2>4. ASSUME NEW x, Appended(x, kept[j], t)
        PROVE  Has(x, u)
    BY <1>2, <1>6, <2>4, HasAppended
  <2>5. Has(kept'[j], u) <=> u \notin lost'[j]
    BY <1>1, <1>3, <1>6, <2>2, <2>4 DEF Appended
  <2> QED
    BY <1>4, <2>3, <2>5
<1>7. CASE ~(u = t /\ j \in Passed(i))
  <2>0. ASSUME NEW x, Appended(x, kept[j], t), u # t
        PROVE  Has(x, u) <=> Has(kept[j], u)
    BY <1>2, <2>0, HasAppended
  <2>1. Has(kept'[j], u) <=> Has(kept[j], u)
    BY <1>1, <1>7, <2>0 DEF Appended
  <2>2. u \in lost'[j] <=> u \in lost[j]
    BY <1>1, <1>7
  <2>3. written[j] => line[j] # <<>>
    BY DEF LinesMatchTasks
  <2>4. Settled(u, j)' <=> Settled(u, j)
    <3>1. CASE u # t /\ j # i
      BY <1>1, <1>4, <1>5, <2>3, <3>1
    <3>2. CASE u # t /\ j = i
      <4>1. t = Head(line[j])
        BY <1>2, <3>2 DEF Leaving, Owner
      <4> QED
        BY <1>1, <1>4, <1>5, <3>2, <4>1
    <3>3. CASE u = t /\ j = i
      <4>1. written[j] /\ u = Head(line[j])
        BY <1>2, <3>3 DEF Leaving, Owner
      <4>2. Settled(u, j)
        BY <1>2, <1>5, <3>3, <4>1
      <4>3. at'[u] > j
        BY <1>1, <1>2, <3>3, Stops
      <4> QED
        BY <1>4, <4>2, <4>3
    <3>4. CASE u = t /\ j < i
      <4>1. at[u] > j
        BY <1>2, <3>4
      <4>2. at'[u] > j
        BY <1>1, <1>2, <3>4, Stops
      <4> QED
        BY <1>4, <1>5, <4>1, <4>2
    <3>5. CASE u = t /\ j > i
      <4>1. NextStop(i) <= j
        BY <1>2, <1>7, <3>5 DEF NextStop, Passed
      <4>2. ~(at[u] > j) /\ at[u] # j
        BY <1>2, <3>5
      <4>3. ~(at'[u] > j)
        BY <1>1, <1>2, <3>5, <4>1, Stops
      <4>4. written'[j] => u # Head(line'[j])
        <5> SUFFICES ASSUME written'[j]
                     PROVE  u # Head(line'[j])
          OBVIOUS
        <5>1. line[j] # <<>> /\ Head(line'[j]) = Head(line[j])
          BY <1>1, <1>2, <2>3, <3>5
        <5>2. line[j] \in Seq(Tasks)
          BY DEF TypeOK
        <5>3. Len(line[j]) \in Nat \ {0} /\ Head(line[j]) = line[j][1]
          BY <5>1, <5>2, AtHead
        <5>4. at[line[j][1]] = j
          BY <5>3 DEF LinesMatchTasks
        <5> QED
          BY <4>2, <5>1, <5>3, <5>4
      <4> QED
        BY <1>4, <1>5, <4>2, <4>3, <4>4
    <3> QED
      BY <1>2, <3>1, <3>2, <3>3, <3>4, <3>5
  <2> QED
    BY <1>3, <2>1, <2>2, <2>4
<1> QED
  BY <1>6, <1>7

-----------------------------------------------------------------------------
(* The ring: dropping the oldest record after each append keeps the latest. *)

Recent(s) == SubSeq(s, IF Len(s) > Capacity THEN Len(s) - Capacity + 1 ELSE 1, Len(s))
Kept(n) == IF n > Capacity THEN Capacity ELSE n

LEMMA RecentHas ==
  ASSUME NEW s \in Seq(Tasks)
  PROVE  /\ Recent(s) \in Seq(Tasks)
         /\ Len(Recent(s)) = Kept(Len(s))
         /\ \A m \in 1..Kept(Len(s)) : Recent(s)[m] = s[Len(s) - Kept(Len(s)) + m]
<1>1. PICK a \in Nat : a = Len(s) /\ \A m \in 1..a : s[m] \in Tasks
  BY LenProperties, ElementOfSeq
<1>2. PICK lo \in Nat \ {0} : /\ lo = IF a > Capacity THEN a - Capacity + 1 ELSE 1
                              /\ Kept(a) = a - lo + 1
  <2>1. CASE a > Capacity
    <3>1. a - Capacity + 1 \in Nat \ {0} /\ Kept(a) = a - (a - Capacity + 1) + 1
      BY <2>1 DEF Kept
    <3> QED
      BY <2>1, <3>1
  <2>2. CASE ~(a > Capacity)
    <3>1. 1 \in Nat \ {0} /\ Kept(a) = a - 1 + 1
      BY <2>2 DEF Kept
    <3> QED
      BY <2>2, <3>1
  <2> QED
    BY <2>1, <2>2
<1>3. \A m \in lo..a : s[m] \in Tasks
  BY <1>1, <1>2
<1>4. /\ SubSeq(s, lo, a) \in Seq(Tasks)
      /\ Len(SubSeq(s, lo, a)) = IF lo <= a THEN a - lo + 1 ELSE 0
      /\ \A m \in 1..a - lo + 1 : SubSeq(s, lo, a)[m] = s[lo + m - 1]
  BY <1>3, SubSeqProperties
<1>5. Recent(s) = SubSeq(s, lo, a)
  BY <1>1, <1>2 DEF Recent
<1>6. Len(SubSeq(s, lo, a)) = Kept(a)
  BY <1>2, <1>4 DEF Kept
<1>7. \A m \in 1..Kept(a) : SubSeq(s, lo, a)[m] = s[a - Kept(a) + m]
  <2> TAKE m \in 1..Kept(a)
  <2>1. m \in 1..a - lo + 1 /\ lo + m - 1 = a - Kept(a) + m
    BY <1>2
  <2> QED
    BY <1>4, <2>1
<1> QED
  BY <1>1, <1>4, <1>5, <1>6, <1>7

LEMMA EvictKeepsLatest ==
  ASSUME NEW s \in Seq(Tasks), NEW t \in Tasks,
         NEW x, Appended(x, s, t), NEW y, Appended(y, Recent(s), t)
  PROVE  Evict(y) = Recent(x)
<1>1. PICK a \in Nat, n \in Nat : a = Len(s) /\ n = Kept(a) /\ n <= a /\ n <= Capacity
  BY LenProperties DEF Kept
<1>2. /\ Recent(s) \in Seq(Tasks) /\ Len(Recent(s)) = n
      /\ \A m \in 1..n : Recent(s)[m] = s[a - n + m]
  BY <1>1, RecentHas
<1>3. /\ x \in Seq(Tasks) /\ Len(x) = a + 1 /\ x[a + 1] = t
      /\ \A m \in 1..a : x[m] = s[m]
  BY <1>1, AtEnd DEF Appended
<1>4. /\ y \in Seq(Tasks) /\ Len(y) = n + 1 /\ y # <<>> /\ y[n + 1] = t
      /\ \A m \in 1..n : y[m] = Recent(s)[m]
  BY <1>2, AtEnd DEF Appended
<1>5. \A m \in 1..n + 1 : y[m] = x[a - n + m]
  <2> TAKE m \in 1..n + 1
  <2>1. CASE m \in 1..n
    <3>1. a - n + m \in 1..a
      BY <1>1, <2>1
    <3> QED
      BY <1>2, <1>3, <1>4, <2>1, <3>1
  <2>2. CASE m = n + 1
    <3>1. a - n + m = a + 1
      BY <1>1, <2>2
    <3> QED
      BY <1>3, <1>4, <2>2, <3>1
  <2> QED
    BY <2>1, <2>2
<1>9. PICK b \in Nat : b = Len(x) /\ b = a + 1
  BY <1>1, <1>3
<1>6. /\ Recent(x) \in Seq(Tasks) /\ Len(Recent(x)) = Kept(b)
      /\ \A m \in 1..Kept(b) : Recent(x)[m] = x[b - Kept(b) + m]
  BY <1>3, <1>9, RecentHas
<1>7. CASE a < Capacity
  <2>1. n = a /\ Kept(b) = b /\ ~(b > Capacity)
    BY <1>1, <1>7, <1>9 DEF Kept
  <2>2. Len(y) = b /\ Evict(y) = y
    BY <1>4, <1>9, <2>1 DEF Evict
  <2>3. \A m \in 1..b : y[m] = Recent(x)[m]
    <3> TAKE m \in 1..b
    <3>1. m \in 1..n + 1 /\ a - n + m = m /\ b - Kept(b) + m = m /\ m \in 1..Kept(b)
      BY <1>1, <1>9, <2>1
    <3>2. y[m] = x[m]
      BY <1>5, <3>1
    <3>3. Recent(x)[m] = x[m]
      BY <1>6, <3>1
    <3> QED
      BY <3>2, <3>3
  <2>4. y = Recent(x)
    BY <1>4, <1>6, <2>1, <2>2, <2>3, SeqEqual
  <2> QED
    BY <2>2, <2>4
<1>8. CASE a >= Capacity
  <2>1. n = Capacity /\ Kept(b) = n /\ n + 1 > Capacity
    BY <1>1, <1>8, <1>9 DEF Kept
  <2>2. Evict(y) = Tail(y)
    BY <1>4, <2>1 DEF Evict
  <2>3. /\ Tail(y) \in Seq(Tasks) /\ Len(Tail(y)) = n
        /\ \A m \in 1..n : Tail(y)[m] = y[m + 1]
    BY <1>1, <1>4, HeadTailProperties
  <2>4. \A m \in 1..n : Tail(y)[m] = Recent(x)[m]
    <3> TAKE m \in 1..n
    <3>6. m + 1 \in 1..n + 1 /\ a - n + (m + 1) = (a + 1) - n + m
      OBVIOUS
    <3>5. m + 1 \in 1..n + 1 /\ a - n + (m + 1) = b - n + m
      BY <1>9, <3>6
    <3>1. PICK p \in 1..n + 1 : p = m + 1 /\ a - n + p = b - n + m
      BY <3>5
    <3>2. Tail(y)[m] = y[p]
      BY <2>3, <3>1
    <3>3. y[p] = x[a - n + p]
      BY <1>5
    <3>4. Recent(x)[m] = x[b - n + m]
      BY <1>6, <2>1
    <3> QED
      BY <3>1, <3>2, <3>3, <3>4
  <2>5. Tail(y) = Recent(x)
    BY <1>6, <2>1, <2>3, <2>4, SeqEqual
  <2> QED
    BY <2>2, <2>5
<1> QED
  BY <1>1, <1>7, <1>8

LEMMA RingMeans ==
  RingIsRecent <=> \A i \in Index : Sinks[i] = "ring" => kept[i] = Recent(left[i])
  BY DEF RingIsRecent, Recent

(* A step past sink i disturbs no ring but, possibly, the one at i. *)
LEMMA AdvanceKeepsOtherRings ==
  ASSUME TypeOK, LinesMatchTasks, RingIsRecent,
         NEW t, NEW i, NEW k, NEW emitted \in BOOLEAN,
         Leaving(t, i), Advance(t, i, k, emitted),
         NEW j \in Index, Sinks[j] = "ring", j # i, k[j] = kept[j]
  PROVE  kept'[j] = Recent(left'[j])
<1>1. j \notin Passed(i)
  BY DEF Passed, IsLog
<1>2. kept'[j] = k[j] /\ left'[j] = left[j]
  BY <1>1, AdvanceAt
<1> QED
  BY <1>2, RingMeans

-----------------------------------------------------------------------------
SinksInv == AuditInv /\ OfferedInTurn /\ OutcomesKnown /\ RingIsRecent

LEMMA InitSinksInv == Init => SinksInv
<1> SUFFICES ASSUME Init
             PROVE  SinksInv
  OBVIOUS
<1>1. \A t : ~Has(<<>>, t)
  BY EmptySeq DEF Has
<1>2. N \in Nat
  BY LenProperties DEF N
<1>3. OfferedInTurn
  BY <1>2 DEF Init, OfferedInTurn, Index
<1>4. OutcomesKnown
  BY <1>1, <1>2 DEF Init, OutcomesKnown, Settled, Index
<1>5. <<>> \in Seq(Tasks) /\ Len(<<>>) = 0
  BY EmptySeq
<1>6. Recent(<<>>) = <<>>
  <2>2. PICK e \in Seq(Tasks) : e = <<>> /\ Len(e) = 0
    BY <1>5
  <2>3. Kept(0) = 0
    BY DEF Kept
  <2>4. Recent(e) \in Seq(Tasks) /\ Len(Recent(e)) = Kept(Len(e))
    BY RecentHas
  <2>1. Recent(<<>>) \in Seq(Tasks) /\ Len(Recent(<<>>)) = 0
    BY <2>2, <2>3, <2>4
  <2> QED
    BY <2>1, EmptySeq
<1>7. RingIsRecent
  BY <1>2, <1>6, RingMeans DEF Init, Index
<1> QED
  BY <1>3, <1>4, <1>7, InitAuditInv DEF SinksInv

LEMMA NextSinksInv == SinksInv /\ [Next]_vars => SinksInv'
<1> SUFFICES ASSUME SinksInv, [Next]_vars
             PROVE  OfferedInTurn' /\ OutcomesKnown' /\ RingIsRecent'
  BY NextAuditInv DEF SinksInv
<1>0. /\ TypeOK /\ LinesMatchTasks /\ OfferedInTurn /\ OutcomesKnown /\ RingIsRecent
      /\ N \in Nat /\ 0 \notin Index /\ Index = 1..N
  BY LenProperties DEF SinksInv, AuditInv, Index, N
<1>7. (\A i \in Index : Sinks[i] = "ring" => kept'[i] = Recent(left'[i])) => RingIsRecent'
  BY DEF RingIsRecent, Recent, Index, N
<1>1. ASSUME NEW t \in Tasks, NEW r \in Ids, NEW e \in BOOLEAN, Record(t, r, e)
      PROVE  OfferedInTurn' /\ OutcomesKnown' /\ RingIsRecent'
  <2>1. Leaving(t, 0) /\ Advance(t, 0, kept, e)
    BY <1>0, <1>1 DEF Record, Leaving
  <2>2. \A j \in Index : written'[j] <=> j # 0 /\ written[j]
    BY <1>0, <1>1 DEF Record
  <2>3. OfferedInTurn'
    BY <1>0, <2>1, AdvanceOffers
  <2>4. OutcomesKnown'
    BY <1>0, <2>1, <2>2, AdvanceKeepsOutcomes
  <2>5. RingIsRecent'
    BY <1>0, <1>7, <2>1, AdvanceKeepsOtherRings
  <2> QED
    BY <2>3, <2>4, <2>5
<1>2. ASSUME NEW i \in Index, NEW e \in BOOLEAN, AppendToRing(i, e)
      PROVE  OfferedInTurn' /\ OutcomesKnown' /\ RingIsRecent'
  <2> DEFINE k == [kept EXCEPT ![i] = Evict(Append(kept[i], Owner(i)))]
  <2>1. Leaving(Owner(i), i) /\ Advance(Owner(i), i, k, e) /\ Sinks[i] = "ring"
    BY <1>0, <1>2, OwnerLeaves DEF AppendToRing
  <2>2. \A j \in Index : Sinks[j] # "ring" => k[j] = kept[j]
    BY <1>0, <2>1 DEF TypeOK
  <2>3. \A j \in Index : written'[j] <=> j # i /\ written[j]
    BY <1>0, <1>2, <2>1 DEF AppendToRing, LinesMatchTasks
  <2>4. \A j \in Index : j # i => k[j] = kept[j]
    BY <1>0 DEF TypeOK
  <2>5. k[i] = Evict(Append(kept[i], Owner(i)))
    BY <1>0 DEF TypeOK
  <2> HIDE DEF k
  <2>6. OfferedInTurn'
    BY <1>0, <2>1, AdvanceOffers
  <2>7. OutcomesKnown'
    BY <1>0, <2>1, <2>2, <2>3, AdvanceKeepsOutcomes
  <2>8. kept'[i] = Recent(left'[i])
    <3>1. i \notin Passed(i)
      BY <1>0, <2>1 DEF Passed
    <3>5. kept'[i] = k[i] /\ left'[i] = Append(left[i], Owner(i))
      <4>1. i \in 0..N
        BY <1>0
      <4>2. left'[i] = Append(left[i], Owner(i))
        BY <2>1, <4>1 DEF Advance
      <4>3. kept'[i] = k[i]
        BY <2>1, <3>1 DEF Advance
      <4> QED
        BY <4>2, <4>3
    <3>2. kept'[i] = k[i] /\ Appended(left'[i], left[i], Owner(i))
      BY <3>5 DEF Appended
    <3>3. kept[i] = Recent(left[i]) /\ left[i] \in Seq(Tasks) /\ Owner(i) \in Tasks
      BY <1>0, <2>1, RingMeans DEF TypeOK, Leaving
    <3>4. ASSUME NEW y, Appended(y, Recent(left[i]), Owner(i))
          PROVE  Evict(y) = Recent(left'[i])
      BY <3>2, <3>3, <3>4, EvictKeepsLatest
    <3> QED
      BY <2>5, <3>2, <3>3, <3>4 DEF Appended
  <2>9. RingIsRecent'
    BY <1>0, <1>7, <2>1, <2>4, <2>8, AdvanceKeepsOtherRings
  <2> QED
    BY <2>6, <2>7, <2>9
<1>3. ASSUME NEW i \in Index, Write(i)
      PROVE  OfferedInTurn' /\ OutcomesKnown' /\ RingIsRecent'
  <2>1. /\ Owner(i) \in Tasks /\ at[Owner(i)] = i /\ line[i] # <<>>
        /\ Sinks[i] # "ring" /\ ~written[i] /\ kept[i] \in Seq(Tasks)
    BY <1>0, <1>3, OwnerLeaves, LeaverIsThere DEF Write, Leaving, TypeOK
  <2>2. /\ kept' = [kept EXCEPT ![i] = Append(@, Owner(i))]
        /\ written' = [written EXCEPT ![i] = TRUE]
        /\ UNCHANGED <<at, line, lost, left>>
    BY <1>3 DEF Write
  <2>3. OfferedInTurn'
    BY <1>0, <2>2 DEF OfferedInTurn, Index, N
  <2>4. OutcomesKnown'
    <3> SUFFICES ASSUME NEW j \in Index, NEW u \in Tasks, Sinks[j] # "ring"
                 PROVE  /\ Settled(u, j)' => (Has(kept'[j], u) <=> u \notin lost'[j])
                        /\ ~Settled(u, j)' => ~Has(kept'[j], u) /\ u \notin lost'[j]
      BY DEF OutcomesKnown, Index, N
    <3>1. /\ Settled(u, j) => (Has(kept[j], u) <=> u \notin lost[j])
          /\ ~Settled(u, j) => ~Has(kept[j], u) /\ u \notin lost[j]
      BY <1>0 DEF OutcomesKnown
    <3>2. Settled(u, j)' <=> Settled(u, j) \/ (j = i /\ u = Owner(i))
      BY <1>0, <2>1, <2>2 DEF Settled, Owner, TypeOK
    <3>3. ASSUME NEW x, Appended(x, kept[i], Owner(i))
          PROVE  Has(x, u) <=> Has(kept[i], u) \/ u = Owner(i)
      BY <2>1, <3>3, HasAppended
    <3>4. Has(kept'[j], u) <=> Has(kept[j], u) \/ (j = i /\ u = Owner(i))
      BY <1>0, <2>2, <3>3 DEF Appended, TypeOK
    <3>5. ~Settled(Owner(i), i)
      BY <1>0, <2>1 DEF Settled
    <3> QED
      BY <2>2, <3>1, <3>2, <3>4, <3>5
  <2>5. RingIsRecent'
    BY <1>0, <1>7, <2>1, <2>2, RingMeans DEF TypeOK
  <2> QED
    BY <2>3, <2>4, <2>5
<1>4. ASSUME NEW i \in Index, FailWrite(i)
      PROVE  OfferedInTurn' /\ OutcomesKnown' /\ RingIsRecent'
  <2>1. /\ Owner(i) \in Tasks /\ at[Owner(i)] = i /\ line[i] # <<>>
        /\ Sinks[i] # "ring" /\ ~written[i]
    BY <1>0, <1>4, OwnerLeaves, LeaverIsThere DEF FailWrite, Leaving
  <2>2. /\ lost' = [lost EXCEPT ![i] = @ \cup {Owner(i)}]
        /\ written' = [written EXCEPT ![i] = TRUE]
        /\ UNCHANGED <<at, line, kept, left>>
    BY <1>4 DEF FailWrite
  <2>3. OfferedInTurn'
    BY <1>0, <2>2 DEF OfferedInTurn, Index, N
  <2>4. OutcomesKnown'
    <3> SUFFICES ASSUME NEW j \in Index, NEW u \in Tasks, Sinks[j] # "ring"
                 PROVE  /\ Settled(u, j)' => (Has(kept'[j], u) <=> u \notin lost'[j])
                        /\ ~Settled(u, j)' => ~Has(kept'[j], u) /\ u \notin lost'[j]
      BY DEF OutcomesKnown, Index, N
    <3>1. /\ Settled(u, j) => (Has(kept[j], u) <=> u \notin lost[j])
          /\ ~Settled(u, j) => ~Has(kept[j], u) /\ u \notin lost[j]
      BY <1>0 DEF OutcomesKnown
    <3>2. Settled(u, j)' <=> Settled(u, j) \/ (j = i /\ u = Owner(i))
      BY <1>0, <2>1, <2>2 DEF Settled, Owner, TypeOK
    <3>3. u \in lost'[j] <=> u \in lost[j] \/ (j = i /\ u = Owner(i))
      BY <1>0, <2>2 DEF TypeOK
    <3>4. ~Settled(Owner(i), i)
      BY <1>0, <2>1 DEF Settled
    <3> QED
      BY <2>2, <3>1, <3>2, <3>3, <3>4
  <2>5. RingIsRecent'
    BY <1>0, <1>7, <2>2, RingMeans
  <2> QED
    BY <2>3, <2>4, <2>5
<1>5. ASSUME NEW i \in Index, NEW e \in BOOLEAN, Resume(i, e)
      PROVE  OfferedInTurn' /\ OutcomesKnown' /\ RingIsRecent'
  <2>1. Leaving(Owner(i), i) /\ Advance(Owner(i), i, kept, e) /\ written[i]
    BY <1>0, <1>5, OwnerLeaves DEF Resume
  <2>2. \A j \in Index : written'[j] <=> j # i /\ written[j]
    BY <1>0, <1>5 DEF Resume, TypeOK
  <2>3. OfferedInTurn'
    BY <1>0, <2>1, AdvanceOffers
  <2>4. OutcomesKnown'
    BY <1>0, <2>1, <2>2, AdvanceKeepsOutcomes
  <2>5. Sinks[i] # "ring"
    BY <1>0, <2>1 DEF LinesMatchTasks
  <2>6. RingIsRecent'
    BY <1>0, <1>7, <2>1, <2>5, AdvanceKeepsOtherRings
  <2> QED
    BY <2>3, <2>4, <2>6
<1>6. CASE Close \/ UNCHANGED vars
  <2>1. UNCHANGED <<at, line, written, kept, lost, left>>
    BY <1>6 DEF Close, vars
  <2>2. OfferedInTurn' /\ OutcomesKnown'
    BY <1>0, <2>1 DEF OfferedInTurn, OutcomesKnown, Settled, Owner, Index, N
  <2>3. RingIsRecent'
    BY <1>0, <1>7, <2>1, RingMeans
  <2> QED
    BY <2>2, <2>3
<1> QED
  BY <1>1, <1>2, <1>3, <1>4, <1>5, <1>6 DEF Next, Stopped

(* Offers, outcomes and the ring, on top of the lines and the stream. *)
THEOREM SinksSafe == Spec => []SinksInv
  BY InitSinksInv, NextSinksInv, PTL DEF Spec

(* Whatever the sinks raise, a record whose record() returned was offered to *)
(* every sink and is missing only where a sink raised on that very record.  *)
THEOREM SinksAreIsolated == Spec => []Isolated
<1>1. SinksInv => Isolated
  <2> SUFFICES ASSUME SinksInv, NEW t \in Tasks, NEW i \in Index, at[t] = N + 1
               PROVE  /\ Has(left[i], t)
                      /\ Sinks[i] # "ring" => (Has(kept[i], t) <=> t \notin lost[i])
    BY DEF Isolated, Returned
  <2>1. at[t] > i
    BY LenProperties DEF Index, N
  <2>2. Has(left[i], t)
    BY <2>1 DEF SinksInv, OfferedInTurn
  <2>3. Sinks[i] # "ring" => (Has(kept[i], t) <=> t \notin lost[i])
    BY <2>1 DEF SinksInv, OutcomesKnown, Settled
  <2> QED
    BY <2>2, <2>3
<1> QED
  BY <1>1, SinksSafe, PTL

(* For every capacity, the ring behind /stats holds the latest records.     *)
THEOREM RingAlwaysRecent == Spec => []RingIsRecent
<1>1. SinksInv => RingIsRecent
  BY DEF SinksInv
<1> QED
  BY <1>1, SinksSafe, PTL

-----------------------------------------------------------------------------
(* The refinement of AuditStream.  Every history is a prefix of the order    *)
(* in which record() was called, so the owner of a sink's lock is the very   *)
(* next record of the stream for that sink.                                 *)

Dealt(i) == Len(left[i]) + (IF written[i] THEN 1 ELSE 0)
Observed(i) == IF Sinks[i] = "ring" THEN left[i] ELSE kept[i]

PrefixOf(s, x) == Len(s) <= Len(x) /\ \A k \in 1..Len(s) : s[k] = x[k]

Prefixes == \A i \in 0..N : PrefixOf(left[i], left[0])
Published == \A t \in Tasks : Has(left[0], t) => at[t] # 0
InOrder == \A i \in Index : Dealt(i) <= IF i = 1 THEN Len(left[0]) ELSE Dealt(i - 1)

StreamInv == AuditInv /\ Prefixes /\ Published

LEMMA DealtIs ==
  ASSUME TypeOK, NEW i \in Index
  PROVE  /\ Len(left[i]) \in Nat /\ Dealt(i) \in Nat
         /\ written[i] => Dealt(i) = Len(left[i]) + 1
         /\ ~written[i] => Dealt(i) = Len(left[i])
<1>1. Len(left[i]) \in Nat
  <2>1. i \in 0..N
    BY DEF Index
  <2> QED
    BY <2>1, LenProperties DEF TypeOK
<1>2. CASE written[i]
  <2>1. Dealt(i) = Len(left[i]) + 1
    BY <1>2, Zenon DEF Dealt
  <2> QED
    BY <1>1, <1>2, <2>1
<1>3. CASE ~written[i]
  <2>1. Dealt(i) = Len(left[i]) + 0
    BY <1>3, Zenon DEF Dealt
  <2> QED
    BY <1>1, <1>3, <2>1
<1> QED
  BY <1>2, <1>3

LEMMA AppendPrefix ==
  ASSUME NEW S, NEW s \in Seq(S), NEW x \in Seq(S), NEW e \in S, PrefixOf(s, x),
         Len(s) + 1 <= Len(x), x[Len(s) + 1] = e, NEW y, Appended(y, s, e)
  PROVE  PrefixOf(y, x)
<1>1. /\ Len(s) \in Nat /\ Len(y) = Len(s) + 1
      /\ \A m \in 1..Len(s) : y[m] = s[m]
      /\ y[Len(s) + 1] = e
  BY AtEnd DEF Appended
<1>2. \A m \in 1..Len(y) : m \in 1..Len(s) \/ m = Len(s) + 1
  BY <1>1
<1> QED
  BY <1>1, <1>2 DEF PrefixOf

LEMMA PrefixExtends ==
  ASSUME NEW S, NEW s \in Seq(S), NEW x \in Seq(S), NEW e \in S, PrefixOf(s, x),
         NEW y, Appended(y, x, e)
  PROVE  PrefixOf(s, y)
<1>1. /\ Len(x) \in Nat /\ Len(s) \in Nat /\ Len(y) = Len(x) + 1
      /\ \A m \in 1..Len(x) : y[m] = x[m]
  BY AtEnd, LenProperties DEF Appended
<1> QED
  BY <1>1 DEF PrefixOf

LEMMA NextInLine ==
  ASSUME TypeOK, OneStream, Prefixes, NEW i \in Index, line[i] # <<>>
  PROVE  Len(left[i]) + 1 <= Len(left[0]) /\ left[0][Len(left[i]) + 1] = Owner(i)
<1>0. N \in Nat /\ 0 \in 0..N /\ i \in 0..N /\ i - 1 \in 0..N
  BY Stops DEF Index
<1>1. /\ left[i] \in Seq(Tasks) /\ left[i - 1] \in Seq(Tasks) /\ line[i] \in Seq(Tasks)
      /\ left[0] \in Seq(Tasks)
      /\ Chained(left[i - 1], left[i], line[i])
  BY <1>0 DEF TypeOK, OneStream, Chained
<1>2. Joined(left[i - 1], left[i], line[i])
  BY <1>1, ChainedIsJoined
<1>3. PICK a \in Nat, b \in Nat \ {0} : a = Len(left[i]) /\ b = Len(line[i])
  BY <1>1, LenProperties, AtHead
<1>4. line[i][1] = Owner(i)
  BY <1>1, AtHead DEF Owner
<1>5. Len(left[i - 1]) = a + b /\ left[i - 1][a + 1] = Owner(i)
  <2>1. 1 \in 1..b
    OBVIOUS
  <2> QED
    BY <1>2, <1>3, <1>4, <2>1 DEF Joined
<1>6. PrefixOf(left[i - 1], left[0])
  BY <1>0 DEF Prefixes
<1>7. PICK c \in Nat : c = Len(left[0]) /\ a + b <= c
  BY <1>1, <1>5, <1>6, LenProperties DEF PrefixOf
<1>8. a + 1 \in 1..Len(left[i - 1])
  BY <1>5
<1>9. left[i - 1][a + 1] = left[0][a + 1]
  BY <1>6, <1>8 DEF PrefixOf
<1>10. left[0][a + 1] = Owner(i) /\ a + 1 <= Len(left[0])
  BY <1>5, <1>7, <1>9
<1> QED
  BY <1>3, <1>10

LEMMA TakenInOrder == AuditInv => InOrder
<1> SUFFICES ASSUME AuditInv, NEW i \in Index
             PROVE  Dealt(i) <= IF i = 1 THEN Len(left[0]) ELSE Dealt(i - 1)
  BY DEF InOrder
<1>0. /\ TypeOK /\ OneStream /\ LinesMatchTasks
      /\ N \in Nat /\ i \in 0..N /\ i \in 1..N /\ i - 1 \in 0..N
  BY Stops DEF AuditInv, Index
<1>1. /\ left[i] \in Seq(Tasks) /\ left[i - 1] \in Seq(Tasks) /\ line[i] \in Seq(Tasks)
      /\ Chained(left[i - 1], left[i], line[i])
  BY <1>0 DEF TypeOK, OneStream, Chained
<1>2. Joined(left[i - 1], left[i], line[i])
  BY <1>1, ChainedIsJoined
<1>3. PICK a \in Nat, b \in Nat : a = Len(left[i]) /\ b = Len(line[i])
  BY <1>1, LenProperties
<1>4. Len(left[i - 1]) = a + b
  BY <1>2, <1>3 DEF Joined
<1>5. Dealt(i) \in Nat /\ Dealt(i) <= a + b
  <2>1. CASE written[i]
    <3>1. b # 0
      BY <1>0, <1>1, <1>3, <2>1, AtHead DEF LinesMatchTasks
    <3>2. Dealt(i) = Len(left[i]) + 1
      BY <1>0, <2>1, DealtIs
    <3> QED
      BY <1>3, <3>1, <3>2
  <2>2. CASE ~written[i]
    <3>1. PICK d \in Nat : Dealt(i) = d /\ d <= a
      BY <1>0, <1>3, <2>2, DealtIs
    <3> QED
      BY <3>1
  <2> QED
    BY <2>1, <2>2
<1>6. CASE i = 1
  BY <1>4, <1>5, <1>6
<1>7. CASE i # 1
  <2>1. i - 1 \in Index
    BY <1>0, <1>7 DEF Index
  <2>2. Dealt(i - 1) \in Nat /\ Dealt(i - 1) >= a + b
    BY <1>0, <1>4, <2>1, DealtIs
  <2> QED
    BY <1>5, <1>7, <2>2
<1> QED
  BY <1>6, <1>7

LEMMA AdvanceKeepsPrefixes ==
  ASSUME AuditInv, Prefixes, NEW t, NEW i, NEW k, NEW emitted \in BOOLEAN,
         Leaving(t, i), Advance(t, i, k, emitted)
  PROVE  Prefixes'
<1> SUFFICES ASSUME NEW j \in 0..N
             PROVE  PrefixOf(left'[j], left'[0])
  BY DEF Prefixes, N
<1>0. TypeOK /\ OneStream /\ LinesMatchTasks
  BY DEF AuditInv
<1>9. N \in Nat /\ i \in 0..N /\ t \in Tasks /\ 0 \in 0..N /\ Passed(i) \subseteq 1..N
  BY Stops DEF Leaving, Index
<1>1. /\ N \in Nat /\ i \in 0..N /\ t \in Tasks /\ 0 \in 0..N /\ 0 \notin Passed(i)
      /\ \A m \in 0..N : left[m] \in Seq(Tasks)
  BY <1>0, <1>9 DEF TypeOK
<1>2. \A m \in 0..N :
        left'[m] = IF m \in {i} \cup Passed(i) THEN Append(left[m], t) ELSE left[m]
  BY DEF Advance
<1>3. /\ i = 0 => left'[0] = Append(left[0], t)
      /\ i # 0 => left'[0] = left[0]
  BY <1>1, <1>2
<1>4. left'[0] \in Seq(Tasks)
  <2>1. left[0] \in Seq(Tasks) /\ Append(left[0], t) \in Seq(Tasks)
    BY <1>1, AppendProperties
  <2> QED
    BY <1>3, <2>1
<1>5. \A m \in 0..N : PrefixOf(left[m], left'[0])
  <2> SUFFICES ASSUME NEW m \in 0..N
               PROVE  PrefixOf(left[m], left'[0])
    OBVIOUS
  <2>1. PrefixOf(left[m], left[0])
    BY DEF Prefixes
  <2>2. ASSUME NEW y, Appended(y, left[0], t)
        PROVE  PrefixOf(left[m], y)
    BY <1>1, <2>1, <2>2, PrefixExtends
  <2> QED
    BY <1>3, <2>1, <2>2 DEF Appended
<1>6. PrefixOf(left'[i], left'[0])
  <2>1. CASE i = 0
    BY <2>1 DEF PrefixOf
  <2>2. CASE i # 0
    <3>1. i \in Index /\ line[i] # <<>> /\ t = Owner(i)
      BY <1>1, <2>2 DEF Leaving, Index
    <3>2. Len(left[i]) + 1 <= Len(left[0]) /\ left[0][Len(left[i]) + 1] = t
      BY <1>0, <3>1, NextInLine
    <3>3. Appended(left'[i], left[i], t) /\ left'[0] = left[0]
      BY <1>1, <1>2, <1>3, <2>2 DEF Appended
    <3> QED
      BY <1>1, <1>5, <3>2, <3>3, AppendPrefix
  <2> QED
    BY <2>1, <2>2
<1>7. CASE j \in Passed(i)
  <2>1. j \in Index /\ IsLog(j) /\ j = i + 1
    BY <1>1, <1>7, Stops
  <2>2. line[j] = <<>> /\ j - 1 = i /\ left[j] \o <<>> = left[j]
    BY <1>0, <1>1, <2>1, ConcatEmptySeq DEF LinesMatchTasks
  <2>3. left[i] = left[j]
    BY <1>0, <2>1, <2>2 DEF OneStream
  <2>4. left'[j] = left'[i]
    BY <1>1, <1>2, <1>7, <2>3
  <2> QED
    BY <1>6, <2>4
<1>8. CASE j \notin Passed(i) /\ j # i
  BY <1>2, <1>5, <1>8
<1> QED
  BY <1>6, <1>7, <1>8

LEMMA AdvancePublishes ==
  ASSUME AuditInv, Published, NEW t, NEW i, NEW k, NEW emitted \in BOOLEAN,
         Leaving(t, i), Advance(t, i, k, emitted)
  PROVE  Published'
<1> SUFFICES ASSUME NEW u \in Tasks, Has(left'[0], u)
             PROVE  at'[u] # 0
  BY DEF Published
<1>0. TypeOK /\ LinesMatchTasks
  BY DEF AuditInv
<1>1. /\ N \in Nat /\ i \in 0..N /\ t \in Tasks /\ NextStop(i) \in i + 1..N + 1
      /\ Passed(i) \subseteq 1..N /\ 0 \in 0..N
  BY Stops DEF Leaving, Index
<1>2. left[0] \in Seq(Tasks) /\ at'[u] = IF u = t THEN NextStop(i) ELSE at[u]
  BY <1>0, <1>1 DEF TypeOK, Advance
<1>3. \/ left'[0] = left[0]
      \/ left'[0] = Append(left[0], t)
  BY <1>1 DEF Advance
<1>4. ASSUME NEW x, Appended(x, left[0], t), Has(x, u)
      PROVE  Has(left[0], u) \/ u = t
  BY <1>1, <1>2, <1>4, HasAppended
<1>5. Has(left[0], u) \/ u = t
  BY <1>3, <1>4 DEF Appended
<1>6. CASE u = t
  BY <1>1, <1>2, <1>6
<1>7. CASE u # t
  BY <1>2, <1>5, <1>7 DEF Published
<1> QED
  BY <1>6, <1>7

-----------------------------------------------------------------------------
LEMMA InitStreamInv == Init => StreamInv
<1> SUFFICES ASSUME Init
             PROVE  Prefixes /\ Published
  BY InitAuditInv DEF StreamInv
<1>1. N \in Nat /\ Len(<<>>) = 0
  BY LenProperties, EmptySeq DEF N
<1>2. PrefixOf(<<>>, <<>>)
  BY <1>1 DEF PrefixOf
<1>3. \A t : ~Has(<<>>, t)
  BY <1>1 DEF Has
<1> QED
  BY <1>1, <1>2, <1>3 DEF Init, Prefixes, Published

LEMMA NextStreamInv == StreamInv /\ [Next]_vars => StreamInv'
<1> SUFFICES ASSUME StreamInv, [Next]_vars
             PROVE  Prefixes' /\ Published'
  BY NextAuditInv DEF StreamInv
<1>0. AuditInv /\ Prefixes /\ Published /\ TypeOK
  BY DEF StreamInv, AuditInv
<1>1. ASSUME NEW t, NEW i, NEW k, NEW e \in BOOLEAN, Leaving(t, i), Advance(t, i, k, e)
      PROVE  Prefixes' /\ Published'
  BY <1>0, <1>1, AdvanceKeepsPrefixes, AdvancePublishes
<1>2. ASSUME NEW t \in Tasks, NEW r \in Ids, NEW e \in BOOLEAN, Record(t, r, e)
      PROVE  Prefixes' /\ Published'
  <2>1. Leaving(t, 0) /\ Advance(t, 0, kept, e)
    BY <1>2, LenProperties DEF Record, Leaving, N
  <2> QED
    BY <1>1, <2>1
<1>3. ASSUME NEW i \in Index, NEW e \in BOOLEAN, AppendToRing(i, e)
      PROVE  Prefixes' /\ Published'
  <2> DEFINE k == [kept EXCEPT ![i] = Evict(Append(kept[i], Owner(i)))]
  <2>1. Leaving(Owner(i), i) /\ Advance(Owner(i), i, k, e)
    BY <1>0, <1>3, OwnerLeaves DEF AppendToRing
  <2> HIDE DEF k
  <2> QED
    BY <1>1, <2>1
<1>4. ASSUME NEW i \in Index, NEW e \in BOOLEAN, Resume(i, e)
      PROVE  Prefixes' /\ Published'
  <2>1. Leaving(Owner(i), i) /\ Advance(Owner(i), i, kept, e)
    BY <1>0, <1>4, OwnerLeaves DEF Resume
  <2> QED
    BY <1>1, <2>1
<1>5. ASSUME UNCHANGED <<at, left>>
      PROVE  Prefixes' /\ Published'
  BY <1>0, <1>5 DEF Prefixes, Published, N
<1>6. CASE (\E i \in Index : Write(i) \/ FailWrite(i)) \/ Close \/ UNCHANGED vars
  BY <1>5, <1>6 DEF Write, FailWrite, Close, vars
<1> QED
  BY <1>2, <1>3, <1>4, <1>6 DEF Next, Stopped

(* The order of the calls governs every sink's history. *)
THEOREM StreamSafe == Spec => []StreamInv
  BY InitStreamInv, NextStreamInv, PTL DEF Spec

(* What the abstract step sees of a step: the stream, how far each sink is,  *)
(* and what each sink observed.                                             *)
LEMMA StepMaps ==
  ASSUME InOrder',
         \/ left'[0] = left[0]
         \/ \E r \in Tasks : ~Has(left[0], r) /\ left'[0] = Append(left[0], r),
         NEW movers \in SUBSET Index, NEW keepers \in SUBSET movers,
         \A j \in Index : Dealt(j)' = IF j \in movers THEN Dealt(j) + 1 ELSE Dealt(j),
         \A j \in Index : Observed(j)' = IF j \in keepers
                                          THEN Append(Observed(j), left'[0][Dealt(j)'])
                                          ELSE Observed(j)
  PROVE  Contract!Next
<1> DEFINE
      T == [j \in Index |-> Dealt(j)]
      O == [j \in Index |-> Observed(j)]
<1>0. Index = 1..N /\ N \in Nat
  BY LenProperties DEF Index, N
<1>1. T' = [j \in 1..N |-> IF j \in movers THEN T[j] + 1 ELSE T[j]]
  BY <1>0
<1>2. \A j \in 1..N : T'[j] <= IF j = 1 THEN Len(left'[0]) ELSE T'[j - 1]
  <2> SUFFICES ASSUME NEW j \in 1..N
               PROVE  T'[j] <= IF j = 1 THEN Len(left'[0]) ELSE T'[j - 1]
    OBVIOUS
  <2>1. Dealt(j)' <= IF j = 1 THEN Len(left'[0]) ELSE Dealt(j - 1)'
    <3>1. j \in Index
      BY <1>0
    <3> QED
      BY <3>1 DEF InOrder
  <2>2. T'[j] = Dealt(j)' /\ (j # 1 => T'[j - 1] = Dealt(j - 1)')
    <3>1. j \in Index /\ (j # 1 => j - 1 \in Index)
      BY <1>0
    <3> QED
      BY <3>1
  <2> QED
    BY <2>1, <2>2
<1>3. O' = [j \in 1..N |-> IF j \in keepers
                            THEN Append(O[j], left'[0][T'[j]]) ELSE O[j]]
  BY <1>0
<1>4. \/ UNCHANGED left[0]
      \/ \E r \in {r \in Tasks : \A k \in 1..Len(left[0]) : left[0][k] # r} :
            left'[0] = Append(left[0], r)
  BY DEF Has
<1>5. /\ T = [i \in Index |-> Len(left[i]) + (IF written[i] THEN 1 ELSE 0)]
      /\ T' = [i \in Index |-> Len(left[i]) + (IF written[i] THEN 1 ELSE 0)]'
  BY Zenon DEF Dealt
<1>6. /\ O = [i \in Index |-> IF Sinks[i] = "ring" THEN left[i] ELSE kept[i]]
      /\ O' = [i \in Index |-> IF Sinks[i] = "ring" THEN left[i] ELSE kept[i]]'
  BY Zenon DEF Observed
<1> HIDE DEF T, O
<1>7. Contract!Publish
  BY <1>4 DEF Contract!Publish, Contract!Unpublished
<1>8. Contract!Take(movers, keepers)
  BY <1>0, <1>1, <1>2, <1>3, <1>5, <1>6 DEF Contract!Take
<1> QED
  BY <1>0, <1>7, <1>8 DEF Contract!Next

DealtMeans ==
    \A j \in Index :
        /\ Len(left[j]) \in Nat /\ Dealt(j) \in Nat
        /\ written[j] => Dealt(j) = Len(left[j]) + 1
        /\ ~written[j] => Dealt(j) = Len(left[j])

LEMMA DealtIsCount == AuditInv => DealtMeans
  BY DealtIs DEF AuditInv, DealtMeans

(* Leaving sink i is taking from the stream for the logging sink behind it, *)
(* and for sink i too when that is the ring, whose write is this very step. *)
LEMMA AdvanceMaps ==
  ASSUME AuditInv, AuditInv', Prefixes', Published, InOrder', DealtMeans, DealtMeans',
         NEW t, NEW i, NEW k, NEW emitted \in BOOLEAN,
         Leaving(t, i), Advance(t, i, k, emitted),
         \A j \in Index : Sinks[j] # "ring" => k[j] = kept[j],
         \A j \in Index : written'[j] <=> j # i /\ written[j],
         i \in Index => Sinks[i] = "ring" \/ written[i]
  PROVE  Contract!Next
<1> DEFINE
      movers == {j \in Index : j \in Passed(i) \/ (j = i /\ Sinks[j] = "ring")}
      keepers == {j \in movers : emitted \/ Sinks[j] = "ring"}
<1>0. TypeOK /\ LinesMatchTasks /\ TypeOK'
  BY DEF AuditInv
<1>1. /\ N \in Nat /\ Index = 1..N /\ i \in 0..N /\ t \in Tasks /\ 0 \in 0..N
      /\ Passed(i) \subseteq Index /\ i \notin Passed(i)
      /\ \A j \in Passed(i) : Sinks[j] = "log" /\ line[j] = <<>>
  BY <1>0, Stops DEF Leaving, Index, IsLog, LinesMatchTasks
<1>2. \A j \in Passed(i) : ~written[j]
  BY <1>0, <1>1 DEF LinesMatchTasks
<1>3. i \in Index /\ Sinks[i] = "ring" => ~written[i]
  BY <1>0 DEF LinesMatchTasks
<1>4. ASSUME NEW j \in Index, j = i \/ j \in Passed(i)
      PROVE  /\ left'[j] = Append(left[j], t)
             /\ Len(left'[j]) = Len(left[j]) + 1
             /\ left'[0][Len(left'[j])] = t
  <2>2. left[j] \in Seq(Tasks) /\ j \in 0..N
    BY <1>0, <1>1 DEF TypeOK
  <2>1. left'[j] = Append(left[j], t)
    <3>1. j \in {i} \cup Passed(i)
      BY <1>4
    <3>2. left'[j] = IF j \in {i} \cup Passed(i) THEN Append(left[j], t) ELSE left[j]
      BY <2>2 DEF Advance
    <3> QED
      BY <3>1, <3>2
  <2>3. ASSUME NEW x, Appended(x, left[j], t)
        PROVE  Len(left[j]) \in Nat /\ Len(x) = Len(left[j]) + 1 /\ x[Len(left[j]) + 1] = t
    BY <1>1, <2>2, <2>3, AtEnd DEF Appended
  <2>4. Len(left[j]) \in Nat /\ Len(left'[j]) = Len(left[j]) + 1 /\ left'[j][Len(left[j]) + 1] = t
    BY <2>1, <2>3 DEF Appended
  <2>5. PrefixOf(left'[j], left'[0])
    BY <2>2 DEF Prefixes, N
  <2>6. Len(left'[j]) \in 1..Len(left'[j])
    BY <2>4
  <2>7. left'[0][Len(left'[j])] = left'[j][Len(left'[j])]
    BY <2>5, <2>6 DEF PrefixOf
  <2> QED
    BY <2>1, <2>4, <2>7
<1>5. ASSUME NEW j \in Index, j # i, j \notin Passed(i)
      PROVE  left'[j] = left[j]
  BY <1>0, <1>5, AdvanceAt
<1>6. ASSUME NEW j \in Index
      PROVE  Dealt(j)' = IF j \in movers THEN Dealt(j) + 1 ELSE Dealt(j)
  <2>1. /\ written'[j] => Dealt(j)' = Len(left'[j]) + 1
        /\ ~written'[j] => Dealt(j)' = Len(left'[j])
        /\ written[j] => Dealt(j) = Len(left[j]) + 1
        /\ ~written[j] => Dealt(j) = Len(left[j])
    BY DEF DealtMeans, Index, N
  <2>2. CASE j \in movers
    BY <1>1, <1>2, <1>3, <1>4, <2>1, <2>2
  <2>3. CASE j = i /\ j \notin movers
    BY <1>4, <2>1, <2>3
  <2>4. CASE j # i /\ j \notin movers
    BY <1>1, <1>5, <2>1, <2>4
  <2> QED
    BY <2>2, <2>3, <2>4
<1>7. \A j \in movers : Dealt(j)' = Len(left'[j]) /\ left'[0][Dealt(j)'] = t
  <2> TAKE j \in movers
  <2>1. ~written'[j]
    BY <1>1, <1>2, <1>3
  <2>2. Dealt(j)' = Len(left'[j])
    BY <2>1 DEF DealtMeans, Index, N
  <2> QED
    BY <1>4, <2>2
<1>8. ASSUME NEW j \in Index
      PROVE  Observed(j)' = IF j \in keepers
                              THEN Append(Observed(j), left'[0][Dealt(j)'])
                              ELSE Observed(j)
  <2>1. kept'[j] = IF j \in Passed(i) /\ emitted THEN Append(k[j], t) ELSE k[j]
    BY DEF Advance
  <2>2. CASE Sinks[j] = "ring"
    <3>1. Observed(j)' = left'[j] /\ Observed(j) = left[j] /\ j \notin Passed(i)
      BY <1>1, <2>2 DEF Observed
    <3>2. j \in keepers <=> j = i
      BY <2>2, <3>1
    <3> QED
      BY <1>4, <1>5, <1>7, <3>1, <3>2
  <2>3. CASE Sinks[j] # "ring"
    <3>1. Observed(j)' = kept'[j] /\ Observed(j) = kept[j] /\ k[j] = kept[j]
      BY <2>3 DEF Observed
    <3>2. j \in keepers <=> j \in Passed(i) /\ emitted
      BY <2>3
    <3> QED
      BY <1>7, <2>1, <3>1, <3>2
  <2> QED
    BY <2>2, <2>3
<1>9. \/ left'[0] = left[0]
      \/ \E r \in Tasks : ~Has(left[0], r) /\ left'[0] = Append(left[0], r)
  <2>1. left'[0] = IF i = 0 THEN Append(left[0], t) ELSE left[0]
    BY <1>1 DEF Advance
  <2>2. i = 0 => ~Has(left[0], t)
    BY <1>1 DEF Leaving, Published
  <2> QED
    BY <1>1, <2>1, <2>2
<1>10. movers \in SUBSET Index /\ keepers \in SUBSET movers
  OBVIOUS
<1> HIDE DEF movers, keepers
<1> QED
  BY <1>6, <1>8, <1>9, <1>10, StepMaps

(* The two outcomes of a worker thread: sink i has dealt with its next       *)
(* record, and has it or not.                                               *)
LEMMA WriteMaps ==
  ASSUME AuditInv, InOrder', Prefixes, DealtMeans, DealtMeans', NEW i \in Index,
         Write(i) \/ FailWrite(i)
  PROVE  Contract!Next
<1>0. TypeOK /\ OneStream /\ LinesMatchTasks
  BY DEF AuditInv
<1>1. /\ Sinks[i] # "ring" /\ line[i] # <<>> /\ ~written[i] /\ left' = left
      /\ \A j \in Index : written'[j] <=> j = i \/ written[j]
  BY <1>0 DEF Write, FailWrite, TypeOK
<1>2. ASSUME NEW j \in Index
      PROVE  Dealt(j)' = IF j \in {i} THEN Dealt(j) + 1 ELSE Dealt(j)
  <2>1. /\ written'[j] => Dealt(j)' = Len(left[j]) + 1
        /\ ~written'[j] => Dealt(j)' = Len(left[j])
        /\ written[j] => Dealt(j) = Len(left[j]) + 1
        /\ ~written[j] => Dealt(j) = Len(left[j])
    BY <1>1 DEF DealtMeans, Index, N
  <2> QED
    BY <1>1, <2>1
<1>3. left'[0][Dealt(i)'] = Owner(i)
  <2>1. Dealt(i)' = Len(left[i]) + 1
    BY <1>1 DEF DealtMeans, Index, N
  <2>2. left[0][Len(left[i]) + 1] = Owner(i)
    BY <1>0, <1>1, NextInLine
  <2> QED
    BY <1>1, <2>1, <2>2
<1>4. CASE Write(i)
  <2>1. \A j \in Index : kept'[j] = IF j = i THEN Append(kept[j], Owner(i)) ELSE kept[j]
    BY <1>0, <1>4 DEF Write, TypeOK
  <2>2. \A j \in Index : Observed(j)' = IF j \in {i}
                                         THEN Append(Observed(j), left'[0][Dealt(j)'])
                                         ELSE Observed(j)
    BY <1>1, <1>3, <2>1 DEF Observed
  <2> QED
    BY <1>1, <1>2, <2>2, StepMaps
<1>5. CASE FailWrite(i)
  <2> DEFINE keepers == {j \in {i} : FALSE}
  <2>1. \A j \in Index : Observed(j)' = IF j \in keepers
                                         THEN Append(Observed(j), left'[0][Dealt(j)'])
                                         ELSE Observed(j)
    BY <1>1, <1>5 DEF FailWrite, Observed
  <2>2. keepers \in SUBSET {i} /\ {i} \in SUBSET Index
    OBVIOUS
  <2>3. left'[0] = left[0]
    BY <1>1
  <2> HIDE DEF keepers
  <2> QED
    BY <1>2, <2>1, <2>2, <2>3, StepMaps
<1> QED
  BY <1>4, <1>5

LEMMA InitMaps == Init => Contract!Init
<1> SUFFICES ASSUME Init
             PROVE  Contract!Init
  OBVIOUS
<1>1. N \in Nat /\ Index = 1..N /\ Len(<<>>) = 0
  BY LenProperties, EmptySeq DEF N, Index
<1>2. left[0] = <<>>
  BY <1>1 DEF Init
<1>3. [j \in Index |-> Len(left[j]) + (IF written[j] THEN 1 ELSE 0)] = [j \in 1..N |-> 0]
  BY <1>1 DEF Init
<1>4. [j \in Index |-> IF Sinks[j] = "ring" THEN left[j] ELSE kept[j]] = [j \in 1..N |-> <<>>]
  BY <1>1 DEF Init
<1> QED
  BY <1>1, <1>2, <1>3, <1>4 DEF Contract!Init

LEMMA NextMaps ==
  StreamInv /\ StreamInv' /\ [Next]_vars => [Contract!Next]_(Contract!vars)
<1>0. (AuditInv => InOrder) /\ (AuditInv' => InOrder')
  BY TakenInOrder, PTL
<1>00. (AuditInv => DealtMeans) /\ (AuditInv' => DealtMeans')
  BY DealtIsCount, PTL
<1> SUFFICES ASSUME StreamInv, StreamInv', [Next]_vars
             PROVE  Contract!Next \/ UNCHANGED Contract!vars
  OBVIOUS
<1>1. /\ AuditInv /\ AuditInv' /\ Prefixes /\ Prefixes' /\ Published
      /\ InOrder' /\ DealtMeans /\ DealtMeans' /\ TypeOK /\ LinesMatchTasks
      /\ 0 \in 0..N /\ 0 \notin Index
  BY <1>0, <1>00, LenProperties DEF StreamInv, AuditInv, Index, N
<1>2. ASSUME NEW t \in Tasks, NEW r \in Ids, NEW e \in BOOLEAN, Record(t, r, e)
      PROVE  Contract!Next
  <2>1. Leaving(t, 0) /\ Advance(t, 0, kept, e)
    BY <1>1, <1>2 DEF Record, Leaving
  <2>2. \A j \in Index : written'[j] <=> j # 0 /\ written[j]
    BY <1>1, <1>2 DEF Record
  <2> QED
    BY <1>1, <2>1, <2>2, AdvanceMaps
<1>3. ASSUME NEW i \in Index, NEW e \in BOOLEAN, AppendToRing(i, e)
      PROVE  Contract!Next
  <2> DEFINE k == [kept EXCEPT ![i] = Evict(Append(kept[i], Owner(i)))]
  <2>1. Leaving(Owner(i), i) /\ Advance(Owner(i), i, k, e) /\ Sinks[i] = "ring"
    BY <1>1, <1>3, OwnerLeaves DEF AppendToRing
  <2>2. \A j \in Index : Sinks[j] # "ring" => k[j] = kept[j]
    BY <1>1, <2>1 DEF TypeOK
  <2>3. \A j \in Index : written'[j] <=> j # i /\ written[j]
    BY <1>1, <1>3, <2>1 DEF AppendToRing, LinesMatchTasks
  <2> HIDE DEF k
  <2> QED
    BY <1>1, <2>1, <2>2, <2>3, AdvanceMaps
<1>4. ASSUME NEW i \in Index, NEW e \in BOOLEAN, Resume(i, e)
      PROVE  Contract!Next
  <2>1. Leaving(Owner(i), i) /\ Advance(Owner(i), i, kept, e) /\ written[i]
    BY <1>1, <1>4, OwnerLeaves DEF Resume
  <2>2. \A j \in Index : written'[j] <=> j # i /\ written[j]
    BY <1>1, <1>4 DEF Resume, TypeOK
  <2> QED
    BY <1>1, <2>1, <2>2, AdvanceMaps
<1>5. ASSUME NEW i \in Index, Write(i) \/ FailWrite(i)
      PROVE  Contract!Next
  BY <1>1, <1>5, WriteMaps
<1>6. CASE Close \/ UNCHANGED vars
  <2>1. UNCHANGED <<left, written, kept>>
    BY <1>6 DEF Close, vars
  <2> QED
    BY <2>1 DEF Contract!vars, Index, N
<1> QED
  BY <1>2, <1>3, <1>4, <1>5, <1>6 DEF Next, Stopped

(* The composite implements the one stream of AuditStream, for every set of *)
(* sinks: whatever raises, each sink takes the records in the order record() *)
(* was called, never ahead of a sink declared before it.                    *)
THEOREM SinksImplementStream == Spec => ObservesOneStream
<1>1. Spec => Contract!Init /\ [][Contract!Next]_(Contract!vars)
  BY InitMaps, NextMaps, StreamSafe, PTL DEF Spec
<1> QED
  BY <1>1 DEF ObservesOneStream, Contract!Spec

=============================================================================
