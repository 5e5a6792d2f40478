----------------------------- MODULE Dashboard -----------------------------
(* The statistics the proxy serves and the page that polls them.            *)
(*                                                                          *)
(* /stats/summary and /stats/recent each read the in-memory ring in one     *)
(* step of the event loop.  The page asks both every five seconds, without  *)
(* waiting for an earlier refresh to end, renders when both have answered,  *)
(* and skips a refresh that is due while the mouse is over the table.  A    *)
(* second timer recomputes, once a second, the status dot and the title of  *)
(* the tab from the time of the last rendering.                             *)
(*                                                                          *)
(* The ring is lost when the proxy restarts.  Quotients of the sums below   *)
(* (rates, averages), colours and layout are left out, and so is a          *)
(* rendering function that throws: every field it reads without asking is   *)
(* there in every answer of the two routes.                                 *)
EXTENDS Integers, FiniteSets, SequencesExt

CONSTANTS
    Traffic,      \* what the audit appends to the ring, in order
    Capacity,     \* records the ring keeps
    Limit,        \* rows the page asks for (?limit=25)
    StaleAfter,   \* seconds, STALE_AFTER_MS
    Overlap       \* bound: refreshes in flight at once

(* build_audit_record: a record names a rejecting middleware exactly when    *)
(* its verdict is "rejected", and always a model.                           *)
Records ==
    {r \in [verdict : {"allowed", "rejected"}, by : STRING, model : STRING \ {"none"},
            cost : Nat, findings : Seq(STRING)] :
        r.by = "none" <=> r.verdict = "allowed"}

ASSUME TrafficAssumption == Traffic \in Seq(Records)
ASSUME CapacityAssumption == Capacity \in Nat \ {0}
ASSUME LimitAssumption == Limit \in Nat \ {0}
ASSUME StaleAfterAssumption == StaleAfter \in Nat
ASSUME OverlapAssumption == Overlap \in Nat

VARIABLES
    rings,        \* every content the ring has had, the last one is current
    up,           \* does the proxy answer?
    flights,      \* the refreshes in flight, in the order they began
    shown,        \* the page: nothing yet, or the last rendering
    paused, dot, title,
    age           \* seconds since lastSuccessAt

MaxRings == Len(Traffic) + 1   \* bound: contents the ring takes in turn

vars == <<rings, up, flights, shown, paused, dot, title, age>>

Ring == Last(rings)
Seen == shown # <<>>
Oldest == StaleAfter + 1

----------------------------------------------------------------------------
(* Counter over one field of every record. *)
Tally(ring, field) ==
    LET keys == {ring[i][field] : i \in DOMAIN ring} \ {"none"}
    IN  [k \in keys |-> Cardinality({i \in DOMAIN ring : ring[i][field] = k})]

Scanners(ring) ==
    LET Hits(scanner) == UNION {{<<i, j>> : j \in {n \in DOMAIN ring[i].findings :
                                                     ring[i].findings[n] = scanner}} :
                                i \in DOMAIN ring}
    IN  [scanner \in UNION {Range(ring[i].findings) : i \in DOMAIN ring} |->
            Cardinality(Hits(scanner))]

Allowed(ring) == Cardinality({i \in DOMAIN ring : ring[i].verdict = "allowed"})

Cost(ring) == FoldLeft(LAMBDA sum, r : sum + r.cost, 0, ring)

(* summarise *)
Summarise(ring) ==
    [total        |-> Len(ring),
     allowed      |-> Allowed(ring),
     rejected     |-> Len(ring) - Allowed(ring),
     cost         |-> Cost(ring),
     byMiddleware |-> Tally(ring, "by"),
     byModel      |-> Tally(ring, "model"),
     byScanner    |-> Scanners(ring)]

Truncated(s) == SubSeq(s, 1, IF Len(s) < Limit THEN Len(s) ELSE Limit)

(* A bug RendersItsOwnTime must notice: cut first, then reverse. *)
RecentOldestFirst(ring) == Reverse(Truncated(ring))

(* recent *)
Recent(ring) == Truncated(Reverse(ring))

----------------------------------------------------------------------------
Init ==
    /\ rings = << <<>> >>
    /\ up = TRUE
    /\ flights = <<>>
    /\ shown = <<>>
    /\ paused = FALSE
    /\ dot = {}
    /\ title = "live"
    /\ age = 0

(* InMemoryAuditSink.record, on a deque with a maximal length. *)
Audit ==
    /\ up
    /\ Len(rings) < MaxRings
    /\ LET s == Append(Ring, Traffic[Len(rings)])
       IN  rings' = Append(rings, IF Len(s) > Capacity THEN Tail(s) ELSE s)
    /\ UNCHANGED <<up, flights, shown, paused, dot, title, age>>

(* The proxy, or the way to it, stops answering ... *)
Lose ==
    /\ up
    /\ up' = FALSE
    /\ UNCHANGED <<rings, flights, shown, paused, dot, title, age>>

(* ... and answers again: as it was, or as a new process. *)
Return ==
    /\ ~up
    /\ up' = TRUE
    /\ \/ UNCHANGED rings
       \/ /\ Ring # <<>> /\ Len(rings) < MaxRings
          /\ rings' = Append(rings, <<>>)
    /\ UNCHANGED <<flights, shown, paused, dot, title, age>>

(* What a refresh is when it has asked both routes. *)
Begun == [since |-> Len(rings), summary |-> <<>>, recent |-> <<>>, rejected |-> FALSE]

(* The two fetches are answered each at its own moment. *)
AnswerSummary(i) ==
    /\ up /\ ~flights[i].rejected
    /\ flights[i].summary = <<>>
    /\ flights' = [flights EXCEPT ![i].summary = <<Summarise(Ring)>>]
    /\ UNCHANGED <<rings, up, shown, paused, dot, title, age>>

AnswerRecent(i) ==
    /\ up /\ ~flights[i].rejected
    /\ flights[i].recent = <<>>
    /\ flights' = [flights EXCEPT ![i].recent = <<Recent(Ring)>>]
    /\ UNCHANGED <<rings, up, shown, paused, dot, title, age>>

(* One that is not answered fails, or its answer is not a 2xx one:          *)
(* Promise.all rejects, and what the other brings is dropped.               *)
Reject(i) ==
    /\ ~up /\ ~flights[i].rejected
    /\ flights[i].summary = <<>> \/ flights[i].recent = <<>>
    /\ flights' = [flights EXCEPT ![i].rejected = TRUE, ![i].summary = <<>>, ![i].recent = <<>>]
    /\ UNCHANGED <<rings, up, shown, paused, dot, title, age>>

----------------------------------------------------------------------------
Hover ==
    /\ paused' = ~paused
    /\ UNCHANGED <<rings, up, flights, shown, dot, title, age>>

(* A bug HoverSettles must notice: the timer does not look at the mouse. *)
RefreshUnderMouse ==
    /\ Len(flights) < Overlap
    /\ flights' = Append(flights, Begun)
    /\ UNCHANGED <<rings, up, shown, paused, dot, title, age>>

(* A bug CatchesUp must notice: give up after a failure. *)
RefreshUnlessFailed ==
    /\ ~paused /\ "error" \notin dot
    /\ Len(flights) < Overlap
    /\ flights' = Append(flights, Begun)
    /\ UNCHANGED <<rings, up, shown, paused, dot, title, age>>

(* refresh is called by the timer, up to its await.  The table is looked at *)
(* here and not again before rendering.                                     *)
Refresh ==
    /\ ~paused
    /\ Len(flights) < Overlap
    /\ flights' = Append(flights, Begun)
    /\ UNCHANGED <<rings, up, shown, paused, dot, title, age>>

(* updateStatus, seeing the classes d on the dot; before the first          *)
(* rendering it returns at once.                                            *)
UpdateStatus(d, seconds, seen) ==
    LET late == "error" \notin d /\ seconds > StaleAfter
    IN  IF seen
        THEN /\ dot' = (d \ {"stale"}) \cup (IF late THEN {"stale"} ELSE {})
             /\ title' = IF "error" \in d THEN "error" ELSE IF late THEN "stale" ELSE "live"
        ELSE /\ dot' = d
             /\ UNCHANGED title

(* Both answers are in: render, and note the success. *)
Render(i) ==
    /\ ~flights[i].rejected
    /\ flights[i].summary # <<>> /\ flights[i].recent # <<>>
    /\ shown' = << [cards |-> flights[i].summary[1], rows |-> flights[i].recent[1]] >>
    /\ age' = 0
    /\ UpdateStatus(dot \ {"error"}, 0, TRUE)
    /\ flights' = RemoveAt(flights, i)
    /\ UNCHANGED <<rings, up, paused>>

(* A bug LostServerIsNoticed must notice: lastSuccessAt is set either way. *)
FailAndStamp(i) ==
    /\ flights[i].rejected
    /\ age' = 0
    /\ UpdateStatus(dot, 0, Seen)
    /\ flights' = RemoveAt(flights, i)
    /\ UNCHANGED <<rings, up, shown, paused>>

(* A bug LiveMeansFresh must notice: updateStatus on success only. *)
FailUnannounced(i) ==
    /\ flights[i].rejected
    /\ dot' = dot \cup {"error"}
    /\ flights' = RemoveAt(flights, i)
    /\ UNCHANGED <<rings, up, shown, paused, title, age>>

(* The catch of refresh comes to run, perhaps when the proxy is back. *)
Fail(i) ==
    /\ flights[i].rejected
    /\ UpdateStatus(dot \cup {"error"}, age, Seen)
    /\ flights' = RemoveAt(flights, i)
    /\ UNCHANGED <<rings, up, shown, paused, age>>

(* A second goes by and its timer calls updateStatus, paused or not. *)
Tick ==
    LET a == IF Seen /\ age < Oldest THEN age + 1 ELSE age
    IN  /\ age' = a
        /\ UpdateStatus(dot, a, Seen)
        /\ UNCHANGED <<rings, up, flights, shown, paused>>

Fetch(i) ==
    /\ i \in DOMAIN flights
    /\ \/ AnswerSummary(i) \/ AnswerRecent(i) \/ Reject(i)
       \/ Render(i) \/ Fail(i)

Next ==
    \/ Audit \/ Lose \/ Return
    \/ Hover \/ Refresh \/ Tick
    \/ \E i \in 1 .. Overlap : Fetch(i)

(* The browser runs its timers and settles every fetch, the oldest refresh  *)
(* sooner or later; the proxy, the network and the mouse owe nothing.       *)
Fairness ==
    /\ WF_vars(Refresh) /\ WF_vars(Tick)
    /\ WF_vars(Fetch(1))

Spec == Init /\ [][Next]_vars /\ Fairness

----------------------------------------------------------------------------
AtMostOne(s) == Len(s) <= 1

(* Fields have their types: the ring keeps its capacity, an answer its      *)
(* limit.                                                                   *)
TypeOK ==
    /\ \A n \in DOMAIN rings : Len(rings[n]) <= Capacity /\ Range(rings[n]) \subseteq Range(Traffic)
    /\ Len(rings) \in 1 .. MaxRings
    /\ up \in BOOLEAN /\ paused \in BOOLEAN
    /\ Len(flights) <= Overlap
    /\ \A i \in DOMAIN flights :
          LET f == flights[i]
          IN  /\ f.since \in 1 .. Len(rings)
              /\ AtMostOne(f.summary) /\ AtMostOne(f.recent) /\ f.rejected \in BOOLEAN
              /\ f.recent # <<>> => Len(f.recent[1]) <= Limit
              /\ f.summary # <<>> => f.summary[1].total <= Capacity
    /\ AtMostOne(shown)
    /\ dot \subseteq {"error", "stale"}
    /\ title \in {"live", "stale", "error"}
    /\ age \in 0 .. Oldest

(* The cards add up the ring: the rejections by middleware and the requests *)
(* by model each make their total, and no scanner found nothing.            *)
Entries(f) ==
    LET sum[keys \in SUBSET DOMAIN f] ==
            IF keys = {} THEN 0
            ELSE LET k == CHOOSE k \in keys : TRUE IN f[k] + sum[keys \ {k}]
    IN  sum[DOMAIN f]

AddUp(cards, ring) ==
    LET rejected == {i \in DOMAIN ring : ring[i].verdict = "rejected"}
        flagged == {i \in DOMAIN ring : ring[i].findings # <<>>}
    IN  /\ cards.total = Len(ring)
        /\ cards.allowed + cards.rejected = cards.total
        /\ cards.rejected = Cardinality(rejected)
        /\ Entries(cards.byMiddleware) = cards.rejected
        /\ Entries(cards.byModel) = cards.total
        /\ Entries(cards.byScanner) >= Cardinality(flagged)

(* The rows are the newest records of the ring, newest first. *)
NewestFirst(rows, ring) ==
    \A k \in 1 .. Limit :
        IF k <= Len(ring)
        THEN k \in DOMAIN rows /\ rows[k] = ring[Len(ring) + 1 - k]
        ELSE k \notin DOMAIN rows

(* What a refresh renders tells of the time it ran: the cards add up one    *)
(* content the ring had since refresh() was called, the rows are the newest *)
(* of one it had -- perhaps another one, for the routes are asked apart.    *)
RendersItsOwnTime ==
    [][shown' # shown =>
          \E i \in DOMAIN flights :
              LET during == {rings[n] : n \in flights[i].since .. Len(rings)}
              IN  /\ flights' = RemoveAt(flights, i)
                  /\ \E ring \in during : AddUp(shown'[1].cards, ring)
                  /\ \E ring \in during : NewestFirst(shown'[1].rows, ring)]_vars

(* Once something was rendered, a tab without a prefix was rendered within  *)
(* the last StaleAfter seconds and one more, and the last refresh to end    *)
(* did not fail: the prefix is all an operator sees of a tab in the         *)
(* background.  (All fields keep their types, so that the seconds counted    *)
(* and the classes of the dot are all there are.)                           *)
LiveMeansFresh ==
    /\ TypeOK
    /\ Seen =>
            /\ title = "live" => age <= StaleAfter /\ "error" \notin dot
            /\ title = "error" <=> "error" \in dot

(* A proxy that is gone for good is noticed, even by a page that hovering   *)
(* keeps from refreshing: in the end the tab never looks live again.        *)
LostServerIsNoticed ==
    <>[]~up /\ <>Seen => <>[](title # "live")

(* A table the mouse stays on comes to rest.  A refresh that was under way    *)
(* when the mouse got there may still repaint it, but every one of those     *)
(* ends, answered or failed, and no other begins: pause-on-hover, so that a  *)
(* row does not vanish under the cursor.                                     *)
HoverSettles ==
    <>[]paused => <>[](flights = <<>>)

(* If the proxy stays, and the mouse leaves the table alone, the page comes *)
(* to show the ring and goes on showing it, and no longer tells of an error *)
(* (with refreshes further apart than StaleAfter it may look stale).        *)
CatchesUp ==
    <>[](up /\ ~paused) =>
        <>[](/\ Seen
             /\ shown[1].cards = Summarise(Ring)
             /\ shown[1].rows = Recent(Ring)
             /\ title # "error")
============================================================================
