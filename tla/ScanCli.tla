------------------------------ MODULE ScanCli ------------------------------
(***************************************************************************)
(* llm-guardrail-scan (cli/), one invocation: resolve the inputs, build the *)
(* chain the flags ask for, run it on one input after the other, print the  *)
(* report, and answer with the exit status that pre-commit and CI act upon. *)
(*                                                                          *)
(* An input is what the code can tell of it: what load_inputs makes of it    *)
(* ("unusable": a file that is not readable, not JSON or not an object, a    *)
(* text or a pipe that is not UTF-8 or holds a lone surrogate; "malformed":  *)
(* an object without a usable model or messages; "prompt"), its model, the  *)
(* tokens of its text, and the findings of the two scanners in it.          *)
(***************************************************************************)
EXTENDS Tokenomics, Sequences, FiniteSets

CONSTANTS
    Inputs,         \* the inputs an invocation may be given
    MaxBatch,       \* bound: the files of one invocation
    TokenBounds,    \* values of --max-tokens
    CostBounds,     \* values of --max-cost; NoLimit when it is left out
    Malformed,      \* a --max-cost that is no decimal
    None            \* no exit status yet; a decision without a price

InputKinds == [kind: {"unusable", "malformed", "prompt"},
               model: Models,
               tokens: [Encodings -> Nat],
               findings: SUBSET {"secret", "pii"}]

ASSUME InputsAssumption == Inputs \subseteq InputKinds
ASSUME BoundsAssumption ==
    /\ TokenBounds \subseteq Int
    /\ CostBounds \subseteq Int \cup {NoLimit, Malformed}
    /\ Malformed \notin Int \cup {NoLimit}
    /\ MaxBatch \in Nat
    /\ None \notin Int

VARIABLES
    args,       \* the flags
    inputs,     \* what the sources named by the flags hold
    phase,      \* "loading" | "building" | "scanning" | "ended"
    loaded,     \* inputs made into envelopes so far
    cache,      \* the encodings the process has loaded
    results,    \* the decisions of run_all so far
    report,     \* what was written to stdout: <<>>, or one document or part of it
    exit        \* exit status, None while the process runs

vars == <<args, inputs, phase, loaded, cache, results, report, exit>>

(* "files" is the batch form; "conflict" gives files and a flag that excludes *)
(* them; "terminal" gives nothing and has no pipe on stdin.                 *)
Sources == {"files", "file", "text", "conflict", "terminal"}

Args == [source: Sources, format: {"json", "text"},
         pii: BOOLEAN, backend: BOOLEAN, tokens: BOOLEAN,
         max_tokens: TokenBounds, max_cost: CostBounds]

(* counted: the encoding in which tokens were really counted. *)
Prices == [token_count: Nat, estimated_cost: Nat, encoding_used: Encodings,
           fallback_applied: BOOLEAN, counted: Encodings]

(* by: the rejecting middleware. *)
Decisions == [by: {"none", "secret_scan", "pii_scan", "tokenomics"},
              price: Prices \cup {None}]

(* --text and a pipe give a synthetic envelope, which has model and messages. *)
Init ==
    /\ args \in Args
    /\ inputs \in UNION {[1..n -> Inputs] : n \in 1..MaxBatch}
    /\ args.source # "files" => Len(inputs) = 1
    /\ args.source = "text" => inputs[1].kind # "malformed"
    /\ phase = "loading"
    /\ loaded = 0
    /\ cache = {}
    /\ results = <<>>
    /\ report = <<>>
    /\ exit = None

End(status) == phase' = "ended" /\ exit' = status

Pending == inputs[loaded + 1]
Readable == args.source \in {"files", "file", "text"}

RefuseArguments ==
    /\ phase = "loading"
    /\ ~Readable
    /\ End(2)
    /\ UNCHANGED <<args, inputs, loaded, cache, results, report>>

LoadInput ==
    /\ phase = "loading"
    /\ Readable
    /\ Pending.kind = "prompt"
    /\ loaded' = loaded + 1
    /\ phase' = IF loaded' = Len(inputs) THEN "building" ELSE "loading"
    /\ UNCHANGED <<args, inputs, cache, results, report, exit>>

RefuseInput ==
    /\ phase = "loading"
    /\ Readable
    /\ Pending.kind = "unusable"
    /\ End(2)
    /\ UNCHANGED <<args, inputs, loaded, cache, results, report>>

(* PromptExtractionError is neither of the errors main() catches: the        *)
(* interpreter prints the traceback and exits with 1.                       *)
CrashOnInput ==
    /\ phase = "loading"
    /\ Readable
    /\ Pending.kind = "malformed"
    /\ End(1)
    /\ UNCHANGED <<args, inputs, loaded, cache, results, report>>

(* What build_pipeline raises for: no backend for --pii, no decimal, no policy. *)
BadOptions ==
    \/ args.pii /\ ~args.backend
    \/ args.tokens /\ ~(/\ args.max_cost # Malformed
                        /\ ValidPolicy(args.max_tokens, args.max_cost))

Policy == [max_tokens |-> args.max_tokens, max_cost |-> args.max_cost]

BuildPipeline ==
    /\ phase = "building"
    /\ ~BadOptions
    /\ phase' = "scanning"
    /\ UNCHANGED <<args, inputs, loaded, cache, results, report, exit>>

RefuseOptions ==
    /\ phase = "building"
    /\ BadOptions
    /\ End(2)
    /\ UNCHANGED <<args, inputs, loaded, cache, results, report>>

(* PiiScanner() of a backend without its language model: nothing catches     *)
(* what loading that model raises.                                          *)
CrashOnOptions ==
    /\ phase = "building"
    /\ args.pii /\ args.backend
    /\ End(1)
    /\ UNCHANGED <<args, inputs, loaded, cache, results, report>>

(* The middlewares before tokenomics: the first that objects ends the chain. *)
RejectedBy(input) ==
    IF "secret" \in input.findings THEN "secret_scan"
    ELSE IF args.pii /\ "pii" \in input.findings THEN "pii_scan" ELSE "none"

IsPriced(input) == args.tokens /\ RejectedBy(input) = "none"

Verdict(price) == IF Violations(price, Policy) = {} THEN "none" ELSE "tokenomics"

(* A bug ZeroMeansClean must notice: the last middleware has the last word. *)
DecideLast(input, tk) ==
    LET price == Estimate(input.model, input.tokens, tk)
    IN  IF args.tokens THEN [by |-> Verdict(price), price |-> price]
        ELSE [by |-> RejectedBy(input), price |-> None]

Decide(input, tk) ==
    LET price == Estimate(input.model, input.tokens, tk)
    IN  IF IsPriced(input) THEN [by |-> Verdict(price), price |-> price]
        ELSE [by |-> RejectedBy(input), price |-> None]

Scanning == phase = "scanning" /\ Len(results) < Len(inputs)
Current == inputs[Len(results) + 1]

ScanInput ==
    /\ Scanning
    /\ \E tk \in Possible(cache) :
        /\ IsPriced(Current) => ~Raises(Current.model, tk)
        /\ results' = Append(results, Decide(Current, tk))
        /\ cache' = IF IsPriced(Current) THEN Loaded(cache, Current.model, tk) ELSE cache
    /\ UNCHANGED <<args, inputs, phase, loaded, report, exit>>

(* Nothing catches what a middleware raises either: the recogniser of the   *)
(* PII scan, a model without a price, an encoding that does not load.       *)
CrashScan ==
    /\ Scanning
    /\ \/ args.pii /\ "secret" \notin Current.findings
       \/ IsPriced(Current) /\ \E tk \in Possible(cache) : Raises(Current.model, tk)
    /\ End(1)
    /\ UNCHANGED <<args, inputs, loaded, cache, results, report>>

Rejections == {i \in DOMAIN results : results[i].by # "none"}

-----------------------------------------------------------------------------
(* What a decision looks like in the report.  The findings an annotation     *)
(* holds are those of the scanner that rejected; the figures of tokenomics   *)
(* are left out of the text form of a batch.                                *)
Batch == args.source = "files"

Entry(i) ==
    [input |-> i,
     verdict |-> IF results[i].by = "none" THEN "allowed" ELSE "rejected",
     by |-> results[i].by,
     findings |-> {results[i].by} \cap {"secret_scan", "pii_scan"},
     figures |-> IF Batch /\ args.format = "text" THEN None ELSE results[i].price]

(* A bug ReportAgrees must notice: only rejections with findings are counted. *)
SummaryOfFindings ==
    LET rejected == Cardinality({i \in Rejections : Entry(i).findings # {}})
    IN  [scanned |-> Len(results), allowed |-> Len(results) - rejected, rejected |-> rejected]

Summary ==
    LET rejected == Cardinality(Rejections)
    IN  [scanned |-> Len(results), allowed |-> Len(results) - rejected, rejected |-> rejected]

(* render_batch_json and render_batch_text, or render_json and render_text of *)
(* the only decision there is.                                              *)
Rendered ==
    IF Batch THEN [entries |-> [i \in 1..Len(results) |-> Entry(i)], summary |-> Summary]
    ELSE [entries |-> <<Entry(1)>>, summary |-> None]

Finish ==
    /\ phase = "scanning"
    /\ Len(results) = Len(inputs)
    /\ report' = <<Rendered>>
    /\ End(IF Rejections = {} THEN 0 ELSE 1)
    /\ UNCHANGED <<args, inputs, loaded, cache, results>>

(* What a reader has of a report that broke off after some of its entries;   *)
(* the summary comes last in either format.                                 *)
Torn(k) == [entries |-> SubSeq(Rendered.entries, 1, k), summary |-> None]
Documents == {Rendered} \cup {Torn(k) : k \in 0..Len(Rendered.entries)}

(* ensure_ascii is off: a terminal whose encoding lacks a character of the    *)
(* report raises in write(), before anything is written; a reader that goes  *)
(* breaks off any write, or the last flush when all was read.                *)
CrashReport ==
    /\ phase = "scanning"
    /\ Len(results) = Len(inputs)
    /\ report' \in {<<>>} \cup {<<d>> : d \in Documents}
    /\ \E status \in {1, 120} : End(status)
    /\ UNCHANGED <<args, inputs, loaded, cache, results>>

Ended == phase = "ended" /\ UNCHANGED vars

Next ==
    \/ RefuseArguments \/ LoadInput \/ RefuseInput \/ CrashOnInput
    \/ BuildPipeline \/ RefuseOptions \/ CrashOnOptions
    \/ ScanInput \/ CrashScan \/ Finish \/ CrashReport
    \/ Ended

Spec == Init /\ [][Next]_vars

-----------------------------------------------------------------------------
(* Every field has its type, a status is there exactly when the process has  *)
(* ended, and a report only then.                                           *)
TypeOK ==
    /\ args \in Args
    /\ inputs \in Seq(Inputs)
    /\ phase \in {"loading", "building", "scanning", "ended"}
    /\ loaded \in 0..Len(inputs)
    /\ cache \subseteq Encodings
    /\ results \in Seq(Decisions)
    /\ Len(results) <= Len(inputs)
    /\ exit \in {0, 1, 2, 120, None}
    /\ exit = None <=> phase # "ended"
    /\ report # <<>> => phase = "ended" /\ \E d \in Documents : report = <<d>>

(* A prompt whose tokens, counted in e, stay within both bounds. *)
Affordable(input, e) ==
    /\ args.max_tokens # NoLimit => input.tokens[e] <= args.max_tokens
    /\ args.max_cost # NoLimit => Rate(input.model) * input.tokens[e] <= args.max_cost

(* Well formed and free of what the flags forbid; the bounds hold in the     *)
(* model's own encoding or in the fallback encoding.                        *)
Clean(input) ==
    /\ input.kind = "prompt"
    /\ "secret" \notin input.findings
    /\ args.pii => "pii" \notin input.findings
    /\ args.tokens =>
        /\ ~Unpriced(input.model)
        /\ \E e \in {EncodingOf(input.model), FALLBACK_ENCODING} : Affordable(input, e)

(* Status 0 lets a commit through.  It is never answered unless every input *)
(* of the invocation was clean (main, run_all, MiddlewarePipeline.run,       *)
(* evaluate).                                                               *)
ZeroMeansClean == exit = 0 => \A i \in DOMAIN inputs : Clean(inputs[i])

(* An input is reported as rejected only for something that is in it and that *)
(* the flags forbid, whichever input of the batch was rejected before it.   *)
RejectedForCause ==
    \A i \in Rejections :
        \/ "secret" \in inputs[i].findings
        \/ args.pii /\ "pii" \in inputs[i].findings
        \/ args.tokens /\ \E e \in {EncodingOf(inputs[i].model), FALLBACK_ENCODING} :
                              ~Affordable(inputs[i], e)

(* A model that is not in the matrix is never priced below what any listed  *)
(* model would cost for as many tokens (FALLBACK_PRICING).                  *)
NeverUnderpriced ==
    \A i \in DOMAIN results :
        LET price == results[i].price
        IN  price # None /\ price.fallback_applied =>
                \A m \in Listed : ListedRate[m] * price.token_count <= price.estimated_cost

(* The report and the status never contradict each other, in either format   *)
(* and however much of the report came through: the entries are of the       *)
(* inputs, in their order; one that says allowed is of a clean input         *)
(* whatever became of the others; one that shows findings is of an input     *)
(* that has them; a rejection that can be read never comes with a 0; the     *)
(* counts, if they came through, are those of all the entries; a status of 0 *)
(* comes with the whole report and a 2 without (formatters.py, main).        *)
ReportAgrees ==
    /\ exit = 0 => report # <<>>
    /\ exit = 2 => report = <<>>
    /\ report # <<>> =>
        LET entries == report[1].entries
            rejected == {i \in 1..Len(entries) : entries[i].verdict = "rejected"}
            whole == /\ Len(entries) = Len(inputs)
                     /\ Batch => report[1].summary =
                                   [scanned |-> Len(inputs),
                                    allowed |-> Cardinality((1..Len(inputs)) \ rejected),
                                    rejected |-> Cardinality(rejected)]
        IN  /\ Len(entries) <= Len(inputs)
            /\ exit = 0 => whole /\ rejected = {}
            /\ report[1].summary # None => whole
            /\ \A i \in 1..Len(entries) :
                /\ entries[i].input = i
                /\ i \notin rejected => Clean(inputs[i])
                /\ "secret_scan" \in entries[i].findings => "secret" \in inputs[i].findings
                /\ "pii_scan" \in entries[i].findings => "pii" \in inputs[i].findings
=============================================================================
