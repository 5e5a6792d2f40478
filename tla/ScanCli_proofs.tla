--------------------------- MODULE ScanCli_proofs ---------------------------
(***************************************************************************)
(* What the exit status and the report of a scan mean, for every batch,      *)
(* every set of flags and whatever tiktoken does.  The strengthening says    *)
(* which inputs have been vetted in which phase, and that each decision is  *)
(* the one Decide makes of the input in the same place.                     *)
(***************************************************************************)
EXTENDS ScanCli, FiniteSetTheorems, TLAPS

USE NoLimitAssumption, InputsAssumption, BoundsAssumption

AllPrompts == \A i \in 1..Len(inputs) : inputs[i].kind = "prompt"

Explained(i, tk) ==
    /\ IsPriced(inputs[i]) => ~Raises(inputs[i].model, tk)
    /\ results[i] = Decide(inputs[i], tk)

(* What is known of the inputs in each phase. *)
Vetted ==
    /\ phase = "loading" => /\ loaded < Len(inputs)
                            /\ \A i \in 1..loaded : inputs[i].kind = "prompt"
    /\ phase = "building" => AllPrompts
    /\ phase = "scanning" => AllPrompts /\ ~BadOptions
    /\ results # <<>> => AllPrompts /\ ~BadOptions /\ exit # 2
    /\ phase \in {"loading", "building"} => results = <<>>
    /\ ~Batch => Len(inputs) = 1
    /\ report # <<>> => /\ AllPrompts /\ ~BadOptions
                        /\ Len(results) = Len(inputs) /\ exit # 2
    /\ exit = 0 => report = <<Rendered>> /\ Rejections = {}

ScanInv ==
    /\ TypeOK
    /\ Vetted
    /\ \A i \in 1..Len(results) : \E tk \in Tiktoken : Explained(i, tk)

-----------------------------------------------------------------------------
(* The fallback rate is the highest of the matrix, for any number of tokens. *)
LEMMA FallbackIsHighest ==
  ASSUME NEW m \in Listed, NEW n \in Nat
  PROVE  ListedRate[m] \in Nat /\ ListedRate[m] * n <= FallbackRate * n
BY DEF Listed, ListedRate, FallbackRate

LEMMA EncodingsOfModels ==
  ASSUME NEW m \in Models, NEW tk \in Tiktoken
  PROVE  /\ EncodingOf(m) \in Encodings
         /\ EncodingUsed(m, tk) \in {EncodingOf(m), FALLBACK_ENCODING}
         /\ EncodingUsed(m, tk) \in Encodings
         /\ Rate(m) \in Nat
<1>1. EncodingOf(m) \in Encodings /\ FALLBACK_ENCODING \in Encodings
  BY DEF EncodingOf, ListedEncoding, FALLBACK_ENCODING, Encodings, Listed
<1>2. Rate(m) \in Nat
  <2>1. CASE m \in Listed
    BY <2>1, FallbackIsHighest DEF Rate
  <2>2. CASE m \notin Listed
    BY <2>2 DEF Rate, FallbackRate
  <2> QED
    BY <2>1, <2>2
<1> QED
  BY <1>1, <1>2 DEF EncodingUsed

(* The fields of an estimate. *)
LEMMA EstimateFields ==
  ASSUME NEW input \in InputKinds, NEW tk \in Tiktoken
  PROVE  LET price == Estimate(input.model, input.tokens, tk)
             e == EncodingUsed(input.model, tk)
         IN  /\ price \in Prices
             /\ price.token_count = input.tokens[e]
             /\ price.estimated_cost = Rate(input.model) * input.tokens[e]
             /\ price.fallback_applied <=> input.model \notin Listed
             /\ e \in Encodings /\ input.tokens[e] \in Nat /\ Rate(input.model) \in Nat
<1> DEFINE e == EncodingUsed(input.model, tk)
<1>1. input.model \in Models /\ input.tokens \in [Encodings -> Nat]
  BY DEF InputKinds
<1>2. e \in Encodings /\ EncodingOf(input.model) \in Encodings /\ Rate(input.model) \in Nat
  BY <1>1, EncodingsOfModels
<1>3. input.tokens[e] \in Nat
  BY <1>1, <1>2
<1>4. Rate(input.model) * input.tokens[e] \in Nat
  BY <1>2, <1>3
<1> HIDE DEF e
<1>5. Estimate(input.model, input.tokens, tk) =
        [token_count |-> input.tokens[e],
         estimated_cost |-> Rate(input.model) * input.tokens[e],
         encoding_used |-> EncodingOf(input.model),
         fallback_applied |-> input.model \notin Listed,
         counted |-> e]
  BY DEF Estimate, e
<1>6. PICK fallback \in BOOLEAN : fallback <=> input.model \notin Listed
  OBVIOUS
<1>7. (input.model \notin Listed) = fallback
  BY <1>6
<1>8. Estimate(input.model, input.tokens, tk) =
        [token_count |-> input.tokens[e],
         estimated_cost |-> Rate(input.model) * input.tokens[e],
         encoding_used |-> EncodingOf(input.model),
         fallback_applied |-> fallback,
         counted |-> e]
  BY <1>5, <1>7
<1>9. /\ Estimate(input.model, input.tokens, tk) \in Prices
      /\ Estimate(input.model, input.tokens, tk).token_count = input.tokens[e]
      /\ Estimate(input.model, input.tokens, tk).estimated_cost = Rate(input.model) * input.tokens[e]
      /\ Estimate(input.model, input.tokens, tk).fallback_applied = fallback
  BY <1>2, <1>3, <1>4, <1>8 DEF Prices
<1> QED
  BY <1>2, <1>3, <1>6, <1>9 DEF e

(* The verdict of the tokenomics middleware is about the encoding it used. *)
LEMMA VerdictIsAffordable ==
  ASSUME NEW input \in InputKinds, NEW tk \in Tiktoken,
         args.max_tokens \in Int \cup {NoLimit},
         args.max_cost \in Int \cup {NoLimit}
  PROVE  LET price == Estimate(input.model, input.tokens, tk)
         IN  /\ Verdict(price) \in {"none", "tokenomics"}
             /\ Verdict(price) = "none" <=> Affordable(input, EncodingUsed(input.model, tk))
<1> DEFINE price == Estimate(input.model, input.tokens, tk)
<1>1. /\ price.token_count = input.tokens[EncodingUsed(input.model, tk)]
      /\ price.estimated_cost = Rate(input.model) * input.tokens[EncodingUsed(input.model, tk)]
      /\ price.token_count \in Nat /\ price.estimated_cost \in Nat
  BY EstimateFields DEF Prices
<1> HIDE DEF price
<1>2. Violations(price, Policy) = {} <=>
        /\ ~Exceeds(price.token_count, args.max_tokens)
        /\ ~Exceeds(price.estimated_cost, args.max_cost)
  <2>1. Policy.max_tokens = args.max_tokens /\ Policy.max_cost = args.max_cost
    BY DEF Policy
  <2> QED
    BY <2>1 DEF Violations
<1>3. /\ Exceeds(price.token_count, args.max_tokens) <=>
           ~(args.max_tokens # NoLimit => price.token_count <= args.max_tokens)
      /\ Exceeds(price.estimated_cost, args.max_cost) <=>
           ~(args.max_cost # NoLimit => price.estimated_cost <= args.max_cost)
  BY <1>1 DEF Exceeds
<1>4. Verdict(price) = "none" <=> Affordable(input, EncodingUsed(input.model, tk))
  BY <1>1, <1>2, <1>3 DEF Verdict, Affordable
<1> QED
  BY <1>4 DEF Verdict, price

LEMMA DecisionFields ==
  ASSUME NEW input \in InputKinds, NEW tk \in Tiktoken
  PROVE  /\ Decide(input, tk) \in Decisions
         /\ IsPriced(input) =>
              /\ Decide(input, tk).by = Verdict(Estimate(input.model, input.tokens, tk))
              /\ Decide(input, tk).price = Estimate(input.model, input.tokens, tk)
         /\ ~IsPriced(input) =>
              Decide(input, tk).by = RejectedBy(input) /\ Decide(input, tk).price = None
<1>1. Estimate(input.model, input.tokens, tk) \in Prices
  BY EstimateFields
<1>2. /\ RejectedBy(input) \in {"none", "secret_scan", "pii_scan"}
      /\ \A price : Verdict(price) \in {"none", "tokenomics"}
  BY DEF RejectedBy, Verdict
<1> QED
  BY <1>1, <1>2 DEF Decide, Decisions

-----------------------------------------------------------------------------
LEMMA InitScanInv == Init => ScanInv
<1> SUFFICES ASSUME Init
             PROVE  ScanInv
  OBVIOUS
<1>1. PICK n \in 1..MaxBatch : inputs \in [1..n -> Inputs]
  BY DEF Init
<1>2. inputs \in Seq(Inputs) /\ Len(inputs) = n /\ n > 0
  BY <1>1
<1>3. results = <<>> /\ Len(results) = 0
  BY DEF Init
<1>4. TypeOK
  BY <1>2, <1>3 DEF Init, TypeOK
<1>5. Vetted
  BY <1>1, <1>2, <1>3 DEF Init, Vetted, Batch
<1> QED
  BY <1>3, <1>4, <1>5 DEF ScanInv

(* The actions that end the process, or go on to the next phase, and leave   *)
(* the decisions as they are.                                               *)
LEMMA SameRendered ==
  ASSUME UNCHANGED <<args, results>>
  PROVE  /\ Rendered' = Rendered /\ Documents' = Documents
         /\ Rejections' = Rejections /\ Batch' = Batch
<1>1. Rejections' = Rejections /\ Batch' = Batch
  BY DEF Rejections, Batch
<1>2. \A i : Entry(i)' = Entry(i)
  BY <1>1 DEF Entry
<1>3. Rendered' = Rendered
  BY <1>1, <1>2 DEF Rendered, Summary
<1> QED
  BY <1>1, <1>3 DEF Documents, Torn

LEMMA SameResults ==
  ASSUME ScanInv, UNCHANGED <<args, inputs, results>>, TypeOK', Vetted'
  PROVE  ScanInv'
BY DEF ScanInv, Explained, IsPriced, RejectedBy, Decide, Verdict, Policy

LEMMA NextScanInv == ScanInv /\ [Next]_vars => ScanInv'
<1> SUFFICES ASSUME ScanInv, [Next]_vars
             PROVE  ScanInv'
  OBVIOUS
<1>0. TypeOK /\ Vetted
  BY DEF ScanInv
<1>a. Len(inputs) \in Nat /\ Len(results) \in Nat
  BY <1>0 DEF TypeOK
<1>b. phase # "ended" => exit = None /\ exit \notin {0, 1, 2, 120} /\ report = <<>>
  BY <1>0 DEF TypeOK
<1> USE DEF End
<1>1. CASE RefuseArguments
  <2>1. TypeOK' /\ UNCHANGED <<args, inputs, results>>
    BY <1>0, <1>1, <1>b DEF RefuseArguments, TypeOK
  <2>2. Vetted'
    BY <1>0, <1>1, <1>b DEF RefuseArguments, Vetted, Batch
  <2> QED
    BY <2>1, <2>2, SameResults
<1>2. CASE LoadInput
  <2>1. loaded < Len(inputs) /\ loaded \in Nat /\ results = <<>>
    BY <1>0, <1>2, <1>b DEF LoadInput, Vetted, Batch, TypeOK
  <2>2. TypeOK' /\ UNCHANGED <<args, inputs, results>>
    BY <1>0, <1>2, <1>a, <2>1 DEF LoadInput, TypeOK
  <2>3. \A i \in 1..loaded' : inputs[i].kind = "prompt"
    BY <1>0, <1>2, <2>1 DEF LoadInput, Vetted, Batch, Pending
  <2>4. Vetted'
    BY <1>0, <1>2, <1>a, <1>b, <2>1, <2>3 DEF LoadInput, Vetted, Batch, AllPrompts
  <2> QED
    BY <2>2, <2>4, SameResults
<1>3. CASE RefuseInput
  <2>1. TypeOK' /\ UNCHANGED <<args, inputs, results>>
    BY <1>0, <1>3, <1>b DEF RefuseInput, TypeOK
  <2>2. Vetted'
    BY <1>0, <1>3, <1>b DEF RefuseInput, Vetted, Batch
  <2> QED
    BY <2>1, <2>2, SameResults
<1>4. CASE CrashOnInput
  <2>1. TypeOK' /\ UNCHANGED <<args, inputs, results>>
    BY <1>0, <1>4, <1>b DEF CrashOnInput, TypeOK
  <2>2. Vetted'
    BY <1>0, <1>4, <1>b DEF CrashOnInput, Vetted, Batch
  <2> QED
    BY <2>1, <2>2, SameResults
<1>5. CASE BuildPipeline
  <2>1. TypeOK' /\ UNCHANGED <<args, inputs, results>>
    BY <1>0, <1>5, <1>b DEF BuildPipeline, TypeOK
  <2>2. Vetted'
    BY <1>0, <1>5, <1>b DEF BuildPipeline, Vetted, Batch, AllPrompts, BadOptions
  <2> QED
    BY <2>1, <2>2, SameResults
<1>6. CASE RefuseOptions
  <2>1. TypeOK' /\ UNCHANGED <<args, inputs, results>>
    BY <1>0, <1>6, <1>b DEF RefuseOptions, TypeOK
  <2>2. Vetted'
    BY <1>0, <1>6, <1>b DEF RefuseOptions, Vetted, Batch
  <2> QED
    BY <2>1, <2>2, SameResults
<1>7. CASE CrashOnOptions
  <2>1. TypeOK' /\ UNCHANGED <<args, inputs, results>>
    BY <1>0, <1>7, <1>b DEF CrashOnOptions, TypeOK
  <2>2. Vetted'
    BY <1>0, <1>7, <1>b DEF CrashOnOptions, Vetted, Batch
  <2> QED
    BY <2>1, <2>2, SameResults
<1>8. CASE ScanInput
  <2>1. PICK tk \in Possible(cache) :
          /\ IsPriced(Current) => ~Raises(Current.model, tk)
          /\ results' = Append(results, Decide(Current, tk))
          /\ cache' = IF IsPriced(Current) THEN Loaded(cache, Current.model, tk) ELSE cache
    BY <1>8 DEF ScanInput
  <2>2. /\ UNCHANGED <<args, inputs, phase, loaded, report, exit>>
        /\ phase = "scanning" /\ Len(results) < Len(inputs)
    BY <1>8 DEF ScanInput, Scanning
  <2>3. tk \in Tiktoken
    BY <2>1 DEF Possible
  <2>4. Current \in InputKinds /\ Current = inputs[Len(results) + 1]
    BY <1>0, <1>a, <2>2 DEF Current, TypeOK
  <2>5. Decide(Current, tk) \in Decisions
    BY <2>3, <2>4, DecisionFields
  <2>6. cache' \subseteq Encodings
    <3>1. Current.model \in Models
      BY <2>4 DEF InputKinds
    <3>2. EncodingUsed(Current.model, tk) \in Encodings
      BY <2>3, <3>1, EncodingsOfModels
    <3> QED
      BY <1>0, <2>1, <3>2 DEF Loaded, TypeOK
  <2>7. /\ results' \in Seq(Decisions)
        /\ Len(results') = Len(results) + 1
        /\ \A i \in 1..Len(results) : results'[i] = results[i]
        /\ results'[Len(results) + 1] = Decide(Current, tk)
    <3>1. results \in Seq(Decisions)
      BY <1>0 DEF TypeOK
    <3> QED
      BY ONLY <2>1, <2>5, <3>1
  <2>8. TypeOK'
    BY <1>0, <1>a, <2>2, <2>6, <2>7 DEF TypeOK
  <2>9. Vetted'
    BY <1>0, <1>b, <2>2, <2>7 DEF Vetted, Batch, AllPrompts, BadOptions
  <2>10. ASSUME NEW i \in 1..Len(results')
         PROVE  \E tj \in Tiktoken : Explained(i, tj)'
    <3>1. CASE i \in 1..Len(results)
      <4>1. PICK tj \in Tiktoken : Explained(i, tj)
        BY <3>1 DEF ScanInv
      <4>2. Explained(i, tj)'
        BY <2>2, <2>7, <3>1, <4>1 DEF Explained, IsPriced, RejectedBy, Decide, Verdict, Policy
      <4> QED
        BY <4>2
    <3>2. CASE i = Len(results) + 1
      <4>1. Explained(i, tk)'
        BY <2>1, <2>2, <2>4, <2>7, <3>2 DEF Explained, IsPriced, RejectedBy, Decide, Verdict, Policy
      <4> QED
        BY <2>3, <4>1
    <3> QED
      BY <1>a, <2>7, <2>10, <3>1, <3>2
  <2> QED
    BY <2>8, <2>9, <2>10 DEF ScanInv
<1>9. CASE CrashScan
  <2>1. TypeOK' /\ UNCHANGED <<args, inputs, results>>
    BY <1>0, <1>9, <1>b DEF CrashScan, Scanning, TypeOK
  <2>2. Vetted'
    BY <1>0, <1>9, <1>b DEF CrashScan, Scanning, Vetted, Batch, AllPrompts, BadOptions
  <2> QED
    BY <2>1, <2>2, SameResults
<1>10. CASE Finish
  <2>1. exit' \in {0, 1} /\ phase' = "ended" /\ phase = "scanning"
    BY <1>10 DEF Finish
  <2>2. UNCHANGED <<args, inputs, loaded, cache, results>> /\ report' = <<Rendered>>
    BY <1>10 DEF Finish
  <2>3. /\ Rendered' = Rendered /\ Documents' = Documents
        /\ Rejections' = Rejections /\ Batch' = Batch
    BY <2>2, SameRendered
  <2>4. TypeOK'
    <3>1. Rendered \in Documents
      BY DEF Documents
    <3> QED
      BY <1>0, <2>1, <2>2, <2>3, <3>1 DEF TypeOK
  <2>5. Len(results) = Len(inputs) /\ exit' = IF Rejections = {} THEN 0 ELSE 1
    BY <1>10 DEF Finish
  <2>6. report' # <<>>
    BY <2>2
  <2>7. Vetted'
    BY <1>0, <2>1, <2>2, <2>3, <2>5, <2>6 DEF Vetted, AllPrompts, BadOptions
  <2> QED
    BY <2>2, <2>4, <2>7, SameResults
<1>11. CASE CrashReport
  <2>1. /\ UNCHANGED <<args, inputs, loaded, cache, results>>
        /\ exit' \in {1, 120} /\ phase' = "ended" /\ phase = "scanning"
        /\ Len(results) = Len(inputs)
        /\ report' = <<>> \/ \E d \in Documents : report' = <<d>>
    BY <1>11 DEF CrashReport
  <2>2. /\ Rendered' = Rendered /\ Documents' = Documents
        /\ Rejections' = Rejections /\ Batch' = Batch
    BY <2>1, SameRendered
  <2>3. TypeOK'
    BY <1>0, <1>b, <2>1, <2>2 DEF TypeOK
  <2>4. Vetted'
    BY <1>0, <1>b, <2>1, <2>2 DEF Vetted, AllPrompts, BadOptions
  <2> QED
    BY <2>1, <2>3, <2>4, SameResults
<1>12. CASE Ended \/ UNCHANGED vars
  <2>1. UNCHANGED vars
    BY <1>12 DEF Ended
  <2>2. /\ Rendered' = Rendered /\ Documents' = Documents
        /\ Rejections' = Rejections /\ Batch' = Batch
    BY <2>1, SameRendered DEF vars
  <2>3. TypeOK' /\ UNCHANGED <<args, inputs, results>>
    BY <1>0, <2>1, <2>2 DEF vars, TypeOK
  <2>4. Vetted'
    BY <1>0, <2>1, <2>2 DEF vars, Vetted, AllPrompts, BadOptions
  <2> QED
    BY <2>3, <2>4, SameResults
<1> QED
  BY <1>1, <1>2, <1>3, <1>4, <1>5, <1>6, <1>7, <1>8, <1>9, <1>10, <1>11, <1>12 DEF Next

-----------------------------------------------------------------------------
(* ScanInv holds in every state of every scan. *)
THEOREM ScanSafe == Spec => []ScanInv
BY InitScanInv, NextScanInv, PTL DEF Spec

(* Every field keeps its type, and only an ended scan has a status. *)
THEOREM TypeCorrect == Spec => []TypeOK
<1>1. ScanInv => TypeOK
  BY DEF ScanInv
<1> QED
  BY <1>1, ScanSafe, PTL

(* One bad input or one bad option, and no input of the batch is scanned or   *)
(* reported: load_inputs and build_pipeline come first.                      *)
InputErrorsScanNothing ==
    exit = 2 \/ (\E i \in DOMAIN inputs : inputs[i].kind # "prompt") => results = <<>>

THEOREM InputErrorsAlwaysScanNothing == Spec => []InputErrorsScanNothing
<1>1. ScanInv => InputErrorsScanNothing
  <2> SUFFICES ASSUME ScanInv, results # <<>>
               PROVE  exit # 2 /\ \A i \in DOMAIN inputs : inputs[i].kind = "prompt"
    BY DEF InputErrorsScanNothing
  <2>1. inputs \in Seq(Inputs)
    BY DEF ScanInv, TypeOK
  <2> QED
    BY <2>1 DEF ScanInv, Vetted, AllPrompts
<1> QED
  BY <1>1, ScanSafe, PTL

(* The bounds a scan that was built compares with are bounds or absent. *)
LEMMA GoodBounds ==
  ASSUME TypeOK, ~BadOptions, args.tokens
  PROVE  args.max_tokens \in Int \cup {NoLimit} /\ args.max_cost \in Int \cup {NoLimit}
BY DEF TypeOK, Args, BadOptions

(* An input whose decision is no rejection is clean, whichever encodings     *)
(* tiktoken refused on the way.                                             *)
LEMMA AllowedIsClean ==
  ASSUME ScanInv, AllPrompts, ~BadOptions, Len(results) = Len(inputs),
         NEW i \in 1..Len(inputs), results[i].by = "none"
  PROVE  Clean(inputs[i])
<1>1. TypeOK
  BY DEF ScanInv
<1>2. inputs[i] \in InputKinds /\ inputs[i].kind = "prompt"
  BY <1>1 DEF TypeOK, AllPrompts
<1>3. PICK tk \in Tiktoken : Explained(i, tk)
  BY DEF ScanInv
<1>4. Decide(inputs[i], tk).by = "none"
  BY <1>3 DEF Explained
<1>5. RejectedBy(inputs[i]) = "none"
  BY <1>2, <1>4, DecisionFields DEF IsPriced
<1>6. ASSUME args.tokens
      PROVE  /\ ~Unpriced(inputs[i].model)
             /\ Affordable(inputs[i], EncodingUsed(inputs[i].model, tk))
             /\ inputs[i].model \in Models
  <2>1. IsPriced(inputs[i])
    BY <1>5, <1>6 DEF IsPriced
  <2>2. ~Unpriced(inputs[i].model)
    BY <1>3, <2>1 DEF Explained, Raises
  <2>3. Verdict(Estimate(inputs[i].model, inputs[i].tokens, tk)) = "none"
    BY <1>2, <1>4, <2>1, DecisionFields
  <2> QED
    BY <1>1, <1>2, <1>6, <2>2, <2>3, GoodBounds, VerdictIsAffordable DEF InputKinds
<1>7. "secret" \notin inputs[i].findings /\ (args.pii => "pii" \notin inputs[i].findings)
  BY <1>5 DEF RejectedBy
<1> QED
  BY <1>2, <1>6, <1>7, EncodingsOfModels DEF Clean

(* Status 0 means that every input was found free of what the flags forbid. *)
THEOREM ZeroAlwaysMeansClean == Spec => []ZeroMeansClean
<1>1. ScanInv => ZeroMeansClean
  <2> SUFFICES ASSUME ScanInv, exit = 0, NEW i \in DOMAIN inputs
               PROVE  Clean(inputs[i])
    BY DEF ZeroMeansClean
  <2>1. /\ TypeOK /\ AllPrompts /\ ~BadOptions
        /\ Len(results) = Len(inputs) /\ Rejections = {}
    <3>1. report # <<>>
      BY DEF ScanInv, Vetted
    <3> QED
      BY <3>1 DEF ScanInv, Vetted
  <2>2. i \in 1..Len(inputs) /\ i \in DOMAIN results
    BY <2>1 DEF TypeOK
  <2>3. results[i].by = "none"
    BY <2>1, <2>2 DEF Rejections
  <2> QED
    BY <2>1, <2>2, <2>3, AllowedIsClean
<1> QED
  BY <1>1, ScanSafe, PTL

(* The counts of a summary are those of its entries. *)
LEMMA SummaryCounts ==
  ASSUME TypeOK
  PROVE  Summary = [scanned |-> Len(results),
                    allowed |-> Cardinality((1..Len(results)) \ Rejections),
                    rejected |-> Cardinality(Rejections)]
<1>1. Rejections \subseteq 1..Len(results) /\ Len(results) \in Nat
  BY DEF TypeOK, Rejections
<1>2. IsFiniteSet(1..Len(results)) /\ Cardinality(1..Len(results)) = Len(results)
  BY <1>1, FS_Interval
<1>3. /\ Cardinality((1..Len(results)) \ Rejections)
           = Len(results) - Cardinality((1..Len(results)) \cap Rejections)
  BY <1>2, FS_Difference
<1>4. (1..Len(results)) \cap Rejections = Rejections
  BY <1>1
<1> QED
  BY <1>3, <1>4 DEF Summary

LEMMA EntryFields ==
  ASSUME NEW i
  PROVE  /\ Entry(i).input = i
         /\ Entry(i).verdict = IF results[i].by = "none" THEN "allowed" ELSE "rejected"
         /\ Entry(i).findings = {results[i].by} \cap {"secret_scan", "pii_scan"}
<1> DEFINE figures == IF Batch /\ args.format = "text" THEN None ELSE results[i].price
<1>1. Entry(i) = [input |-> i,
                  verdict |-> IF results[i].by = "none" THEN "allowed" ELSE "rejected",
                  by |-> results[i].by,
                  findings |-> {results[i].by} \cap {"secret_scan", "pii_scan"},
                  figures |-> figures]
  BY ONLY DEF Entry
<1> HIDE DEF figures
<1> QED
  BY ONLY <1>1

(* The entries of a report, batch or not, whole or torn off. *)
LEMMA RenderedEntries ==
  ASSUME ScanInv, report # <<>>
  PROVE  \E k \in 0..Len(inputs) :
           /\ report[1].entries = [i \in 1..k |-> Entry(i)]
           /\ Len(report[1].entries) = k
           /\ \/ report[1] = Rendered /\ k = Len(inputs)
              \/ report[1].summary = None /\ exit # 0
           /\ Rendered.summary = IF Batch THEN Summary ELSE None
<1>1. /\ Len(results) = Len(inputs) /\ Len(inputs) \in Nat
      /\ ~Batch => Len(inputs) = 1
      /\ exit = 0 => report = <<Rendered>>
  BY DEF ScanInv, TypeOK, Vetted
<1> DEFINE n == Len(inputs)
<1>2. /\ Rendered.entries = [i \in 1..n |-> Entry(i)] /\ Len(Rendered.entries) = n
      /\ Rendered.summary = IF Batch THEN Summary ELSE None
  <2>1. CASE Batch
    BY <1>1, <2>1 DEF Rendered
  <2>2. CASE ~Batch
    <3>1. Rendered.entries = <<Entry(1)>> /\ Rendered.summary = None
      BY <2>2 DEF Rendered
    <3>2. <<Entry(1)>> = [i \in 1..1 |-> Entry(i)] /\ Len(<<Entry(1)>>) = 1
      OBVIOUS
    <3> QED
      BY <1>1, <2>2, <3>1, <3>2
  <2> QED
    BY <2>1, <2>2
<1>3. PICK d \in Documents : report = <<d>>
  BY DEF ScanInv, TypeOK
<1>4. report[1] = d
  BY <1>3
<1>5. CASE d = Rendered
  <2>1. n \in 0..n
    BY <1>1
  <2> QED
    BY <1>2, <1>4, <1>5, <2>1
<1>6. CASE d # Rendered
  <2>1. PICK k \in 0..n : d = Torn(k)
    BY <1>2, <1>6 DEF Documents
  <2>2. d.entries = SubSeq(Rendered.entries, 1, k) /\ d.summary = None
    BY <2>1 DEF Torn
  <2>3. SubSeq(Rendered.entries, 1, k) = [i \in 1..k |-> Entry(i)]
    <3>1. SubSeq(Rendered.entries, 1, k) = [i \in 1..k |-> Rendered.entries[i]]
      BY <1>1, <2>1
    <3>2. \A i \in 1..k : Rendered.entries[i] = Entry(i)
      BY <1>1, <1>2, <2>1
    <3> QED
      BY <3>1, <3>2
  <2>4. Len(d.entries) = k
    BY <2>1, <2>2, <2>3
  <2>5. exit # 0
    BY <1>1, <1>3, <1>4, <1>6
  <2> QED
    BY <1>2, <1>4, <2>1, <2>2, <2>3, <2>4, <2>5
<1> QED
  BY <1>5, <1>6

(* For batches of any size, either format and any fault on the way, what can  *)
(* be read of the report, its counts and the status agree.                  *)
THEOREM ReportAlwaysAgrees == Spec => []ReportAgrees
<1>1. ScanInv => ReportAgrees
  <2> SUFFICES ASSUME ScanInv PROVE ReportAgrees
    OBVIOUS
  <2>1. TypeOK /\ Vetted
    BY DEF ScanInv
  <2>2. (exit = 0 => report # <<>>) /\ (exit = 2 => report = <<>>)
    BY <2>1 DEF Vetted
  <2>3. ASSUME report # <<>>
        PROVE  LET entries == report[1].entries
                   rejected == {i \in 1..Len(entries) : entries[i].verdict = "rejected"}
                   whole == /\ Len(entries) = Len(inputs)
                            /\ Batch => report[1].summary =
                                 [scanned |-> Len(inputs),
                                  allowed |-> Cardinality((1..Len(inputs)) \ rejected),
                                  rejected |-> Cardinality(rejected)]
               IN  /\ Len(entries) <= Len(inputs)
                   /\ exit = 0 => whole /\ rejected = {}
                   /\ report[1].summary # None => whole
                   /\ \A i \in 1..Len(entries) :
                       /\ entries[i].input = i
                       /\ i \notin rejected => Clean(inputs[i])
                       /\ "secret_scan" \in entries[i].findings => "secret" \in inputs[i].findings
                       /\ "pii_scan" \in entries[i].findings => "pii" \in inputs[i].findings
    <3> DEFINE entries == report[1].entries
               rejected == {i \in 1..Len(entries) : entries[i].verdict = "rejected"}
               whole == /\ Len(entries) = Len(inputs)
                        /\ Batch => report[1].summary =
                             [scanned |-> Len(inputs),
                              allowed |-> Cardinality((1..Len(inputs)) \ rejected),
                              rejected |-> Cardinality(rejected)]
    <3>1. /\ AllPrompts /\ ~BadOptions /\ Len(results) = Len(inputs)
          /\ exit = 0 => Rejections = {}
          /\ DOMAIN results = 1..Len(inputs) /\ Len(inputs) \in Nat
      BY <2>1, <2>3 DEF Vetted, TypeOK
    <3>2. PICK k \in 0..Len(inputs) :
            /\ entries = [i \in 1..k |-> Entry(i)] /\ Len(entries) = k
            /\ \/ report[1] = Rendered /\ k = Len(inputs)
               \/ report[1].summary = None /\ exit # 0
            /\ Rendered.summary = IF Batch THEN Summary ELSE None
      BY <2>3, RenderedEntries
    <3>a. k \in Nat /\ k <= Len(inputs) /\ 1..k \subseteq 1..Len(inputs)
      BY <3>1
    <3>3. \A i \in 1..k : entries[i] = Entry(i)
      BY <3>2
    <3> HIDE DEF entries
    <3>4. \A i \in 1..k : entries[i].verdict = "rejected" <=> results[i].by # "none"
      BY <3>3, EntryFields
    <3>5. k = Len(inputs) => rejected = Rejections
      BY <3>1, <3>2, <3>4 DEF Rejections
    <3>6. ASSUME NEW i \in 1..Len(entries)
          PROVE  /\ entries[i].input = i
                 /\ i \notin rejected => Clean(inputs[i])
                 /\ "secret_scan" \in entries[i].findings => "secret" \in inputs[i].findings
                 /\ "pii_scan" \in entries[i].findings => "pii" \in inputs[i].findings
      <4>1. /\ entries[i].input = i
            /\ entries[i].findings = {results[i].by} \cap {"secret_scan", "pii_scan"}
            /\ i \in 1..Len(inputs) /\ i \in 1..k
        <5>1. i \in 1..k /\ i \in 1..Len(inputs)
          BY <3>2, <3>a
        <5> QED
          BY <3>3, <5>1, EntryFields
      <4>2. i \notin rejected => Clean(inputs[i])
        BY <3>1, <3>4, <4>1, AllowedIsClean
      <4>3. PICK tk \in Tiktoken : Explained(i, tk)
        BY <3>1, <4>1 DEF ScanInv
      <4>4. inputs[i] \in InputKinds
        BY <2>1, <4>1 DEF TypeOK
      <4>5. results[i].by \in {"secret_scan", "pii_scan"} => results[i].by = RejectedBy(inputs[i])
        <5>1. IsPriced(inputs[i]) => results[i].by \in {"none", "tokenomics"}
          BY <4>3, <4>4, DecisionFields DEF Explained, Verdict
        <5> QED
          BY <4>3, <4>4, <5>1, DecisionFields DEF Explained
      <4>6. /\ RejectedBy(inputs[i]) = "secret_scan" => "secret" \in inputs[i].findings
            /\ RejectedBy(inputs[i]) = "pii_scan" => "pii" \in inputs[i].findings
        BY DEF RejectedBy
      <4> QED
        BY <4>1, <4>2, <4>5, <4>6
    <3> HIDE DEF rejected
    <3>7. report[1] = Rendered /\ k = Len(inputs) => whole
      <4> SUFFICES ASSUME report[1] = Rendered, k = Len(inputs)
                   PROVE  whole
        OBVIOUS
      <4>1. Batch => report[1].summary = Summary
        BY <3>2
      <4>2. rejected = Rejections
        BY <3>5
      <4> QED
        BY <2>1, <3>1, <3>2, <4>1, <4>2, SummaryCounts
    <3> HIDE DEF whole
    <3>8. exit = 0 => whole /\ rejected = {}
      BY <3>1, <3>2, <3>5, <3>7
    <3>9. Len(entries) <= Len(inputs) /\ (report[1].summary # None => whole)
      BY <3>2, <3>a, <3>7
    <3> QED
      BY <3>6, <3>8, <3>9 DEF rejected, entries, whole
  <2> QED
    BY <2>2, <2>3 DEF ReportAgrees
<1> QED
  BY <1>1, ScanSafe, PTL

(* Whatever is reported as rejected is rejected for something in it. *)
THEOREM AlwaysRejectedForCause == Spec => []RejectedForCause
<1>1. ScanInv => RejectedForCause
  <2> SUFFICES ASSUME ScanInv, NEW i \in Rejections
               PROVE  \/ "secret" \in inputs[i].findings
                      \/ args.pii /\ "pii" \in inputs[i].findings
                      \/ args.tokens /\ \E e \in {EncodingOf(inputs[i].model), FALLBACK_ENCODING} :
                              ~Affordable(inputs[i], e)
    BY DEF RejectedForCause
  <2>1. TypeOK
    BY DEF ScanInv
  <2>2. /\ i \in 1..Len(results) /\ Len(results) \in Nat /\ results # <<>>
        /\ i \in 1..Len(inputs) /\ results[i].by # "none"
    BY <2>1 DEF Rejections, TypeOK
  <2>3. inputs[i] \in InputKinds /\ ~BadOptions
    BY <2>1, <2>2 DEF TypeOK, ScanInv, Vetted
  <2>4. PICK tk \in Tiktoken : Explained(i, tk)
    BY <2>2 DEF ScanInv
  <2>5. Decide(inputs[i], tk).by # "none"
    BY <2>2, <2>4 DEF Explained
  <2>6. CASE IsPriced(inputs[i])
    <3>1. Verdict(Estimate(inputs[i].model, inputs[i].tokens, tk)) # "none"
      BY <2>3, <2>5, <2>6, DecisionFields
    <3>2. args.tokens /\ inputs[i].model \in Models
      BY <2>3, <2>6 DEF IsPriced, InputKinds
    <3>3. ~Affordable(inputs[i], EncodingUsed(inputs[i].model, tk))
      BY <2>1, <2>3, <3>1, <3>2, GoodBounds, VerdictIsAffordable
    <3> QED
      BY <3>2, <3>3, EncodingsOfModels
  <2>7. CASE ~IsPriced(inputs[i])
    <3>1. RejectedBy(inputs[i]) # "none"
      BY <2>3, <2>5, <2>7, DecisionFields
    <3> QED
      BY <3>1 DEF RejectedBy
  <2> QED
    BY <2>6, <2>7
<1> QED
  BY <1>1, ScanSafe, PTL

(* The fallback price bounds every listed price, for any number of tokens. *)
THEOREM AlwaysPricedHighEnough == Spec => []NeverUnderpriced
<1>1. ScanInv => NeverUnderpriced
  <2> SUFFICES ASSUME ScanInv, NEW i \in DOMAIN results,
                      results[i].price # None, results[i].price.fallback_applied,
                      NEW m \in Listed
               PROVE  ListedRate[m] * results[i].price.token_count <= results[i].price.estimated_cost
    BY DEF NeverUnderpriced
  <2>1. TypeOK
    BY DEF ScanInv
  <2>2. i \in 1..Len(results) /\ inputs[i] \in InputKinds
    BY <2>1 DEF TypeOK
  <2>3. PICK tk \in Tiktoken : Explained(i, tk)
    BY <2>2 DEF ScanInv
  <2>4. results[i].price = Estimate(inputs[i].model, inputs[i].tokens, tk)
    BY <2>2, <2>3, DecisionFields DEF Explained
  <2>5. /\ inputs[i].model \notin Listed
        /\ results[i].price.token_count \in Nat
        /\ results[i].price.estimated_cost = Rate(inputs[i].model) * results[i].price.token_count
    BY <2>2, <2>4, EstimateFields
  <2> QED
    BY <2>5, FallbackIsHighest DEF Rate
<1> QED
  BY <1>1, ScanSafe, PTL
=============================================================================
