----------------------------- MODULE Tokenomics -----------------------------
(***************************************************************************)
(* TokenomicsService (core/tokenomics.py) and the price matrix it reads     *)
(* (core/pricing.py), as operators.  The service keeps no state but the     *)
(* cache of encodings; the modules that call it hold that cache.            *)
(*                                                                          *)
(* A price is in units of 1E-8 USD per token, which makes every entry of     *)
(* the matrix a whole number, and Decimal arithmetic exact here as there.   *)
(* A model is its identifier after strip().lower(): one of the matrix,      *)
(* "unlisted" for any other, "blank" for one that is empty after strip().   *)
(* A prompt is what it costs to read: its number of tokens per encoding.    *)
(***************************************************************************)
EXTENDS Integers

CONSTANTS
    AllowUnknown,   \* allow_unknown_models
    NoLimit         \* None as a bound of a ThresholdPolicy

ASSUME AllowUnknownAssumption == AllowUnknown \in BOOLEAN
ASSUME NoLimitAssumption == NoLimit \notin Int

Encodings == {"cl100k_base", "o200k_base"}
Listed == {"gpt-4o", "gpt-4o-mini", "gpt-4-turbo", "gpt-4", "gpt-3.5-turbo"}
Models == Listed \cup {"unlisted", "blank"}

FALLBACK_ENCODING == "cl100k_base"

(* A bug NeverUnderpriced must notice. *)
MedianFallback == 1000

FallbackRate == 3000

ListedRate == [m \in Listed |->
    CASE m = "gpt-4o"        -> 250
      [] m = "gpt-4o-mini"   -> 15
      [] m = "gpt-4-turbo"   -> 1000
      [] m = "gpt-4"         -> 3000
      [] m = "gpt-3.5-turbo" -> 50]

ListedEncoding == [m \in Listed |->
    IF m \in {"gpt-4o", "gpt-4o-mini"} THEN "o200k_base" ELSE "cl100k_base"]

(* resolve_pricing raises PricingError. *)
Unpriced(m) == m = "blank" \/ (m \notin Listed /\ ~AllowUnknown)

Rate(m) == IF m \in Listed THEN ListedRate[m] ELSE FallbackRate
EncodingOf(m) == IF m \in Listed THEN ListedEncoding[m] ELSE FALLBACK_ENCODING

(* What tiktoken does with an encoding when it is asked now: it "works", the *)
(* name or the downloaded table is refused with a KeyError or a ValueError  *)
(* ("refused"), or anything else is raised ("fails").  An encoding in the   *)
(* cache is not loaded again, but encode() may still raise.                 *)
Tiktoken == [Encodings -> {"works", "refused", "fails"}]
Possible(cache) == {tk \in Tiktoken : \A e \in cache : tk[e] # "refused"}

(* The encoding _safe_get_encoding returns. *)
EncodingUsed(m, tk) ==
    IF tk[EncodingOf(m)] = "refused" THEN FALLBACK_ENCODING ELSE EncodingOf(m)

(* evaluate() raises: no price, or no token count. *)
Raises(m, tk) == Unpriced(m) \/ tk[EncodingUsed(m, tk)] # "works"

(* lru_cache remembers an encoding that loaded; two never fill its 16 places. *)
Loaded(cache, m, tk) == cache \cup {e \in {EncodingUsed(m, tk)} : tk[e] = "works"}

(* The CostEstimate; counted is what it does not say: the encoding really used. *)
Estimate(m, tokens, tk) ==
    LET count == tokens[EncodingUsed(m, tk)]
    IN  [token_count |-> count,
         estimated_cost |-> Rate(m) * count,
         encoding_used |-> EncodingOf(m),
         fallback_applied |-> m \notin Listed,
         counted |-> EncodingUsed(m, tk)]

(* What ThresholdPolicy accepts: bounds are positive, and there is one. *)
ValidPolicy(max_tokens, max_cost) ==
    /\ max_tokens = NoLimit \/ max_tokens > 0
    /\ max_cost = NoLimit \/ max_cost > 0
    /\ max_tokens # NoLimit \/ max_cost # NoLimit

Exceeds(value, limit) == limit # NoLimit /\ value > limit

(* A bug RejectedForCause must notice: a prompt exactly at its bound. *)
ViolationsAtLimit(estimate, policy) ==
    {v \in {"token_limit", "cost_limit"} :
        \/ v = "token_limit" /\ policy.max_tokens # NoLimit /\ estimate.token_count >= policy.max_tokens
        \/ v = "cost_limit" /\ Exceeds(estimate.estimated_cost, policy.max_cost)}

Violations(estimate, policy) ==
    {v \in {"token_limit", "cost_limit"} :
        \/ v = "token_limit" /\ Exceeds(estimate.token_count, policy.max_tokens)
        \/ v = "cost_limit" /\ Exceeds(estimate.estimated_cost, policy.max_cost)}
=============================================================================
