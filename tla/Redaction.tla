----------------------------- MODULE Redaction ------------------------------
(***************************************************************************)
(* What the redact policy does to the text of one request, and what the      *)
(* ledger says of it: the adapters flatten the body into the content that is *)
(* scanned (proxy/providers.py), the findings are spans of that content      *)
(* (middlewares/pii_scan.py), the values in those spans are replaced in      *)
(* every textual field of the body (pipeline._apply_mutate, adapter.redact), *)
(* which is parsed again for the tokenomics middleware, and the record is    *)
(* built from what the middlewares annotated (audit/records.py).             *)
(*                                                                          *)
(* A text is a sequence of symbols: letters, the newline with which fields  *)
(* are joined, one symbol that stands for a whole [REDACTED:...] tag, and,   *)
(* in previews, the asterisk.  One symbol is one token.  Which spans the     *)
(* language model reports is not constrained.                               *)
(***************************************************************************)
EXTENDS Naturals, FiniteSets, Sequences, SequencesExt

CONSTANTS
    Letters,        \* what clients write, the newline apart
    NewLine,        \* the separator of the flattened content
    Tag,            \* [REDACTED:...]; a client may quote one it got back
    Asterisk,       \* what hides a symbol in a preview
    None,           \* no record yet
    MaxTokens,      \* the tokenomics policy
    Bodies,         \* the request bodies of the run
    MaxFindings     \* bound: findings in one text

ASSUME SymbolsAssumption ==
    /\ NewLine # Tag /\ NewLine # Asterisk /\ Tag # Asterisk
    /\ {NewLine, Tag, Asterisk} \cap Letters = {}

ASSUME BoundAssumption == MaxFindings \in Nat

Texts == Seq(Letters \cup {NewLine, Tag})

(* A content field: a string, a list of parts (bare strings, parts with a    *)
(* text, and others, such as images), any other JSON value, or no field.     *)
Parts == [kind: {"bare", "typed", "image"}, text: Texts]
Fields ==
    {f \in [shape: {"string", "list", "other", "absent"}, parts: Seq(Parts)] :
        f.shape = "string" => Len(f.parts) = 1 /\ f.parts[1].kind = "bare"}
Messages == [object: BOOLEAN, content: Fields]

ASSUME BodiesAssumption ==
    \A b \in Bodies : /\ b.system \in Fields
                      /\ b.messages \in Seq(Messages)
                      /\ b.messages # <<>>

VARIABLES
    provider,   \* "openai" | "anthropic", by the path of the request
    policy,     \* "block" | "redact"
    sent,       \* the body the client sent
    body,       \* the body of the envelope in flight
    content,    \* parsed.content of that envelope
    findings,   \* spans <<start, end>> of content, in the scanner's order
    previews,   \* of the findings, as pii_scan annotates them
    mutated,    \* the envelope in flight is not the one the handler built
    counted,    \* token_count, as tokenomics annotates it; <<>> if it did not
    by,         \* the rejecting middleware, or "none"
    record,     \* the AuditRecord
    stage       \* "received" | "parsed" | "scanned" | "screened" | "decided" | "recorded"
                \* | "crashed"

vars == <<provider, policy, sent, body, content, findings, previews, mutated,
          counted, by, record, stage>>

-----------------------------------------------------------------------------
(* What s holds at the positions at, in order. *)
Chosen(s, at) ==
    LET order == CHOOSE f \in [1..Cardinality(at) -> at] :
                    \A j, k \in 1..Cardinality(at) : j < k => f[j] < f[k]
    IN  [k \in 1..Cardinality(at) |-> s[order[k]]]

(* "\n".join *)
Joined(texts) ==
    LET joined[i \in 0..Len(texts)] ==
            IF i = 0 THEN <<>>
            ELSE IF i = 1 THEN texts[1]
            ELSE joined[i - 1] \o <<NewLine>> \o texts[i]
    IN  joined[Len(texts)]

NonEmpty(texts) == Chosen(texts, {i \in 1..Len(texts) : texts[i] # <<>>})
PartTexts(parts) ==
    LET textual == Chosen(parts, {i \in 1..Len(parts) : parts[i].kind # "image"})
    IN  [i \in 1..Len(textual) |-> textual[i].text]

Coerced(field) ==
    CASE field.shape = "string" -> field.parts[1].text
      [] field.shape = "list"   -> Joined(PartTexts(field.parts))
      [] OTHER                  -> <<>>

(* _iter_message_text *)
MessageTexts(messages) ==
    LET objects == Chosen(messages, {i \in 1..Len(messages) : messages[i].object})
    IN  NonEmpty([i \in 1..Len(objects) |-> Coerced(objects[i].content)])

Parsed(from, b) ==
    Joined((IF from = "anthropic" THEN NonEmpty(<<Coerced(b.system)>>) ELSE <<>>)
           \o MessageTexts(b.messages))

-----------------------------------------------------------------------------
(* A bug NoDetectedValueRemains must notice: the first occurrence only. *)
ReplacedOnce(text, old, new) ==
    LET at == {i \in 1..Len(text) : /\ i + Len(old) <= Len(text) + 1
                                    /\ SubSeq(text, i, i + Len(old) - 1) = old}
    IN  IF at = {} THEN text
        ELSE LET i == CHOOSE i \in at : \A j \in at : i <= j
             IN  SubSeq(text, 1, i - 1) \o new \o SubSeq(text, i + Len(old), Len(text))

(* str.replace: every occurrence, from the left, none overlapping another. *)
Replaced(text, old, new) ==
    LET here(i) == SubSeq(text, i, i + Len(old) - 1) = old
        from[i \in 1..Len(text) + Len(old)] ==
            IF i + Len(old) > Len(text) + 1 THEN SubSeq(text, i, Len(text))
            ELSE IF here(i) THEN new \o from[i + Len(old)]
            ELSE <<text[i]>> \o from[i + 1]
    IN  from[1]

ApplyReplacements(text, originals) ==
    LET done[i \in 0..Len(originals)] ==
            IF i = 0 THEN text ELSE Replaced(done[i - 1], originals[i], <<Tag>>)
    IN  done[Len(originals)]

RedactedParts(parts, originals) ==
    [i \in 1..Len(parts) |->
        IF parts[i].kind = "image" THEN parts[i]
        ELSE [parts[i] EXCEPT !.text = ApplyReplacements(@, originals)]]

(* A bug OnlyTextChanges must notice: the flattened text replaces the parts. *)
RedactedFlat(field, originals) ==
    IF field.shape \in {"string", "list"}
    THEN [shape |-> "string",
          parts |-> <<[kind |-> "bare", text |-> ApplyReplacements(Coerced(field), originals)]>>]
    ELSE field

RedactedField(field, originals) ==
    IF field.shape \in {"string", "list"}
    THEN [field EXCEPT !.parts = RedactedParts(@, originals)]
    ELSE field

(* {**msg, "content": ...}: a message without content gets a null content. *)
RedactedMessage(m, originals) ==
    IF ~m.object THEN m
    ELSE IF m.content.shape = "absent" THEN [m EXCEPT !.content.shape = "other"]
    ELSE [m EXCEPT !.content = RedactedField(@, originals)]

(* A bug RedactedAsScanned must notice: the system prompt is scanned only. *)
RedactedMessagesOnly(from, b, originals) ==
    [system |-> b.system,
     messages |-> [i \in 1..Len(b.messages) |-> RedactedMessage(b.messages[i], originals)]]

Redacted(from, b, originals) ==
    [system |-> IF from = "anthropic" THEN RedactedField(b.system, originals) ELSE b.system,
     messages |-> [i \in 1..Len(b.messages) |-> RedactedMessage(b.messages[i], originals)]]

(* The matched text of each finding; an empty one is passed over. *)
Originals(text, spans) ==
    NonEmpty([i \in 1..Len(spans) |-> SubSeq(text, spans[i][1] + 1, spans[i][2])])

(* A bug LedgerExplainsTheBody must notice: a value of six symbols is not short. *)
PreviewOfSix(text) ==
    IF Len(text) < 6 THEN [i \in 1..Len(text) |-> Asterisk]
    ELSE SubSeq(text, 1, 4) \o <<Asterisk, Asterisk, Asterisk>> \o SubSeq(text, Len(text) - 1, Len(text))

(* _preview and _redact: nothing of a short value, four symbols and two of a *)
(* longer one.                                                              *)
Preview(text) ==
    IF Len(text) <= 6 THEN [i \in 1..Len(text) |-> Asterisk]
    ELSE SubSeq(text, 1, 4) \o <<Asterisk, Asterisk, Asterisk>> \o SubSeq(text, Len(text) - 1, Len(text))

-----------------------------------------------------------------------------
Init ==
    /\ provider \in {"openai", "anthropic"}
    /\ policy \in {"block", "redact"}
    /\ sent \in Bodies
    /\ body = sent
    /\ content = <<>>
    /\ findings = <<>>
    /\ previews = <<>>
    /\ mutated = FALSE
    /\ counted = <<>>
    /\ by = "none"
    /\ record = None
    /\ stage = "received"

Parse ==
    /\ stage = "received"
    /\ content' = Parsed(provider, body)
    /\ stage' = "parsed"
    /\ UNCHANGED <<provider, policy, sent, body, findings, previews, mutated, counted, by, record>>

Spans(text) == IF text = <<>> THEN {} ELSE {s \in (0..Len(text)) \X (0..Len(text)) : s[1] <= s[2]}

(* Presidio is asked about a text that is not empty only; the previews are   *)
(* made of the text that was scanned.                                       *)
Scan ==
    /\ stage = "parsed"
    /\ findings' \in UNION {[1..n -> Spans(content)] : n \in 0..MaxFindings}
    /\ previews' = [i \in DOMAIN findings' |->
                        Preview(SubSeq(content, findings'[i][1] + 1, findings'[i][2]))]
    /\ stage' = "scanned"
    /\ UNCHANGED <<provider, policy, sent, body, content, mutated, counted, by, record>>

Continue ==
    /\ stage = "scanned"
    /\ findings = <<>>
    /\ stage' = "screened"
    /\ UNCHANGED <<provider, policy, sent, body, content, findings, previews, mutated,
                   counted, by, record>>

Reject ==
    /\ stage = "scanned"
    /\ findings # <<>>
    /\ policy = "block"
    /\ by' = "pii_scan"
    /\ stage' = "decided"
    /\ UNCHANGED <<provider, policy, sent, body, content, findings, previews, mutated,
                   counted, record>>

(* A bug ContentIsTheBody must notice: the envelope keeps what was parsed. *)
MutateKeepsParsed ==
    /\ stage = "scanned"
    /\ findings # <<>>
    /\ policy = "redact"
    /\ LET originals == Originals(content, findings)
       IN  body' = Redacted(provider, body, originals) /\ mutated' = (originals # <<>>)
    /\ stage' = "screened"
    /\ UNCHANGED <<provider, policy, sent, content, findings, previews, counted, by, record>>

(* _apply_mutate gives the same envelope back when there is nothing to       *)
(* replace, and a new one otherwise, whether or not its text differs.       *)
Mutate ==
    /\ stage = "scanned"
    /\ findings # <<>>
    /\ policy = "redact"
    /\ LET originals == Originals(content, findings)
       IN  /\ body' = IF originals = <<>> THEN body ELSE Redacted(provider, body, originals)
           /\ mutated' = (originals # <<>>)
    /\ content' = Parsed(provider, body')
    /\ stage' = "screened"
    /\ UNCHANGED <<provider, policy, sent, findings, previews, counted, by, record>>

(* A lone surrogate is left somewhere in the payload, in these texts or in   *)
(* another field: it cannot be encoded, and the exception ends the request,  *)
(* without a record and without a new envelope.                              *)
CrashMutate ==
    /\ stage = "scanned"
    /\ policy = "redact"
    /\ Originals(content, findings) # <<>>
    /\ stage' = "crashed"
    /\ UNCHANGED <<provider, policy, sent, body, content, findings, previews, mutated,
                   counted, by, record>>

(* The tokenomics middleware, which judges the envelope in flight. *)
Evaluate ==
    /\ stage = "screened"
    /\ counted' = <<Len(content)>>
    /\ by' = IF Len(content) > MaxTokens THEN "tokenomics" ELSE "none"
    /\ stage' = "decided"
    /\ UNCHANGED <<provider, policy, sent, body, content, findings, previews, mutated, record>>

(* A bug LedgerExplainsTheBody must notice: mutations of allowed requests only. *)
RecordOfAllowed(rejecter) ==
    [verdict |-> IF rejecter = "none" THEN "allowed" ELSE "rejected",
     rejecting_middleware |-> rejecter,
     mutations_applied |-> mutated /\ rejecter = "none",
     token_count |-> counted,
     findings |-> previews]

(* build_audit_record, with findings_from_pipeline and _tokenomics_annotation *)
RecordOf(rejecter) ==
    [verdict |-> IF rejecter = "none" THEN "allowed" ELSE "rejected",
     rejecting_middleware |-> rejecter,
     mutations_applied |-> mutated,
     token_count |-> counted,
     findings |-> previews]

Audit ==
    /\ stage = "decided"
    /\ record' = RecordOf(by)
    /\ stage' = "recorded"
    /\ UNCHANGED <<provider, policy, sent, body, content, findings, previews, mutated,
                   counted, by>>

Done == stage \in {"recorded", "crashed"} /\ UNCHANGED vars

Next ==
    \/ Parse \/ Scan \/ Continue \/ Reject \/ Mutate \/ CrashMutate
    \/ Evaluate \/ Audit \/ Done

Spec == Init /\ [][Next]_vars

-----------------------------------------------------------------------------
(* The values the findings were about: spans of the text the client sent. *)
Detected == Originals(Parsed(provider, sent), findings)

(* The textual fields of a body that the provider's adapter scans. *)
FieldTexts(field) == IF field.shape \in {"string", "list"} THEN ToSet(PartTexts(field.parts)) ELSE {}
ScannedTexts(b) ==
    (IF provider = "anthropic" THEN FieldTexts(b.system) ELSE {})
    \cup UNION {FieldTexts(m.content) : m \in {n \in ToSet(b.messages) : n.object}}

TypeOK ==
    /\ body.system \in Fields
    /\ body.messages \in Seq(Messages)
    /\ content \in Texts
    /\ \A i \in DOMAIN findings : findings[i] \in Nat \X Nat
    /\ \A i \in DOMAIN previews : previews[i] \in Seq(Letters \cup {NewLine, Tag, Asterisk})
    /\ mutated \in BOOLEAN
    /\ counted \in Seq(Nat) /\ Len(counted) <= 1
    /\ by \in {"none", "pii_scan", "tokenomics"}

Forwarded == stage \in {"decided", "recorded"} /\ by = "none"

(* README: redaction replaces every occurrence of a detected value; a missed *)
(* copy is a leak.  In whatever order overlapping and repeated values are    *)
(* replaced, none of them is left whole in any scanned field that goes out,  *)
(* and what goes out is still a body.  A value with a tag of an earlier      *)
(* conversation in it is out of this promise: a new tag may complete it.     *)
NoDetectedValueRemains ==
    /\ TypeOK
    /\ Forwarded =>
        \A t \in ScannedTexts(body) : \A i \in DOMAIN Detected :
            Tag \notin ToSet(Detected[i]) => Detected[i] \notin SubSeqs(t)

(* A value that was found inside one line disappears from everything that    *)
(* was scanned: redacting the fields and flattening them comes to the same   *)
(* as redacting the flattened content, wherever the value occurs in it.     *)
RedactedAsScanned ==
    Forwarded /\ (\A i \in DOMAIN Detected : NewLine \notin ToSet(Detected[i])) =>
        content = ApplyReplacements(Parsed(provider, sent), Detected)

Skeleton(f) ==
    [shape |-> IF f.shape = "absent" THEN "other" ELSE f.shape,
     parts |-> [i \in 1..Len(f.parts) |->
                   IF f.parts[i].kind = "image" THEN f.parts[i]
                   ELSE [f.parts[i] EXCEPT !.text = <<>>]]]

(* What redaction may change is text: shapes, parts, images, the number and  *)
(* the order of messages stay (_redact_content_field: the shape must         *)
(* round-trip unchanged), but for a content that was absent and is null now. *)
OnlyTextChanges ==
    /\ Skeleton(body.system) = Skeleton(sent.system)
    /\ provider = "openai" => body.system = sent.system
    /\ Len(body.messages) = Len(sent.messages)
    /\ \A i \in 1..Len(sent.messages) :
        /\ body.messages[i].object = sent.messages[i].object
        /\ Skeleton(body.messages[i].content) = Skeleton(sent.messages[i].content)

(* What later middlewares screen is what the forwarder will ship             *)
(* (_apply_mutate: parsed.content reflects the bytes actually shipped).      *)
ContentIsTheBody == stage # "received" => content = Parsed(provider, body)

(* A preview shows at most the first four and the last two symbols of the    *)
(* match, and never all of it.                                              *)
Hides(shown, match) ==
    LET clear == {k \in DOMAIN shown : shown[k] # Asterisk}
    IN  /\ match # <<>> => Cardinality(clear) < Len(match)
        /\ \A k \in clear :
            \/ k <= 4 /\ shown[k] = match[k]
            \/ Len(shown) - k < 2 /\ shown[k] = match[Len(match) - (Len(shown) - k)]

(* The record explains the difference between what the client sent and what  *)
(* the chain made of it, whoever rejected the request in the end: a body that *)
(* was changed is marked so and has its findings, each under a preview that   *)
(* does not give away what was found, and the tokens and costs booked are    *)
(* those of the body that is shipped (build_audit_record, ScanFinding).      *)
LedgerExplainsTheBody ==
    stage = "recorded" =>
        /\ body # sent => record.mutations_applied
        /\ record.mutations_applied => record.findings # <<>>
        /\ Len(record.findings) = Len(findings)
        /\ \A i \in DOMAIN findings :
            Hides(record.findings[i], SubSeq(Parsed(provider, sent), findings[i][1] + 1, findings[i][2]))
        /\ record.token_count =
              IF record.rejecting_middleware = "pii_scan" THEN <<>> ELSE <<Len(Parsed(provider, body))>>
=============================================================================
