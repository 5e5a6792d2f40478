\* One or two messages and a system prompt over two letters, up to two findings
\* anywhere in the flattened content, so that they overlap, repeat and straddle.
CONSTANTS
    Letters = {x, y}
    NewLine = NewLine
    Tag = Tag
    Asterisk = Asterisk
    None = None
    MaxTokens = 6
    Bodies <- MCBodies
    MaxFindings = 2
SPECIFICATION Spec
INVARIANTS
    NoDetectedValueRemains
    RedactedAsScanned
    OnlyTextChanges
    ContentIsTheBody
    LedgerExplainsTheBody
