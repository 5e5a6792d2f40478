----------------------------- MODULE MCScanCli ------------------------------
(* For TLC: inputs that make every branch of the code, and pairs of them its *)
(* orderings.  Three tokens are at the token bound of 3; a prompt may be     *)
(* longer in one encoding than in the other, on either side of the bound.   *)
EXTENDS ScanCli

Prompt(model, cl100k, o200k, findings) ==
    [kind |-> "prompt", model |-> model, findings |-> findings,
     tokens |-> [e \in Encodings |-> IF e = "cl100k_base" THEN cl100k ELSE o200k]]

Broken(kind) == [Prompt("gpt-4", 0, 0, {}) EXCEPT !.kind = kind]

MCInputs ==
    {Broken("unusable"), Broken("malformed"),
     Prompt("gpt-4o", 4, 3, {}),            \* within in its own encoding only
     Prompt("gpt-4o-mini", 0, 0, {}),       \* an empty prompt
     Prompt("gpt-4", 3, 4, {}),             \* at the bound
     Prompt("unlisted", 2, 2, {}),          \* priced at the fallback rate
     Prompt("blank", 1, 1, {}),
     Prompt("gpt-3.5-turbo", 5, 5, {"secret"}),
     Prompt("gpt-4-turbo", 1, 1, {"pii"})}

MCCostBounds == {6000, 750, 0, NoLimit, Malformed}
=============================================================================
