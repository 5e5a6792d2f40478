---------------------------- MODULE MCRedaction -----------------------------
(* For TLC: bodies in which a value may occur in one field, in several, twice *)
(* in one, and across the boundary of two; strings, lists and images.        *)
EXTENDS Redaction

Bare(t) == [kind |-> "bare", text |-> t]
String(t) == [shape |-> "string", parts |-> <<Bare(t)>>]
List(parts) == [shape |-> "list", parts |-> parts]
Message(f) == [object |-> TRUE, content |-> f]

a == CHOOSE x \in Letters : TRUE
b == CHOOSE x \in Letters : x # a

Contents ==
    {String(t) : t \in {<<>>, <<a>>, <<a, b>>, <<a, a, b>>, <<b, NewLine, a>>, <<a, Tag>>}}
    \cup {List(<<Bare(<<a>>), [kind |-> "image", text |-> <<>>], [kind |-> "typed", text |-> <<b>>]>>),
          List(<<[kind |-> "typed", text |-> <<a, b>>], Bare(<<>>)>>),
          [shape |-> "other", parts |-> <<>>],
          [shape |-> "absent", parts |-> <<>>]}

MessageLists ==
    {<<Message(c)>> : c \in Contents} \cup {<<Message(c), Message(d)>> : c, d \in Contents}
    \cup {<<[object |-> FALSE, content |-> String(<<a, b>>)], Message(String(<<b, a>>))>>}

MCBodies == [system: {String(<<a, b>>), List(<<Bare(<<b>>)>>), [shape |-> "absent", parts |-> <<>>]},
             messages: MessageLists]
=============================================================================
