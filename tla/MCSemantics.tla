---------------------------- MODULE MCSemantics ----------------------------
(* A function f with up to two returns and an expression at its end, alone *)
(* or before or after a g that it may call, or another f.                  *)
EXTENDS Semantics

N(kind, is) == [kind |-> kind, is |-> is]

Literals == {<<N("literal", t)>> : t \in {"bool", "u8", "i32"}}
Leaves == Literals \cup {<<N("identifier", x)>> : x \in {"f", "g", "h"}}

Over1(es) == {e \o <<n>> : e \in es, n \in {N("unary", op) : op \in UnaryOp} \cup {N("call", "")}}
Over2(es) ==
  {l \o r \o <<N("binary", op)>> : l \in es, r \in es,
     op \in {"CmpEq", "BitAnd", "BitShl", "Add", "LogicalAnd"}}

Simple == Leaves \cup Over1(Leaves) \cup Over2(Leaves)
Calls == {<<N("identifier", x), N("call", "")>> : x \in {"f", "g"}}
Deep == Over1(Over1(Leaves)) \cup Over2(Calls \cup Literals)

F(name, returns, body, last) == [name |-> name, returns |-> returns, body |-> body, last |-> last]

Fs ==
  {F("f", t, <<e>>, <<>>) : t \in {"void", "u8", "bool"}, e \in Simple \cup {<<>>}}
  \cup {F("f", "bool", <<e>>, <<>>) : e \in Deep}
  \cup {F("f", "unknown", <<e>>, <<>>) : e \in Leaves \cup Calls \cup {<<>>}}
  \cup {F("f", "u8", <<e>>, last) : e \in Literals, last \in Leaves \cup Over1(Leaves)}
  \cup {F("f", t, <<d, e>>, <<>>) : t \in {"u8", "void"}, d, e \in Literals \cup {<<>>}}

Gs ==
  {F("g", t, <<e>>, <<>>) : t \in {"u8", "unknown"}, e \in {<<N("literal", "u8")>>} \cup Calls}
  \cup {F("g", "bool", <<>>, <<>>), F("g", "i32", <<>>, <<N("literal", "i32")>>),
        F("f", "u8", <<>>, <<>>)}

MCPrograms == {<<f>> : f \in Fs} \cup {<<f, g>> : f \in Fs, g \in Gs} \cup {<<g, f>> : f \in Fs, g \in Gs}
=============================================================================
