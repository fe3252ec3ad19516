------------------------------ MODULE JsonText ------------------------------
(***************************************************************************)
(* JSON values, and how one is found in what a model wrote                 *)
(* (vlorql-llm/src/parser_v2/recover).                                     *)
(*                                                                         *)
(* A value is [k, ...]: an object's fields are the function f, an array's  *)
(* items the sequence s.  A text is a sequence of tokens [t, ...]: the     *)
(* brackets and the comma, a "name" (a field with its colon), an "atom"    *)
(* (any other value), a "word" of prose, a code "fence" with its language  *)
(* and line end, a "half" string that was cut off, and a token whose       *)
(* quotes are "escaped".  A string is one token, so that brackets inside   *)
(* it are not counted, and a length is a number of tokens.                 *)
(***************************************************************************)
EXTENDS Integers, Sequences, FiniteSets, SequencesExt

Missing == [k |-> "missing"]
Null == [k |-> "null"]
Bool(b) == [k |-> "bool", b |-> b]
Num(n) == [k |-> "num", n |-> n]
Str(x) == [k |-> "str", x |-> x]
Obj(f) == [k |-> "obj", f |-> f]
Arr(s) == [k |-> "arr", s |-> s]

IsObj(v) == v.k = "obj"
IsArr(v) == v.k = "arr"
IsStr(v) == v.k = "str"

Get(v, field) == IF IsObj(v) /\ field \in DOMAIN v.f THEN v.f[field] ELSE Missing
Has(v, field) == Get(v, field) # Missing
Text(v, field) == IF IsStr(Get(v, field)) THEN Get(v, field).x ELSE ""
Items(v, field) == IF IsArr(Get(v, field)) THEN Get(v, field).s ELSE <<>>

\* An object with more fields, and with fewer.
With(v, fields) == Obj(fields @@ v.f)
Without(v, fields) == Obj(Restrict(v.f, DOMAIN v.f \ fields))

-----------------------------------------------------------------------------
Mark(t) == [t |-> t]
Name(field) == [t |-> "name", field |-> field]
Atom(v) == [t |-> "atom", v |-> v]
Escaped(token) == [t |-> "escaped", of |-> token]

At(text, i) == IF i \in DOMAIN text THEN text[i].t ELSE "end"

\* serde_json::from_str.  The value that starts at i, as {[v, next]}, or {}.
RECURSIVE ValueFrom(_, _), MembersFrom(_, _, _), ItemsFrom(_, _, _)
ValueFrom(text, i) ==
    CASE At(text, i) = "atom" -> {[v |-> text[i].v, next |-> i + 1]}
      [] At(text, i) = "{" /\ At(text, i + 1) = "}" -> {[v |-> Obj(<<>>), next |-> i + 2]}
      [] At(text, i) = "[" /\ At(text, i + 1) = "]" -> {[v |-> Arr(<<>>), next |-> i + 2]}
      [] At(text, i) = "{" -> MembersFrom(text, i + 1, <<>>)
      [] At(text, i) = "[" -> ItemsFrom(text, i + 1, <<>>)
      [] OTHER -> {}

MembersFrom(text, i, f) ==
    IF At(text, i) # "name" THEN {}
    ELSE UNION {LET g == (text[i].field :> r.v) @@ f
                IN CASE At(text, r.next) = "}" -> {[v |-> Obj(g), next |-> r.next + 1]}
                     [] At(text, r.next) = "," -> MembersFrom(text, r.next + 1, g)
                     [] OTHER -> {} : r \in ValueFrom(text, i + 1)}

ItemsFrom(text, i, s) ==
    UNION {CASE At(text, r.next) = "]" -> {[v |-> Arr(Append(s, r.v)), next |-> r.next + 1]}
             [] At(text, r.next) = "," -> ItemsFrom(text, r.next + 1, Append(s, r.v))
             [] OTHER -> {} : r \in ValueFrom(text, i)}

Decoded(text) == {r.v : r \in {r \in ValueFrom(text, 1) : r.next = Len(text) + 1}}
IsJson(text) == Decoded(text) # {}

-----------------------------------------------------------------------------
(* recover/bracket.rs                                                      *)

\* find_matching_close: the balanced object that starts at i, as {text}.
Balanced(text, i) ==
    LET Depth(j) == Cardinality({n \in i..j : text[n].t = "{"})
                    - Cardinality({n \in i..j : text[n].t = "}"})
        ends == {j \in i..Len(text) : Depth(j) = 0}
    IN IF At(text, i) # "{" \/ ends = {} THEN {}
       ELSE {SubSeq(text, i, CHOOSE j \in ends : \A n \in ends : j <= n)}

Opens(text) == {i \in DOMAIN text : text[i].t = "{"}
FirstOf(places) == CHOOSE i \in places : \A j \in places : i <= j

\* find_outermost_json_obj
Outermost(text) ==
    IF Opens(text) = {} THEN {} ELSE Balanced(text, FirstOf(Opens(text)))

LooksLikePlan(text) == \E v \in Decoded(text) : Has(v, "select") \/ Has(v, "from")

\* What is still open, the innermost last: a closer takes whatever is.
Unclosed(text) ==
    FoldLeft(LAMBDA stack, token :
                 CASE token.t = "{" -> Append(stack, Mark("}"))
                   [] token.t = "[" -> Append(stack, Mark("]"))
                   [] token.t \in {"}", "]"} /\ stack # <<>> -> Front(stack)
                   [] OTHER -> stack, <<>>, text)

Depth(text) ==
    Len(SelectSeq(text, LAMBDA token : token.t \in {"{", "["}))
    - Len(SelectSeq(text, LAMBDA token : token.t \in {"}", "]"}))

\* repair_truncated_json
RepairTruncated(text) ==
    IF IsJson(text) \/ At(text, 1) \notin {"{", "["} \/ Depth(text) <= 0 THEN text
    ELSE text \o Reverse(Unclosed(text))

\* Mutation: the first object that decodes is taken, whatever it holds.
BestObjectFirst(text) ==
    LET places == {i \in Opens(text) : \E c \in Balanced(text, i) : IsJson(c)}
    IN IF places = {} THEN {} ELSE Balanced(text, FirstOf(places))

\* find_best_json_obj: of the objects that decode, one that looks like a plan
\* before one that does not, the longest of these, the first of those; but an
\* object that is cut off is repaired if that makes it a plan, and nothing
\* else is one.
BestObject(text) ==
    LET places == {i \in Opens(text) : \E c \in Balanced(text, i) : IsJson(c)}
        Candidate(i) == CHOOSE c \in Balanced(text, i) : TRUE
        plans == {i \in places : LooksLikePlan(Candidate(i))}
        ranked == IF plans # {} THEN plans ELSE places
        best == FirstOf({i \in ranked : \A j \in ranked :
                            Len(Candidate(i)) >= Len(Candidate(j))})
        cut == {i \in Opens(text) : Balanced(text, i) = {}}
        repaired == RepairTruncated(SubSeq(text, FirstOf(cut), Len(text)))
    IN CASE plans = {} /\ cut # {} /\ LooksLikePlan(repaired) -> {repaired}
         [] places # {} -> {Candidate(best)}
         [] OTHER -> {}

-----------------------------------------------------------------------------
(* recover/markdown.rs, json.rs and extract.rs                             *)

\* strip_markdown_fence
InsideFence(text) ==
    LET fences == {i \in 2..Len(text) : text[i].t = "fence"}
        last == CHOOSE i \in fences : \A j \in fences : j <= i
        inner == SubSeq(text, 2, IF fences = {} THEN Len(text) ELSE last - 1)
    IN IF At(text, 1) = "fence" /\ inner # <<>> THEN {inner} ELSE {}

\* extract_first_json_obj_from_array
FirstOfArray(text) ==
    IF \E v \in Decoded(text) : IsArr(v) /\ v.s # <<>> /\ IsObj(Head(v.s))
    THEN Outermost(text) ELSE {}

IsJsonObject(text) == \E v \in Decoded(text) : IsObj(v)

\* fix_escaped_quotes
Unescaped(text) ==
    IF IsJson(text) THEN text
    ELSE [i \in DOMAIN text |-> IF text[i].t = "escaped" THEN text[i].of ELSE text[i]]

\* extract_json_content.  (The longest object is also asked for, after the
\* best one; when no object decodes there is no longest one either.)
ExtractJson(text) ==
    LET fixed == Unescaped(text)
        fenced == UNION {IF IsJson(inner) THEN {inner} ELSE Outermost(inner)
                            : inner \in InsideFence(text)}
        found == CASE fixed # text /\ IsJsonObject(fixed) -> {fixed}
                   [] fixed # text /\ FirstOfArray(fixed) # {} -> FirstOfArray(fixed)
                   [] IsJsonObject(text) -> {text}
                   [] FirstOfArray(text) # {} -> FirstOfArray(text)
                   [] fenced # {} -> fenced
                   [] OTHER -> BestObject(text)
    IN IF found = {} THEN text ELSE CHOOSE t \in found : TRUE
=============================================================================
