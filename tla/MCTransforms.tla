---------------------------- MODULE MCTransforms ----------------------------
EXTENDS Transforms

CONSTANT ping

\* Answers of both formats; the cached tokens are part of OpenAI's input.
Openai == [kind |-> "openai", input |-> 5, output |-> 2, cached |-> 3, creation |-> Absent]
Early == [kind |-> "message_start", input |-> 2, output |-> 1, cached |-> 4, creation |-> 1]
Late == [kind |-> "anthropic", input |-> Absent, output |-> 6, cached |-> Absent, creation |-> Absent]
Delta == [kind |-> "none", input |-> Absent, output |-> Absent, cached |-> Absent, creation |-> Absent]
MCPayloads == {Openai, Early, Late, Delta}
MCStreams == BoundedSeq(MCPayloads \cup {ping}, 3)
MCBodies == {<<Openai>>}
MCContexts == {[model |-> "m1", key |-> "k1", dur |-> 3, ttft |-> 1],
               [model |-> "m2", key |-> "k1", dur |-> 2, ttft |-> 2]}

\* Schemas: leaves of one or two keywords, alternatives of two, and a level
\* of properties around them.
MCKeys == Keywords \cup {"required", "$defs", "d", "p", "q"}
One(key, n) == [k \in MCKeys |-> IF k = key THEN n ELSE Missing]
A == Str("a")
B == Str("b")
False == <<"bool", FALSE>>
MCLeaves == {Str(x) : x \in {"a", "b", "c", "p", "q", "string", "integer", "object", "null", ""}} \cup {Null, True, False, <<"num", 1>>}
Types == {Str("string"), Arr(<<Str("string"), Str("null")>>), Arr(<<Str("integer"), Str("string"), Null>>),
          Arr(<<Str("null"), Str("")>>)}
Enums == {Arr(<<A, Null, A, B>>), Arr(<<Null>>)}
Bare == {One("type", t) : t \in Types} \cup {One("enum", e) : e \in Enums}
            \cup {One("const", Null), One("const", A), One("type", Str("null"))}
            \cup {Over(One("type", t), One("enum", e)) : t \in Types, e \in Enums}
Nulls == {One("type", Str("null")), One("const", Null), One("enum", Arr(<<Null>>))}
Some == Nulls \cup {One("type", Str("integer")), One("enum", Arr(<<A, Null>>)),
                    Over(One("type", Arr(<<Str("string"), Str("null")>>)), One("const", B))}
Alternatives == {One(key, Arr(s)) : key \in {"anyOf", "oneOf"},
            s \in {<<Obj(x), Obj(y)>> : x \in Some, y \in Some} \cup {<<Obj(x)>> : x \in Nulls}}
Nested == {One("oneOf", Arr(<<Obj(c), Obj(One("type", Str("null")))>>)) : c \in Alternatives}
Sides == {Over(c, One("type", Str("string"))) : c \in Alternatives}
Flat == Bare \cup Alternatives \cup Nested \cup Sides
Deep == {One("properties", Obj(One("p", Obj(c)))) : c \in Bare \cup Alternatives}
\* Objects closed to other properties, beside alternatives with properties of
\* their own; schemas in items, in negations and in constants.
Word == Obj(One("type", Arr(<<Str("string"), Str("null")>>)))
Shape(p) == One("properties", Obj(One(p, Word)))
Options == {Shape("p"), Shape("q"), Over(Shape("p"), Shape("q")), One("type", Str("object")),
            One("required", Arr(<<Str("q")>>)), One("additionalProperties", Word),
            Over(Shape("q"), One("additionalProperties", False))}
Closed == {Over(One(key, Arr(<<Obj(x), Obj(One("type", Str("null")))>>)),
                Over(Shape("p"), One("additionalProperties", n))) :
             key \in {"anyOf", "oneOf"}, x \in Options, n \in {False, Word}}
Within == {One(key, Obj(c)) : key \in {"items", "not", "const", "additionalProperties"},
                              c \in {One("type", t) : t \in Types} \cup {Over(x, One("type", Str("object"))) : x \in Closed}}
Framed == Closed \cup Within \cup {Shape("p"), Over(Shape("p"), One("required", Arr(<<Str("p")>>)))}
Parameters == {Obj(Over(f, One("$defs", Obj(One("d", Obj(One("type", Str("string")))))))) :
                 f \in Flat \cup Deep \cup Framed \cup {One("properties", Obj(One("p", Obj(c)))) : c \in Framed}}
MCTools == {<<p>> : p \in Parameters} \cup {<<Obj(f)>> : f \in Bare}
Words == {A, B, Str("c"), <<"num", 1>>}
Pairs == {One("p", v) : v \in Words} \cup {One("q", A), Over(One("p", A), One("q", A)), Over(One("p", A), One("q", <<"num", 1>>))}
MCArguments == Words \cup {Obj(f) : f \in Pairs} \cup {Obj(One("p", Obj(f))) : f \in Pairs} \cup {Arr(<<v>>) : v \in Words}
                 \cup {Word, Content(Word)["type"], Str("string"), Str("null")}
Demands(p) == {<<"required", Arr(<<Str(p)>>), Obj(f)>> : f \in {g \in Pairs : ~Has(g, p)}}
MCRefusals == Demands("p") \cup Demands("q")
=============================================================================
