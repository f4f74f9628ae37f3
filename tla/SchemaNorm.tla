----------------------------- MODULE SchemaNorm -----------------------------
(***************************************************************************)
(* The normalisation of tool schemas (schema_norm.rs): null is taken out   *)
(* of alternatives, types and enums.  A JSON value is a pair of its kind   *)
(* and its content; an object's content is a function from the keys, which *)
(* has no value at the keys the object is without.                         *)
(***************************************************************************)
EXTENDS Lists

CONSTANTS
  Missing,     \* the value of a key that an object is without
  Keys,        \* the keys an object may have
  Leaves,      \* the values that are neither arrays nor objects
  Nesting,     \* bound: how deep values are nested; serde_json reads 128 levels
  MaxDepth     \* how deep a schema is followed, 12 in the code

Str(x) == <<"str", x>>
Arr(s) == <<"arr", s>>
Obj(f) == <<"obj", f>>
Null == <<"null", "null">>
True == <<"bool", TRUE>>

Kind(n) == n[1]
Content(n) == n[2]
Has(f, key) == f[key] # Missing
HasKind(f, key, kind) == Has(f, key) /\ Kind(f[key]) = kind
Without(f, key) == [f EXCEPT ![key] = Missing]

Keywords == {"type", "enum", "const", "not", "anyOf", "oneOf", "items", "properties", "additionalProperties"}

\* The values nested at most so deep.
Layer(below) == Leaves \cup ({"arr"} \X Seq(below)) \cup ({"obj"} \X [Keys -> below \cup {Missing}])
Layers ==
  LET upto[n \in 0..Nesting] == IF n = 0 THEN Leaves ELSE Layer(upto[n - 1])
  IN upto
Json == Layers[Nesting]

ASSUME SchemaAssumption ==
  /\ Nesting \in Nat /\ MaxDepth \in Nat /\ Keywords \subseteq Keys
  /\ Missing \notin Json /\ Null \in Leaves
  /\ \A n \in Leaves : Kind(n) \in {"str", "num", "bool", "null"} /\ (Kind(n) = "null" => n = Null)

\* is_null_schema(): one key, which allows null only.
IsNullSchema(n) ==
  /\ Kind(n) = "obj"
  /\ \E key \in {"type", "const", "enum"} :
       /\ \A k \in Keys : Has(Content(n), k) <=> k = key
       /\ Content(n)[key] = CASE key = "type" -> Str("null")
                              [] key = "const" -> Null
                              [] key = "enum" -> Arr(<<Null>>)

\* The keys of one object over those of another.
Over(f, g) == [k \in Keys |-> IF Has(f, k) THEN f[k] ELSE g[k]]

\* simplify_nullable_combinator(): a single alternative left is merged into
\* the parent, whose keys it overrides.
SimplifyCombinator(f, key) ==
  LET kept == Where(Content(f[key]), LAMBDA n : ~IsNullSchema(n))
  IN IF ~HasKind(f, key, "arr") THEN f
     ELSE IF kept = <<>> THEN Without(f, key)
     ELSE IF Len(kept) = 1 /\ Kind(kept[1]) = "obj" THEN Over(Content(kept[1]), Without(f, key))
     ELSE [f EXCEPT ![key] = Arr(kept)]

SomeType(t) == t \notin {Null, Str("null"), Str("")}

\* Of several types, the first is kept (a seeded fault).
NormalizeTypeFirst(f) ==
  LET kept == Where(Content(f["type"]), SomeType)
  IN IF ~HasKind(f, "type", "arr") THEN f
     ELSE IF kept = <<>> THEN Without(f, "type")
     ELSE [f EXCEPT !["type"] = kept[1]]

\* normalize_type_field(): a single type left stands alone, several stay a list.
NormalizeType(f) ==
  LET kept == Where(Content(f["type"]), SomeType)
  IN IF ~HasKind(f, "type", "arr") THEN f
     ELSE IF kept = <<>> THEN Without(f, "type")
     ELSE [f EXCEPT !["type"] = IF Len(kept) = 1 THEN kept[1] ELSE Arr(kept)]

\* normalize_enum_field(): the first of equal values stays.
NormalizeEnum(f) ==
  LET all == Content(f["enum"])
      kept == Pick(all, {i \in 1..Len(all) : all[i] # Null /\ \A j \in 1..i - 1 : all[j] # all[i]})
  IN IF ~HasKind(f, "enum", "arr") THEN f
     ELSE IF kept = <<>> THEN Without(f, "enum")
     ELSE [f EXCEPT !["enum"] = Arr(kept)]

DropNullConst(f) == IF f["const"] = Null THEN Without(f, "const") ELSE f

PostPasses(f) ==
  DropNullConst(NormalizeEnum(NormalizeType(
    SimplifyCombinator(SimplifyCombinator(f, "anyOf"), "oneOf"))))

\* normalize_schema(), as deep as it follows: objects in objects only, an
\* array is not entered.  A node that is nothing but a $ref has no definitions
\* of its own and is given none, so that no reference is ever resolved.
Skipped == {"definitions", "$defs", "nullable"}
Descend(f, below) ==
  [k \in Keys |-> IF Has(f, k) /\ k \notin Skipped THEN below[f[k]] ELSE f[k]]
Normals ==
  LET upto[d \in 0..MaxDepth] ==
        [n \in Json |-> IF d = 0 \/ Kind(n) # "obj" THEN n
                        ELSE Obj(PostPasses(Descend(Content(n), upto[d - 1])))]
  IN upto
Normalize(n, depth) == Normals[depth][n]

\* has_ref_or_defs()
Mentions ==
  LET upto[d \in 0..Nesting] ==
        [n \in Json |->
           CASE Kind(n) = "obj" ->
                  \/ \E k \in Keys \cap {"$ref", "$defs", "definitions"} : Has(Content(n), k)
                  \/ \E k \in Keys : Has(Content(n), k) /\ d > 0 /\ upto[d - 1][Content(n)[k]]
             [] Kind(n) = "arr" -> \E i \in DOMAIN Content(n) : d > 0 /\ upto[d - 1][Content(n)[i]]
             [] OTHER -> FALSE]
  IN upto
HasRefOrDefs(n) == Mentions[Nesting][n]

\* normalize_tool_schemas(): all parameters or none.
NormalizeTools(tools) ==
  IF \E i \in DOMAIN tools : HasRefOrDefs(tools[i])
  THEN [i \in DOMAIN tools |-> Normalize(tools[i], MaxDepth)]
  ELSE tools

-----------------------------------------------------------------------------
(* What a schema accepts; a malformed keyword, or a schema that is neither  *)
(* an object nor true, accepts nothing.                                     *)

CONSTANTS
  Arguments,   \* the values a model may call a tool with
  Refusals     \* what keywords not named above refuse: <<keyword, its value, argument>>

\* Parts of arguments are arguments; none is null.
ASSUME ArgumentsAssumption ==
  \A v \in Arguments :
    /\ v \in Json /\ v # Null
    /\ Kind(v) = "obj" => \A k \in Keys : Has(Content(v), k) => Content(v)[k] \in Arguments
    /\ Kind(v) = "arr" => \A i \in 1..Len(Content(v)) : Content(v)[i] \in Arguments

TypeName(v) ==
  CASE Kind(v) = "str" -> "string" [] Kind(v) = "num" -> "integer" [] Kind(v) = "bool" -> "boolean"
    [] Kind(v) = "obj" -> "object" [] Kind(v) = "arr" -> "array" [] OTHER -> "null"

\* The properties that additionalProperties leaves alone.
Exempt(f) == {p \in Keys : HasKind(f, "properties", "obj") /\ Has(Content(f["properties"]), p)}

IsSchema(x) == Kind(x) \in {"obj", "bool"}

\* One keyword of a schema, given what the schemas in it accept.
Allows(key, x, exempt, v, accepts) ==
  CASE key = "type" ->
         \/ Kind(x) = "str" /\ Content(x) = TypeName(v)
         \/ Kind(x) = "arr" /\ \E i \in 1..Len(Content(x)) : Content(x)[i] = Str(TypeName(v))
    [] key = "enum" -> Kind(x) = "arr" /\ \E i \in 1..Len(Content(x)) : Content(x)[i] = v
    [] key = "const" -> x = v
    [] key = "not" -> IsSchema(x) /\ ~accepts[<<x, v>>]
    [] key = "anyOf" -> Kind(x) = "arr" /\ \E i \in 1..Len(Content(x)) : accepts[<<Content(x)[i], v>>]
    [] key = "oneOf" ->
         /\ Kind(x) = "arr"
         /\ \E i \in 1..Len(Content(x)) : \A j \in 1..Len(Content(x)) : accepts[<<Content(x)[j], v>>] <=> j = i
    [] key = "items" ->
         IsSchema(x) /\ (Kind(v) = "arr" => \A i \in 1..Len(Content(v)) : accepts[<<x, Content(v)[i]>>])
    [] key = "properties" ->
         Kind(v) = "obj" =>
           /\ Kind(x) = "obj"
           /\ \A p \in Keys : Has(Content(x), p) =>
                IsSchema(Content(x)[p]) /\ (Has(Content(v), p) => accepts[<<Content(x)[p], Content(v)[p]>>])
    [] key = "additionalProperties" ->
         /\ IsSchema(x)
         /\ Kind(v) = "obj" =>
              \A p \in Keys \ exempt : Has(Content(v), p) => accepts[<<x, Content(v)[p]>>]
    [] OTHER -> Kind(x) = "obj" \/ <<key, x, v>> \notin Refusals

Acceptance ==
  LET upto[d \in 0..Nesting] ==
        [p \in Json \X Arguments |->
           LET f == Content(p[1])
           IN IF Kind(p[1]) = "obj"
              THEN d > 0 /\ \A k \in Keys : Has(f, k) => Allows(k, f[k], Exempt(f), p[2], upto[d - 1])
              ELSE p[1] = True]
  IN upto
Accepts(n, v) == Acceptance[Nesting][<<n, v>>]

\* The two ways in which normalisation does narrow a schema.  The properties
\* of a last alternative replace those beside it, which additionalProperties
\* then no longer leaves alone (168-173):
Uncovers(f, key) ==
  LET g == SimplifyCombinator(f, key)
  IN Has(f, "additionalProperties") /\ g["additionalProperties"] = f["additionalProperties"]
       /\ ~(Exempt(f) \subseteq Exempt(g))

\* and a constant, or a schema that must not hold, is normalised like any
\* other value (106-113).
Widens ==
  LET upto[d \in 0..MaxDepth] ==
        [n \in Json |->
           LET f == Content(n)
               g == Descend(f, Normals[d - 1])
           IN Kind(n) = "obj" /\ d > 0 =>
                /\ g["const"] = f["const"] /\ g["not"] = f["not"]
                /\ ~Uncovers(g, "anyOf") /\ ~Uncovers(SimplifyCombinator(g, "anyOf"), "oneOf")
                /\ \A k \in Keys \ Skipped : Has(f, k) => upto[d - 1][f[k]]]
  IN upto
OnlyWidens(n) == Widens[MaxDepth][n]
=============================================================================
