---------------------------- MODULE JsonValues ----------------------------
(***************************************************************************)
(* The JSON values that travel in requests, and the vocabulary of the JSON *)
(* schemas in schemas/: a value is a record whose field `is` names its     *)
(* type, and a schema is a predicate on values.  Texts are members of      *)
(* small sets; an array is a sequence, and the fields of an object are a   *)
(* function on their names.                                                *)
(***************************************************************************)
EXTENDS Naturals, Sequences

String(text)   == [is |-> "string", text |-> text]
Number(n)      == [is |-> "number", value |-> n]
Boolean(b)     == [is |-> "boolean", truth |-> b]
Function       == [is |-> "function"]
NullValue      == [is |-> "null"]
Array(of)      == [is |-> "array", of |-> of]
Object(at)     == [is |-> "object", at |-> at]
EmptyObject    == Object([k \in {} |-> NullValue])

Keys(v)     == IF v.is = "object" THEN DOMAIN v.at ELSE {}
Has(v, k)   == k \in Keys(v)

\* The object with k set to w, and the object without the fields in ks.
With(v, k, w)    == Object([j \in Keys(v) \cup {k} |-> IF j = k THEN w ELSE v.at[j]])
Without(v, ks)   == Object([j \in Keys(v) \ ks |-> v.at[j]])

\* { ...v, ...w }
Spread(v, w) == Object([j \in Keys(v) \cup Keys(w) |-> IF Has(w, j) THEN w.at[j] ELSE v.at[j]])

\* An object with the fields of `at` whose value is not undefined, which is
\* what copying by way of JSON, or signing, leaves of one.
Undef       == [is |-> "undefined"]
Defined(at) == Object([k \in {j \in DOMAIN at : at[j] # Undef} |-> at[k]])
At(v, k)    == IF Has(v, k) THEN v.at[k] ELSE Undef

----------------------------------------------------------------------------
Anything(v)         == TRUE
IsString(v)         == v.is = "string"
IsNumber(v)         == v.is = "number"
IsBoolean(v)        == v.is = "boolean"
IsObject(v)         == v.is = "object"
OneOf(v, texts)     == v.is = "string" /\ v.text \in texts
ArrayOf(v, P(_))    == v.is = "array" /\ \A i \in DOMAIN v.of : P(v.of[i])
Strings(v)          == ArrayOf(v, IsString)

\* Where a schema says "one of them or an array of them".
SomeOf(v, P(_)) == P(v) \/ ArrayOf(v, P)

\* "required", and "properties" of the same schema: each that is there is P.
Requires(v, ks)        == ks \subseteq Keys(v)
Properties(v, ks, P(_)) == \A k \in ks \cap Keys(v) : P(v.at[k])

\* "additionalProperties": false.
Closed(v, ks)          == v.is = "object" /\ Keys(v) \subseteq ks

=============================================================================
