---------------------------- MODULE UriEncoding ----------------------------
(***************************************************************************)
(* The query string in which an unsigned payload travels.  Of an object it *)
(* keeps the fields with a true value; numbers and booleans come back as   *)
(* strings, objects as objects, and arrays as the string of their JSON     *)
(* text.  What is read is decoded twice, once by querystring and once by   *)
(* decodeURIComponent, so texts that look encoded do not come back as they *)
(* were.  Four texts stand for all of their kind.                          *)
(***************************************************************************)
EXTENDS JsonValues

BadPercent    == "100%"    \* decodeURIComponent throws on it
EscapedLetter == "%41"     \* decoded once more it reads A
EscapedQuote  == "%22"     \* decoded once more it ends a JSON string
BracedText    == "{a}"     \* looks like an object, and is none
Listing       == "[...]"   \* the JSON text of any array
Digits        == "1..."    \* the decimal notation of any number

Unescaped(t) == CASE t = EscapedLetter -> "A"
                  [] t = EscapedQuote  -> "\""
                  [] OTHER             -> t

\* A value and the values in it, none of which is nested deeper than Depth.
Depth == 12
Members(v) == CASE v.is = "array"  -> {v.of[i] : i \in DOMAIN v.of}
                [] v.is = "object" -> {v.at[k] : k \in DOMAIN v.at}
                [] OTHER           -> {}
PartsOf(v) ==
  LET within[n \in 0..Depth] ==
        IF n = 0 THEN {v} ELSE UNION {Members(w) \cup {w} : w \in within[n - 1]}
  IN  within[Depth]

TextsOf(v) == {w.text : w \in {p \in PartsOf(v) : IsString(p)}}

\* The value with its texts decoded once more.
WithMembers(v, member) ==
  CASE v.is = "string" -> String(Unescaped(v.text))
    [] v.is = "array"  -> Array([i \in DOMAIN v.of |-> member[v.of[i]]])
    [] v.is = "object" -> Object([k \in DOMAIN v.at |-> member[v.at[k]]])
    [] OTHER           -> v
Reread(v) ==
  LET parts == PartsOf(v)
      read[n \in 0..Depth] ==
        [w \in parts |-> IF n = 0 THEN w ELSE WithMembers(w, read[n - 1])]
  IN  WithMembers(v, read[Depth])

\* false, zero, null, undefined and the empty string are left out.
IsTrue(v) == /\ v.is \notin {"undefined", "null"}
             /\ v.is = "boolean" => v.truth
             /\ v.is = "number" => v.value # 0
             /\ v.is = "string" => v.text # ""

encodeJsonAsURI(v) == Object([k \in {j \in Keys(v) : IsTrue(v.at[j])} |-> v.at[k]])

\* No JSON for JSON.parse, a text that is no URI component: all is refused.
Readable(v) ==
  /\ BadPercent \notin TextsOf(v)
  /\ v.is = "object" => EscapedQuote \notin TextsOf(v)
  /\ v.is = "string" => v.text # BracedText

\* Faulty variant: what is not a text keeps its type.
TypedValue(v) == IF v.is \in {"string", "object"} THEN Reread(v) ELSE v

\* A function has no JSON, and reads "undefined".
ReadValue(v) == CASE v.is \in {"string", "object"} -> Reread(v)
                  [] v.is = "array"                -> String(Listing)
                  [] v.is = "number"               -> String(Digits)
                  [] v.is = "boolean"              -> String("true")
                  [] OTHER                         -> String("undefined")

\* An error if there is nothing to read, or one of the values cannot be read.
Decodable(query)       == Keys(query) # {} /\ \A k \in Keys(query) : Readable(query.at[k])
decodeUriAsJson(query) == Object([k \in Keys(query) |-> ReadValue(query.at[k])])

----------------------------------------------------------------------------
\* A JSON value, nested at most Depth deep, whatever made it.
Canonical(w) ==
  CASE w.is = "string" -> w = String(w.text)
    [] w.is = "array"  -> w = Array([i \in DOMAIN w.of |-> w.of[i]])
    [] w.is = "object" -> w = Object([k \in DOMAIN w.at |-> w.at[k]])
    [] OTHER           -> TRUE
JsonValue(v) == \A w \in PartsOf(v) : Canonical(w) /\ Members(w) \subseteq PartsOf(v)

=============================================================================
