-------------------------- MODULE PartyBuilders_proofs --------------------------
(***************************************************************************)
(* Proofs about PartyBuilders, for any calls of the builders in any order, *)
(* any number of builds, and any peers; and first the lemmas about the     *)
(* algorithms of SubjectSyntax, for lists of any length, any methods and   *)
(* any formats.                                                            *)
(***************************************************************************)
EXTENDS PartyBuilders, Selections_proofs

\* Types of different kinds differ, whatever the names of the methods are.
LEMMA KindsDiffer ==
  /\ Did \in SyntaxType /\ Undefined \in SyntaxType /\ Jwk \in SyntaxType
  /\ Did # Undefined /\ Did # Jwk /\ Jwk # Undefined
  /\ \A t \in MethodType : t \in SyntaxType /\ t.kind = "method"
                           /\ t # Did /\ t # Jwk /\ t # Undefined
  /\ \A t \in SyntaxType : t.kind = "method" => t \in MethodType
<1>1. \A t \in MethodType : t.kind = "method"
  BY DEF MethodType, OfMethod
<1>2. /\ Did.kind = "did" /\ Jwk.kind = "jwk"
      /\ Other.kind = "other" /\ Undefined.kind = "undefined"
  BY DEF Did, Jwk, Other, Undefined
<1>3. QED
  BY <1>1, <1>2 DEF SyntaxType

\* The elements of the lists: of a selection, and of two lists in a row.
LEMMA SelectionSet ==
  ASSUME NEW S, NEW s \in Seq(S), NEW T
  PROVE  /\ Kept(s, T) \in Seq(S)
         /\ ToSet(Kept(s, T)) = ToSet(s) \cap T
<1>1. Kept(s, T) \in Seq(S \cap T)
  BY KeptElements
<1>2. Elements(Kept(s, T)) = Elements(s) \cap T
  BY KeptElements
<1>3. S \cap T \subseteq S
  OBVIOUS
<1>4. ASSUME NEW U, NEW u \in Seq(U) PROVE ToSet(u) = Elements(u)
  BY DEF ToSet, Elements
<1>5. ToSet(Kept(s, T)) = Elements(Kept(s, T)) /\ ToSet(s) = Elements(s)
  BY <1>1, <1>4
<1>6. Kept(s, T) \in Seq(S)
  BY <1>1, <1>3
<1>7. QED
  BY <1>2, <1>5, <1>6

LEMMA ConcatenationSet ==
  ASSUME NEW S, NEW s \in Seq(S), NEW t \in Seq(S)
  PROVE  s \o t \in Seq(S) /\ ToSet(s \o t) = ToSet(s) \cup ToSet(t)
<1>1. /\ s \o t \in Seq(S) /\ Len(s \o t) = Len(s) + Len(t)
      /\ Len(s) \in Nat /\ Len(t) \in Nat
      /\ \A i \in 1..Len(s) : (s \o t)[i] = s[i]
      /\ \A i \in 1..Len(t) : (s \o t)[Len(s) + i] = t[i]
  OBVIOUS
<1>2. \A i \in 1..Len(s) + Len(t) : i \in 1..Len(s) \/ \E j \in 1..Len(t) : i = Len(s) + j
  <2> SUFFICES ASSUME NEW i \in 1..Len(s) + Len(t), i \notin 1..Len(s)
               PROVE  \E j \in 1..Len(t) : i = Len(s) + j
    OBVIOUS
  <2>1. i - Len(s) \in 1..Len(t) /\ i = Len(s) + (i - Len(s))
    BY <1>1
  <2>2. QED
    BY <2>1
<1>3. /\ DOMAIN s = 1..Len(s) /\ DOMAIN t = 1..Len(t)
      /\ DOMAIN (s \o t) = 1..Len(s) + Len(t)
  BY <1>1
<1>4. \A i \in 1..Len(s) : i \in 1..Len(s) + Len(t)
  BY <1>1
<1>5. \A j \in 1..Len(t) : Len(s) + j \in 1..Len(s) + Len(t)
  BY <1>1
<1>6. ToSet(s \o t) = ToSet(s) \cup ToSet(t)
  <2>1. ASSUME NEW x \in ToSet(s \o t) PROVE x \in ToSet(s) \cup ToSet(t)
    <3>1. PICK i \in 1..Len(s) + Len(t) : x = (s \o t)[i]
      BY <1>3 DEF ToSet
    <3>2. CASE i \in 1..Len(s)
      BY <1>1, <1>3, <3>1, <3>2 DEF ToSet
    <3>3. CASE \E j \in 1..Len(t) : i = Len(s) + j
      BY <1>1, <1>3, <3>1, <3>3 DEF ToSet
    <3>4. QED
      BY <1>2, <3>2, <3>3
  <2>2. ASSUME NEW i \in DOMAIN s PROVE s[i] \in ToSet(s \o t)
    BY <1>1, <1>3, <1>4 DEF ToSet
  <2>3. ASSUME NEW j \in DOMAIN t PROVE t[j] \in ToSet(s \o t)
    <3>1. Len(s) + j \in DOMAIN (s \o t) /\ (s \o t)[Len(s) + j] = t[j]
      BY <1>1, <1>3, <1>5
    <3>2. QED
      BY <3>1, Zenon DEF ToSet
  <2>4. QED
    BY <2>1, <2>2, <2>3 DEF ToSet
<1>7. QED
  BY <1>1, <1>6

LEMMA EmptySet ==
  ASSUME NEW S, NEW s \in Seq(S)
  PROVE  /\ s = <<>> <=> ToSet(s) = {}
         /\ ToSet(s) \subseteq S
         /\ \A x : ToSet(<<x>>) = {x}
<1>1. DOMAIN s = 1..Len(s) /\ Len(s) \in Nat
  OBVIOUS
<1>2. s = <<>> <=> Len(s) = 0
  OBVIOUS
<1>3. ToSet(s) = {} <=> Len(s) = 0
  <2>1. Len(s) = 0 => DOMAIN s = {}
    BY <1>1
  <2>2. Len(s) # 0 => 1 \in DOMAIN s
    BY <1>1
  <2>3. QED
    BY <2>1, <2>2 DEF ToSet
<1>4. ToSet(s) \subseteq S
  BY DEF ToSet
<1>5. ASSUME NEW x PROVE ToSet(<<x>>) = {x}
  BY DEF ToSet
<1>6. QED
  BY <1>2, <1>3, <1>4, <1>5

-----------------------------------------------------------------------------

(***************************************************************************)
(* Registering resolvers, and merging their methods into a list: what was  *)
(* in the list stays there, nothing undefined comes in, and merging a      *)
(* second time adds nothing.                                               *)
(***************************************************************************)
LEMMA ResolversType ==
  ASSUME NEW rs \in Seq(ResolverEntry), NEW m \in MethodName, NEW own \in BOOLEAN
  PROVE  addResolver(rs, m, own) \in Seq(ResolverEntry)
<1> DEFINE at == {i \in DOMAIN rs : rs[i].key = BareMethod(m)}
           entry == [key |-> BareMethod(m), own |-> own]
<1>1. entry \in ResolverEntry
  BY DEF ResolverEntry
<1>2. Append(rs, entry) \in Seq(ResolverEntry)
  BY <1>1
<1>3. [i \in DOMAIN rs |-> IF i \in at THEN entry ELSE rs[i]] \in Seq(ResolverEntry)
  <2> HIDE DEF entry, at
  <2>1. QED
    BY <1>1
<1>4. QED
  BY <1>2, <1>3 DEF addResolver

LEMMA DidMethodType ==
  ASSUME NEW rs \in Seq(ResolverEntry), NEW m \in MethodName, NEW opts \in BOOLEAN
  PROVE  addDidMethod(rs, m, opts) \in Seq(ResolverEntry)
<1>1. "" \in MethodName /\ "did" \in MethodName
  BY DEF MethodName, NoMethods
<1>2. addResolver(rs, "", opts) \in Seq(ResolverEntry)
  BY <1>1, ResolversType
<1>3. QED
  BY <1>1, <1>2, ResolversType DEF addDidMethod

LEMMA MergedList ==
  ASSUME NEW types \in Seq(SyntaxType), NEW rs \in Seq(ResolverEntry)
  PROVE  LET merged == mergeAllDidMethods(types, rs) IN
         /\ merged \in Seq(SyntaxType)
         /\ ToSet(types) \subseteq ToSet(merged)
         /\ Len(types) <= Len(merged) /\ \A i \in 1..Len(types) : merged[i] = types[i]
         /\ Undefined \in ToSet(merged) => Undefined \in ToSet(types)
         /\ mergeAllDidMethods(merged, rs) = merged
<1> DEFINE registered == [i \in DOMAIN rs |-> OfMethod(rs[i].key.method)]
           new == Kept(registered, ToSet(registered) \ ToSet(types))
<1>1. registered \in Seq(MethodType)
  <2>1. \A i \in 1..Len(rs) : rs[i].key.method \in MethodName
    <3> SUFFICES ASSUME NEW i \in 1..Len(rs) PROVE rs[i].key.method \in MethodName
      OBVIOUS
    <3>1. rs[i] \in ResolverEntry
      OBVIOUS
    <3>2. PICK m \in MethodName : rs[i].key = BareMethod(m)
      BY <3>1 DEF ResolverEntry
    <3>3. QED
      BY <3>2 DEF BareMethod
  <2>2. DOMAIN rs = 1..Len(rs) /\ Len(rs) \in Nat
    OBVIOUS
  <2>3. \A i \in 1..Len(rs) : OfMethod(rs[i].key.method) \in MethodType
    BY <2>1 DEF MethodType
  <2>4. QED
    BY <2>2, <2>3
<1>2. registered \in Seq(SyntaxType) /\ Undefined \notin ToSet(registered)
  <2>1. MethodType \subseteq SyntaxType /\ Undefined \notin MethodType
    BY KindsDiffer
  <2>2. ToSet(registered) \subseteq MethodType
    <3> HIDE DEF registered
    <3>1. QED
      BY <1>1, EmptySet
  <2>3. registered \in Seq(SyntaxType)
    <3> HIDE DEF registered
    <3>1. QED
      BY <1>1, <2>1
  <2>4. QED
    BY <2>1, <2>2, <2>3
<1>3. \A list : mergeAllDidMethods(list, rs) =
                  list \o Kept(registered, ToSet(registered) \ ToSet(list))
  BY DEF mergeAllDidMethods
<1> HIDE DEF registered
<1>4. new \in Seq(SyntaxType) /\ ToSet(new) = ToSet(registered) \ ToSet(types)
  BY <1>2, SelectionSet
<1> DEFINE merged == types \o new
<1>5. merged \in Seq(SyntaxType) /\ ToSet(merged) = ToSet(types) \cup ToSet(registered)
  <2>1. new \in Seq(SyntaxType)
    BY <1>4
  <2> HIDE DEF new
  <2>2. types \o new \in Seq(SyntaxType) /\ ToSet(types \o new) = ToSet(types) \cup ToSet(new)
    BY <2>1, ConcatenationSet
  <2>3. QED
    BY <1>4, <2>2
<1>6. mergeAllDidMethods(types, rs) = merged
  BY <1>3
<1>10. Len(types) <= Len(merged) /\ \A i \in 1..Len(types) : merged[i] = types[i]
  <2>1. PICK added \in Seq(SyntaxType) : merged = types \o added
    BY <1>4
  <2> HIDE DEF merged, new
  <2>2. QED
    BY <2>1
<1> HIDE DEF merged, new
<1>7. Kept(registered, ToSet(registered) \ ToSet(merged)) = <<>>
  <2>1. ToSet(registered) \ ToSet(merged) = {}
    BY <1>5
  <2>2. /\ Kept(registered, {}) \in Seq(SyntaxType)
        /\ ToSet(Kept(registered, {})) = {}
    <3>1. ToSet(registered) \cap {} = {}
      OBVIOUS
    <3>2. QED
      BY <1>2, <3>1, SelectionSet
  <2>3. Kept(registered, {}) = <<>>
    BY <2>2, EmptySet
  <2>4. QED
    BY <2>1, <2>3
<1>8. merged \o <<>> = merged
  BY <1>5
<1>9. mergeAllDidMethods(merged, rs) = merged
  BY <1>3, <1>7, <1>8
<1>11. QED
  BY <1>2, <1>5, <1>6, <1>9, <1>10

-----------------------------------------------------------------------------

(***************************************************************************)
(* The resolver of a party: unless the host has its own, it resolves DIDs  *)
(* of methods only that the list has, or any if the list has "did".        *)
(***************************************************************************)
LEMMA ResolverFitsList ==
  ASSUME NEW custom \in BOOLEAN, NEW types \in Seq(SyntaxType), NEW rs \in Seq(ResolverEntry)
  PROVE  LET r == getResolverUnion(custom, types, rs) IN
         /\ r \in Resolver
         /\ r.kind # "custom" =>
              \A m \in MethodName :
                ResolvedBy(r, m) # "nobody" => Did \in ToSet(types) \/ OfMethod(m) \in ToSet(types)
<1> DEFINE specific == Kept(types, MethodType)
           registries == [i \in DOMAIN specific |-> methodResolver(specific[i], rs)]
           r == getResolverUnion(custom, types, rs)
<1>1. CASE custom
  BY <1>1 DEF getResolverUnion, Resolver
<1>2. CASE ~custom /\ Did \in ToSet(types)
  BY <1>2 DEF getResolverUnion, Resolver
<1>3. CASE ~custom /\ Did \notin ToSet(types)
  <2>1. r = newResolver(registries)
    BY <1>3 DEF getResolverUnion
  <2>2. specific \in Seq(SyntaxType) /\ ToSet(specific) = ToSet(types) \cap MethodType
    BY SelectionSet
  <2> HIDE DEF specific, r
  <2>3. CASE registries = <<>>
    <3>1. r = [kind |-> "empty"]
      BY <2>1, <2>3 DEF newResolver
    <3>2. \A m : ResolvedBy(r, m) = "nobody"
      BY <3>1 DEF ResolvedBy
    <3>3. QED
      BY <3>1, <3>2 DEF Resolver, r
  <2>4. CASE registries # <<>>
    <3>1. 1 \in DOMAIN specific
      <4>1. DOMAIN specific = 1..Len(specific) /\ Len(specific) \in Nat
        BY <2>2
      <4>2. CASE Len(specific) = 0
        <5>1. registries = [i \in {} |-> methodResolver(specific[i], rs)]
          BY <4>1, <4>2
        <5>2. registries = <<>>
          BY <5>1
        <5>3. QED
          BY <2>4, <5>2
      <4>3. QED
        BY <4>1, <4>2
    <3>2. specific[1] \in ToSet(types) \cap MethodType
      BY <2>2, <3>1 DEF ToSet
    <3>3. PICK n \in MethodName : specific[1] = OfMethod(n)
      BY <3>2 DEF MethodType
    <3>4. r = methodResolver(specific[1], rs)
      BY <2>1, <2>4, <3>1 DEF newResolver
    <3>5. /\ r = [kind |-> "registry", method |-> n, use |-> r.use]
          /\ r.use \in {"own", "universal"}
      BY <3>3, <3>4 DEF methodResolver, OfMethod
    <3>6. r \in Resolver
      BY <3>5 DEF Resolver
    <3>7. \A m : ResolvedBy(r, m) # "nobody" => m = n
      BY <3>5 DEF ResolvedBy
    <3>8. QED
      BY <3>2, <3>3, <3>6, <3>7 DEF r
  <2>5. QED
    BY <2>3, <2>4
<1>4. QED
  BY <1>1, <1>2, <1>3

-----------------------------------------------------------------------------

(***************************************************************************)
(* The selections that the agreement on syntax types is made of.           *)
(***************************************************************************)
LEMMA SharedSelections ==
  ASSUME NEW as \in Seq(SyntaxType), NEW bs \in Seq(SyntaxType)
  PROVE  /\ Intersection(as, bs) \in Seq(SyntaxType)
         /\ ToSet(Intersection(as, bs)) = ToSet(as) \cap ToSet(bs)
         /\ Intersection(as, bs) = <<>> <=> ToSet(as) \cap ToSet(bs) = {}
<1>1. /\ Intersection(as, bs) \in Seq(SyntaxType)
      /\ ToSet(Intersection(as, bs)) = ToSet(as) \cap ToSet(bs)
  <2>1. \A T : Kept(as, T) \in Seq(SyntaxType) /\ ToSet(Kept(as, T)) = ToSet(as) \cap T
    BY SelectionSet
  <2>2. QED
    BY <2>1 DEF Intersection
<1>2. ASSUME NEW cs \in Seq(SyntaxType) PROVE cs = <<>> <=> ToSet(cs) = {}
  BY EmptySet
<1>3. QED
  BY <1>1, <1>2

LEMMA MethodSelections ==
  ASSUME NEW as \in Seq(SyntaxType)
  PROVE  /\ ToSet(OfAnyMethod(as)) = ToSet(as) \cap MethodType
         /\ OfAnyMethod(as) = <<>> <=> ToSet(as) \cap MethodType = {}
<1>1. /\ OfAnyMethod(as) \in Seq(SyntaxType)
      /\ ToSet(OfAnyMethod(as)) = ToSet(as) \cap MethodType
  BY SelectionSet DEF OfAnyMethod
<1>2. QED
  BY <1>1, EmptySet

(***************************************************************************)
(* What the agreement lists, in terms of what the two lists have.          *)
(***************************************************************************)
LEMMA AgreedTypes ==
  ASSUME NEW rp \in Seq(SyntaxType), NEW op \in Seq(SyntaxType)
  PROVE  LET agreed == supportedSubjectSyntaxTypes(rp, op)
             R == ToSet(rp)
             O == ToSet(op)
         IN  CASE Did \in R \cap O -> agreed.ok = TRUE /\ ToSet(agreed.types) = {Did}
               [] Did \in R \ O /\ Undefined \in O -> agreed.ok = FALSE
               [] Did \in R \ O /\ Undefined \notin O /\ O \cap MethodType # {} ->
                    agreed.ok = TRUE /\ ToSet(agreed.types) = O \cap MethodType
               [] Did \in O \ R /\ R \cap MethodType # {} ->
                    agreed.ok = TRUE /\ ToSet(agreed.types) = R \cap MethodType
               [] OTHER -> IF R \cap O = {} THEN agreed.ok = FALSE
                           ELSE /\ agreed.ok = TRUE
                                /\ ToSet(agreed.types) = IF R \cap O \cap MethodType # {}
                                                         THEN R \cap O \cap MethodType ELSE R \cap O
<1> DEFINE common == Intersection(rp, op)
           agreed == supportedSubjectSyntaxTypes(rp, op)
           R == ToSet(rp)
           O == ToSet(op)
<1>1. /\ common \in Seq(SyntaxType) /\ ToSet(common) = R \cap O
      /\ common = <<>> <=> R \cap O = {}
  BY SharedSelections
<1>2. /\ ToSet(OfAnyMethod(rp)) = R \cap MethodType
      /\ OfAnyMethod(rp) = <<>> <=> R \cap MethodType = {}
      /\ ToSet(OfAnyMethod(op)) = O \cap MethodType
      /\ OfAnyMethod(op) = <<>> <=> O \cap MethodType = {}
  BY MethodSelections
<1>3. /\ ToSet(OfAnyMethod(common)) = R \cap O \cap MethodType
      /\ OfAnyMethod(common) = <<>> <=> R \cap O \cap MethodType = {}
  <2> HIDE DEF common
  <2>1. QED
    BY <1>1, MethodSelections
<1>4. ToSet(<<Did>>) = {Did}
  BY EmptySet
<1>5. CASE Did \in R \cap O
  <2>1. agreed = [ok |-> TRUE, types |-> <<Did>>]
    BY <1>1, <1>5 DEF supportedSubjectSyntaxTypes
  <2>2. QED
    BY <1>4, <1>5, <2>1
<1>6. CASE Did \in R \ O /\ Undefined \in O
  <2>1. agreed = Failed
    BY <1>1, <1>6 DEF supportedSubjectSyntaxTypes
  <2>2. QED
    BY <1>6, <2>1 DEF Failed
<1>7. CASE Did \in R \ O /\ Undefined \notin O /\ O \cap MethodType # {}
  <2>1. agreed = [ok |-> TRUE, types |-> OfAnyMethod(op)]
    BY <1>1, <1>2, <1>7 DEF supportedSubjectSyntaxTypes
  <2>2. QED
    BY <1>2, <1>7, <2>1
<1>8. CASE Did \in O \ R /\ R \cap MethodType # {}
  <2>1. agreed = [ok |-> TRUE, types |-> OfAnyMethod(rp)]
    BY <1>1, <1>2, <1>8 DEF supportedSubjectSyntaxTypes
  <2>2. QED
    BY <1>2, <1>8, <2>1
<1>9. CASE /\ Did \notin R \cap O
           /\ ~(Did \in R \ O /\ Undefined \in O)
           /\ ~(Did \in R \ O /\ Undefined \notin O /\ O \cap MethodType # {})
           /\ ~(Did \in O \ R /\ R \cap MethodType # {})
  <2>1. agreed = IF common = <<>> THEN Failed
                 ELSE IF OfAnyMethod(common) # <<>> THEN [ok |-> TRUE, types |-> OfAnyMethod(common)]
                 ELSE [ok |-> TRUE, types |-> common]
    BY <1>1, <1>2, <1>9 DEF supportedSubjectSyntaxTypes
  <2>2. QED
    <3>1. CASE R \cap O = {}
      BY <1>1, <1>9, <2>1, <3>1 DEF Failed
    <3>2. CASE R \cap O \cap MethodType # {}
      <4>1. agreed = [ok |-> TRUE, types |-> OfAnyMethod(common)]
        BY <1>1, <1>3, <2>1, <3>2
      <4>2. QED
        BY <1>3, <1>9, <3>2, <4>1
    <3>3. CASE R \cap O # {} /\ R \cap O \cap MethodType = {}
      <4>1. agreed = [ok |-> TRUE, types |-> common]
        BY <1>1, <1>3, <2>1, <3>3
      <4>2. QED
        BY <1>1, <1>9, <3>3, <4>1
    <3>4. QED
      BY <3>1, <3>2, <3>3
<1>10. QED
  BY <1>5, <1>6, <1>7, <1>8, <1>9

(***************************************************************************)
(* The formats agreed upon: there is one, and each has algorithms that     *)
(* both sides list for it under the same key.                              *)
(***************************************************************************)
LEMMA AgreedFormats ==
  ASSUME NEW rp \in Formats, NEW op \in Formats
  PROVE  LET result == supportedCredentialsFormats(rp, op) IN
         /\ result.ok \in BOOLEAN
         /\ result.ok =>
              /\ result.formats # << >>
              /\ \A f \in DOMAIN result.formats :
                   /\ result.formats[f].algs # {}
                   /\ \A side \in {rp, op} :
                        /\ f \in DOMAIN side /\ side[f].key = result.formats[f].key
                        /\ result.formats[f].algs \subseteq side[f].algs
<1> DEFINE common == DOMAIN rp \cap DOMAIN op
           fits(f) == rp[f].key = op[f].key /\ rp[f].algs \cap op[f].algs # {}
           result == supportedCredentialsFormats(rp, op)
<1>1. CASE common = {} \/ \E f \in common : ~fits(f)
  BY <1>1 DEF supportedCredentialsFormats, Failed
<1>2. CASE common # {} /\ \A f \in common : fits(f)
  <2> DEFINE formats == [f \in common |-> [key |-> op[f].key, algs |-> rp[f].algs \cap op[f].algs]]
  <2>1. result = [ok |-> TRUE, formats |-> formats]
    BY <1>2 DEF supportedCredentialsFormats
  <2>2. formats # << >>
    <3>1. DOMAIN formats # {} /\ DOMAIN << >> = {}
      BY <1>2
    <3>2. QED
      BY <3>1
  <2>3. ASSUME NEW f \in common
        PROVE  /\ formats[f].algs # {}
               /\ \A side \in {rp, op} :
                    /\ f \in DOMAIN side /\ side[f].key = formats[f].key
                    /\ formats[f].algs \subseteq side[f].algs
    BY <1>2
  <2>4. DOMAIN formats = common
    OBVIOUS
  <2> HIDE DEF formats, common
  <2>5. QED
    BY <2>1, <2>2, <2>3, <2>4
<1>3. QED
  BY <1>1, <1>2

-----------------------------------------------------------------------------

(***************************************************************************)
(* The keys a builder has set so far fit the version it had first; without *)
(* a version there are none that depend on it.                             *)
(***************************************************************************)
Foreign(v) == IF v < 110 THEN {"client_metadata", "presentation_definition"}
              ELSE {"request_registration", "claims"}

Barred(versions) == IF versions = <<>> THEN MetadataKey \cup DefinitionKey
                    ELSE Foreign(Head(versions))

KeysFit(b) == \A t \in Target : b.payload[t] \cap Barred(b.versions) = {}

KeysInv == KeysFit(rpBuilder) /\ KeysMatchVersion

(***************************************************************************)
(* A party resolves what it lists, and its list is in the metadata object  *)
(* it shares with its builder, or is what it announces.                    *)
(***************************************************************************)
ResolvesListed(party) ==
  party.resolver.kind # "custom" =>
    \A m \in MethodName : ResolvedBy(party.resolver, m) # "nobody" => Covers(party.listed, m)

ListedInv ==
  /\ \A i \in DOMAIN rps : /\ ResolvesListed(rps[i])
                           /\ ToSet(rps[i].listed) \subseteq ToSet(objects[rps[i].metadata])
  /\ \A i \in DOMAIN ops : /\ ResolvesListed(ops[i])
                           /\ ops[i].announces # <<Undefined>> => ops[i].listed = ops[i].announces

(***************************************************************************)
(* What a builder that has just built a party still has: all that the      *)
(* schemas require, and a valid list if it started with one.               *)
(***************************************************************************)
RebuildInv ==
  /\ outcome = "rp" =>
       /\ rps # <<>> /\ rpBuilder.versions # <<>> /\ rpBuilder.metadata # 0
       /\ ValidRequestObject(rpBuilder)
       /\ Last(rps).before # <<Undefined>> => Undefined \notin ToSet(objects[rpBuilder.metadata])
  /\ outcome = "op" =>
       /\ ops # <<>> /\ opBuilder.registered /\ opBuilder.signature
       /\ Last(ops).before # <<Undefined>> => Undefined \notin ToSet(opBuilder.types)

\* An agreement is what the two offers give.
Offer == [types : Seq(SyntaxType), formats : Formats]

AgreementInv ==
  agreement.made => /\ agreement.rp \in Offer /\ agreement.op \in Offer
                    /\ agreement.result = assertValidMetadata(agreement.op, agreement.rp)

IInv == TypeOK /\ KeysInv /\ ListedInv /\ RebuildInv /\ AgreementInv

-----------------------------------------------------------------------------

(***************************************************************************)
(* The setters: each makes another builder of the right type, with keys    *)
(* that fit its version, and leaves the metadata object alone.             *)
(***************************************************************************)
RPBuilderType ==
  [versions : Seq(Version), payload : [Target -> SUBSET Key], options : SUBSET Options,
   custom : BOOLEAN, resolvers : Seq(ResolverEntry), metadata : 0..MaxObjects]

OPBuilderType ==
  [registered : BOOLEAN, types : Seq(SyntaxType), signature : BOOLEAN,
   custom : BOOLEAN, resolvers : Seq(ResolverEntry)]

LEMMA AssignFits ==
  ASSUME NEW payload \in [Target -> SUBSET Key], NEW k \in Key, NEW targets \in SUBSET Target
  PROVE  /\ Assign(payload, k, targets) \in [Target -> SUBSET Key]
         /\ \A t \in Target : Assign(payload, k, targets)[t] \subseteq payload[t] \cup {k}
  BY DEF Assign

RPSetter ==
  \/ \E v \in Version : AddSupportedVersion(v)
  \/ \E k \in Required, targets \in Targeted : WithProperty(k, targets)
  \/ \E o \in Options : WithOption(o)
  \/ WithCustomResolver
  \/ \E m \in Methods : AddResolver(m)
  \/ \E m \in Methods \cup {"did"}, opts \in BOOLEAN : AddDidMethod(m, opts)
  \/ \E targets \in Targeted : WithPresentationDefinition(targets)

OPSetter ==
  \/ OPWithCustomResolver
  \/ \E m \in Methods : OPAddResolver(m)
  \/ \E m \in Methods \cup {"did"}, opts \in BOOLEAN : OPAddDidMethod(m, opts)
  \/ OPSignature
  \/ \E types \in TypeLists : OPRegistration(types)

LEMMA RPSetterMakesBuilder ==
  ASSUME rpBuilder \in RPBuilderType, KeysFit(rpBuilder), RPSetter
  PROVE  \E b \in RPBuilderType : OnRP(b) /\ b.metadata = rpBuilder.metadata /\ KeysFit(b)
<1> DEFINE Made(b) == b \in RPBuilderType /\ OnRP(b) /\ b.metadata = rpBuilder.metadata /\ KeysFit(b)
<1> SUFFICES \E b : Made(b)
  OBVIOUS
<1> USE DEF RPBuilderType
<1>1. ASSUME NEW v \in Version, AddSupportedVersion(v) PROVE \E b : Made(b)
  <2> DEFINE versions == IF v \in ToSet(rpBuilder.versions) THEN rpBuilder.versions
                         ELSE Append(rpBuilder.versions, v)
             b == [rpBuilder EXCEPT !.versions = versions]
  <2>1. versions \in Seq(Version)
    OBVIOUS
  <2>2. rpBuilder.versions # <<>> => versions # <<>> /\ Head(versions) = Head(rpBuilder.versions)
    OBVIOUS
  <2>3. \A w : Foreign(w) \subseteq MetadataKey \cup DefinitionKey
    BY DEF Foreign, MetadataKey, DefinitionKey
  <2> HIDE DEF versions
  <2>4. b.versions = versions /\ b.payload = rpBuilder.payload
    OBVIOUS
  <2>5. Barred(versions) \subseteq Barred(rpBuilder.versions)
    BY <2>2, <2>3 DEF Barred
  <2>6. KeysFit(b)
    BY <2>4, <2>5 DEF KeysFit
  <2>7. OnRP(b)
    BY <1>1 DEF AddSupportedVersion, versions
  <2>8. QED
    BY <2>1, <2>6, <2>7
<1>2. ASSUME NEW k \in Required, NEW targets \in Targeted, WithProperty(k, targets)
      PROVE  \E b : Made(b)
  <2> DEFINE payload == Assign(rpBuilder.payload, k, targets)
             b == [rpBuilder EXCEPT !.payload = payload]
  <2>1. /\ payload \in [Target -> SUBSET Key]
        /\ \A t \in Target : payload[t] \subseteq rpBuilder.payload[t] \cup {k}
    BY AssignFits DEF Targeted, Key
  <2>2. k \notin MetadataKey \cup DefinitionKey
    BY BuildersAssumption
  <2>3. \A w : Foreign(w) \subseteq MetadataKey \cup DefinitionKey
    BY DEF Foreign, MetadataKey, DefinitionKey
  <2> HIDE DEF payload
  <2>4. b.versions = rpBuilder.versions /\ b.payload = payload
    OBVIOUS
  <2>5. k \notin Barred(rpBuilder.versions)
    BY <2>2, <2>3 DEF Barred
  <2>6. KeysFit(b)
    BY <2>1, <2>4, <2>5 DEF KeysFit
  <2>7. OnRP(b)
    BY <1>2 DEF WithProperty, payload
  <2>8. QED
    BY <2>1, <2>6, <2>7
<1>3. ASSUME NEW o \in Options, WithOption(o) PROVE \E b : Made(b)
  <2> DEFINE b == [rpBuilder EXCEPT !.options = rpBuilder.options \cup {o}]
  <2>1. Made(b)
    BY <1>3 DEF WithOption, KeysFit
  <2>2. QED
    BY <2>1
<1>4. ASSUME WithCustomResolver PROVE \E b : Made(b)
  <2> DEFINE b == [rpBuilder EXCEPT !.custom = TRUE]
  <2>1. Made(b)
    BY <1>4 DEF WithCustomResolver, KeysFit
  <2>2. QED
    BY <2>1
<1>5. ASSUME NEW rs \in Seq(ResolverEntry), OnRP([rpBuilder EXCEPT !.resolvers = rs])
      PROVE  \E b : Made(b)
  <2> DEFINE b == [rpBuilder EXCEPT !.resolvers = rs]
  <2>1. Made(b)
    BY <1>5 DEF KeysFit
  <2>2. QED
    BY <2>1
<1>6. ASSUME NEW m \in Methods, AddResolver(m) PROVE \E b : Made(b)
  <2>1. addResolver(rpBuilder.resolvers, m, TRUE) \in Seq(ResolverEntry)
    BY ResolversType DEF MethodName
  <2>2. QED
    BY <1>5, <1>6, <2>1 DEF AddResolver
<1>7. ASSUME NEW m \in Methods \cup {"did"}, NEW opts \in BOOLEAN, AddDidMethod(m, opts)
      PROVE  \E b : Made(b)
  <2>1. addDidMethod(rpBuilder.resolvers, m, opts) \in Seq(ResolverEntry)
    BY DidMethodType DEF MethodName, NoMethods
  <2>2. QED
    BY <1>5, <1>7, <2>1 DEF AddDidMethod
<1>8. ASSUME NEW targets \in Targeted, WithPresentationDefinition(targets)
      PROVE  \E b : Made(b)
  <2> DEFINE k == IF Head(rpBuilder.versions) < 110 THEN "claims" ELSE "presentation_definition"
             payload == IF Head(rpBuilder.versions) < 110
                        THEN [t \in Target |-> IF t \in targets THEN rpBuilder.payload[t] \cup {"claims"}
                                               ELSE rpBuilder.payload[t]]
                        ELSE Assign(rpBuilder.payload, "presentation_definition", targets)
             b == [rpBuilder EXCEPT !.payload = payload]
  <2>1. /\ payload \in [Target -> SUBSET Key]
        /\ \A t \in Target : payload[t] \subseteq rpBuilder.payload[t] \cup {k}
    <3>1. "claims" \in Key /\ "presentation_definition" \in Key
      BY DEF Key, DefinitionKey
    <3>2. CASE Head(rpBuilder.versions) < 110
      BY <3>1, <3>2
    <3>3. CASE ~(Head(rpBuilder.versions) < 110)
      BY <3>1, <3>3, AssignFits DEF Targeted
    <3>4. QED
      BY <3>2, <3>3
  <2>2. k \notin Barred(rpBuilder.versions)
    BY <1>8 DEF Foreign, Barred, WithPresentationDefinition
  <2>3. OnRP(b)
    BY <1>8 DEF WithPresentationDefinition, getSupportedRequestVersion
  <2> HIDE DEF payload, k
  <2>4. b.versions = rpBuilder.versions /\ b.payload = payload
    OBVIOUS
  <2>5. KeysFit(b)
    BY <2>1, <2>2, <2>4 DEF KeysFit
  <2>6. QED
    BY <2>1, <2>3, <2>5
<1>9. QED
  BY <1>1, <1>2, <1>3, <1>4, <1>6, <1>7, <1>8 DEF RPSetter

LEMMA OPSetterMakesBuilder ==
  ASSUME opBuilder \in OPBuilderType, OPSetter
  PROVE  \E b \in OPBuilderType : OnOP(b)
<1> USE DEF OPBuilderType
<1>1. CASE OPWithCustomResolver
  BY <1>1 DEF OPWithCustomResolver
<1>2. ASSUME NEW m \in Methods, OPAddResolver(m) PROVE \E b \in OPBuilderType : OnOP(b)
  <2>1. addResolver(opBuilder.resolvers, m, TRUE) \in Seq(ResolverEntry)
    BY ResolversType DEF MethodName
  <2>2. QED
    BY <1>2, <2>1 DEF OPAddResolver
<1>3. ASSUME NEW m \in Methods \cup {"did"}, NEW opts \in BOOLEAN, OPAddDidMethod(m, opts)
      PROVE  \E b \in OPBuilderType : OnOP(b)
  <2>1. addDidMethod(opBuilder.resolvers, m, opts) \in Seq(ResolverEntry)
    BY DidMethodType DEF MethodName, NoMethods
  <2>2. QED
    BY <1>3, <2>1 DEF OPAddDidMethod
<1>4. CASE OPSignature
  BY <1>4 DEF OPSignature
<1>5. ASSUME NEW types \in TypeLists, OPRegistration(types)
      PROVE  \E b \in OPBuilderType : OnOP(b)
  BY <1>5, BuildersAssumption DEF OPRegistration
<1>6. QED
  BY <1>1, <1>2, <1>3, <1>4, <1>5 DEF OPSetter

(***************************************************************************)
(* The metadata are set under a key of the version, and the object is one  *)
(* the host has, or a new one.                                             *)
(***************************************************************************)
LEMMA ClientMetadataMakesBuilder ==
  ASSUME TypeOK, KeysFit(rpBuilder), NEW targets \in Targeted, WithClientMetadata(targets)
  PROVE  /\ rpBuilder' \in RPBuilderType /\ KeysFit(rpBuilder')
         /\ objects' \in Seq(Seq(SyntaxType)) /\ Len(objects') <= MaxObjects
         /\ rpBuilder'.metadata <= Len(objects') /\ Len(objects) <= Len(objects')
         /\ \A o \in DOMAIN objects : objects'[o] = objects[o]
<1> DEFINE k == MetadataKeyOf(rpBuilder)
           payload == Assign(rpBuilder.payload, k, targets)
<1>1. PICK o \in 1..MaxObjects, types \in TypeLists :
        /\ o \in DOMAIN objects \/ o = Len(objects) + 1
        /\ objects' = IF o \in DOMAIN objects THEN objects ELSE Append(objects, types)
        /\ rpBuilder' = [rpBuilder EXCEPT !.metadata = o, !.payload = payload]
  BY DEF WithClientMetadata
<1>2. k \in Key /\ k \notin Barred(rpBuilder.versions)
  BY DEF WithClientMetadata, MetadataKeyOf, getSupportedRequestVersion, Foreign, Barred, Key,
         MetadataKey
<1>3. /\ payload \in [Target -> SUBSET Key]
      /\ \A t \in Target : payload[t] \subseteq rpBuilder.payload[t] \cup {k}
  BY <1>2, AssignFits DEF TypeOK, Targeted
<1> HIDE DEF payload, k
<1>4. /\ rpBuilder'.versions = rpBuilder.versions /\ rpBuilder'.payload = payload
      /\ rpBuilder'.metadata = o /\ rpBuilder' \in RPBuilderType
  <2>1. rpBuilder \in RPBuilderType
    BY DEF TypeOK, RPBuilderType
  <2>2. o \in 0..MaxObjects
    BY BuildersAssumption
  <2>3. QED
    BY <1>1, <1>3, <2>1, <2>2 DEF RPBuilderType
<1>5. KeysFit(rpBuilder')
  BY <1>2, <1>3, <1>4 DEF KeysFit
<1>6. types \in Seq(SyntaxType) /\ objects \in Seq(Seq(SyntaxType)) /\ Len(objects) <= MaxObjects
  BY BuildersAssumption DEF TypeOK
<1>7. CASE o \in DOMAIN objects
  <2>1. objects' = objects /\ o <= Len(objects)
    BY <1>1, <1>6, <1>7
  <2>2. QED
    BY <1>4, <1>5, <1>6, <2>1
<1>8. CASE o \notin DOMAIN objects
  <2>1. objects' = Append(objects, types) /\ o = Len(objects) + 1
    BY <1>1, <1>8
  <2>2. QED
    BY <1>4, <1>5, <1>6, <2>1, AppendProperties
<1>9. QED
  BY <1>7, <1>8

-----------------------------------------------------------------------------

(***************************************************************************)
(* The builds.                                                             *)
(***************************************************************************)
LEMMA Appended ==
  ASSUME NEW S, NEW s \in Seq(S), NEW e \in S
  PROVE  /\ Append(s, e) \in Seq(S) /\ Append(s, e) # <<>> /\ Last(Append(s, e)) = e
         /\ \A i \in DOMAIN s : i \in DOMAIN Append(s, e) /\ Append(s, e)[i] = s[i]
         /\ \A i \in DOMAIN Append(s, e) :
              (i \in DOMAIN s /\ Append(s, e)[i] = s[i]) \/ Append(s, e)[i] = e
<1>1. /\ Append(s, e) \in Seq(S) /\ Len(Append(s, e)) = Len(s) + 1 /\ Len(s) \in Nat
      /\ \A i \in 1..Len(s) : Append(s, e)[i] = s[i]
      /\ Append(s, e)[Len(s) + 1] = e
      /\ DOMAIN s = 1..Len(s) /\ DOMAIN Append(s, e) = 1..Len(s) + 1
  BY AppendProperties
<1>2. Append(s, e) # <<>> /\ Last(Append(s, e)) = e
  BY <1>1 DEF Last
<1>3. \A i \in 1..Len(s) + 1 : i \in 1..Len(s) \/ i = Len(s) + 1
  BY <1>1
<1>4. \A i \in 1..Len(s) : i \in 1..Len(s) + 1
  BY <1>1
<1>5. QED
  BY <1>1, <1>2, <1>3, <1>4

LEMMA MergedFacts ==
  ASSUME NEW types \in Seq(SyntaxType), NEW rs \in Seq(ResolverEntry)
  PROVE  /\ MergedTypes(types, rs) \in Seq(SyntaxType)
         /\ ToSet(types) \subseteq ToSet(MergedTypes(types, rs))
         /\ Len(types) <= Len(MergedTypes(types, rs))
         /\ \A i \in 1..Len(types) : MergedTypes(types, rs)[i] = types[i]
         /\ Undefined \in ToSet(MergedTypes(types, rs)) => Undefined \in ToSet(types)
         /\ MergedTypes(MergedTypes(types, rs), rs) = MergedTypes(types, rs)
<1>1. CASE rs = <<>>
  BY <1>1 DEF MergedTypes
<1>2. CASE rs # <<>>
  BY <1>2, MergedList DEF MergedTypes
<1>3. QED
  BY <1>1, <1>2

\* The list of a builder's metadata object after a build, and the party built.
RPTypes == MergedTypes(objects[rpBuilder.metadata], rpBuilder.resolvers)

RPBuilt ==
  [version |-> getSupportedRequestVersion(rpBuilder), payload |-> rpBuilder.payload,
   metadata |-> rpBuilder.metadata, listed |-> RPTypes,
   configured |-> rpBuilder.resolvers, before |-> objects[rpBuilder.metadata],
   resolver |-> getResolverUnion(rpBuilder.custom, RPTypes, rpBuilder.resolvers)]

LEMMA BuiltRP ==
  ASSUME TypeOK, BuildRP
  PROVE  \/ outcome' = "failed" /\ UNCHANGED <<objects, rps>>
         \/ /\ outcome' = "rp" /\ RPOptionsValid(rpBuilder)
            /\ rpBuilder.metadata \in DOMAIN objects
            /\ RPTypes \in Seq(SyntaxType)
            /\ ToSet(objects[rpBuilder.metadata]) \subseteq ToSet(RPTypes)
            /\ Undefined \in ToSet(RPTypes) => Undefined \in ToSet(objects[rpBuilder.metadata])
            /\ RPBuilt \in RPType /\ ResolvesListed(RPBuilt)
            /\ rps' = Append(rps, RPBuilt)
            /\ objects' = [objects EXCEPT ![rpBuilder.metadata] = RPTypes]
<1>1. CASE ~(RPOptionsValid(rpBuilder) /\ rpBuilder.metadata # 0)
  BY <1>1 DEF BuildRP
<1>2. CASE RPOptionsValid(rpBuilder) /\ rpBuilder.metadata # 0
  <2>1. /\ outcome' = "rp" /\ rps' = Append(rps, RPBuilt)
        /\ objects' = [objects EXCEPT ![rpBuilder.metadata] = RPTypes]
    BY <1>2 DEF BuildRP, RPBuilt, RPTypes
  <2>2. rpBuilder.metadata \in DOMAIN objects /\ rpBuilder.metadata \in 1..MaxObjects
    BY <1>2 DEF TypeOK
  <2>3. objects[rpBuilder.metadata] \in Seq(SyntaxType)
    BY <2>2 DEF TypeOK
  <2>4. /\ RPTypes \in Seq(SyntaxType)
        /\ ToSet(objects[rpBuilder.metadata]) \subseteq ToSet(RPTypes)
        /\ Undefined \in ToSet(RPTypes) => Undefined \in ToSet(objects[rpBuilder.metadata])
    BY <2>3, MergedFacts DEF TypeOK, RPTypes
  <2>5. /\ rpBuilder.payload \in [Target -> SUBSET Key] /\ rpBuilder.versions \in Seq(Version)
        /\ rpBuilder.custom \in BOOLEAN /\ rpBuilder.resolvers \in Seq(ResolverEntry)
    BY DEF TypeOK
  <2>6. getSupportedRequestVersion(rpBuilder) \in Version
    BY <1>2, <2>5 DEF RPOptionsValid, getSupportedRequestVersion
  <2>7. LET r == getResolverUnion(rpBuilder.custom, RPTypes, rpBuilder.resolvers) IN
        /\ r \in Resolver
        /\ r.kind # "custom" =>
             \A m \in MethodName :
               ResolvedBy(r, m) # "nobody" => Did \in ToSet(RPTypes) \/ OfMethod(m) \in ToSet(RPTypes)
    BY <2>4, <2>5, ResolverFitsList
  <2>8. RPBuilt \in RPType
    BY <2>2, <2>3, <2>4, <2>5, <2>6, <2>7 DEF RPBuilt, RPType
  <2>9. ResolvesListed(RPBuilt)
    BY <2>7 DEF ResolvesListed, RPBuilt, Covers
  <2>10. QED
    BY <1>2, <2>1, <2>2, <2>4, <2>8, <2>9
<1>3. QED
  BY <1>1, <1>2

OPResponse == IF opBuilder.types = <<Undefined>> THEN opBuilder.types
              ELSE MergedTypes(opBuilder.types, opBuilder.resolvers)
OPVerify   == MergedTypes(OPResponse, opBuilder.resolvers)

OPBuilt ==
  [announces |-> OPResponse, listed |-> OPVerify, configured |-> opBuilder.resolvers,
   before |-> opBuilder.types,
   resolver |-> getResolverUnion(opBuilder.custom, OPVerify, opBuilder.resolvers)]

LEMMA OPLists ==
  ASSUME TypeOK
  PROVE  /\ OPResponse \in Seq(SyntaxType) /\ OPVerify \in Seq(SyntaxType)
         /\ OPResponse # <<Undefined>> => OPVerify = OPResponse
         /\ Undefined \notin ToSet(opBuilder.types) =>
              Undefined \notin ToSet(OPResponse) /\ Undefined \notin ToSet(OPVerify)
<1>1. opBuilder.types \in Seq(SyntaxType) /\ opBuilder.resolvers \in Seq(ResolverEntry)
  BY DEF TypeOK
<1>2. CASE opBuilder.types = <<Undefined>>
  <2>1. Undefined \in ToSet(opBuilder.types)
    <3>1. ToSet(<<Undefined>>) = {Undefined}
      BY <1>1, EmptySet
    <3>2. QED
      BY <1>2, <3>1
  <2>2. OPResponse = opBuilder.types
    BY <1>2 DEF OPResponse
  <2>3. OPVerify \in Seq(SyntaxType)
    BY <1>1, <2>2, MergedFacts DEF OPVerify
  <2>4. QED
    BY <1>1, <1>2, <2>1, <2>2, <2>3
<1>3. CASE opBuilder.types # <<Undefined>>
  <2>1. OPResponse = MergedTypes(opBuilder.types, opBuilder.resolvers)
    BY <1>3 DEF OPResponse
  <2>2. OPResponse \in Seq(SyntaxType) /\ OPVerify = OPResponse
        /\ (Undefined \in ToSet(OPResponse) => Undefined \in ToSet(opBuilder.types))
    BY <1>1, <2>1, MergedFacts DEF OPVerify
  <2>3. QED
    BY <2>2
<1>4. QED
  BY <1>2, <1>3

LEMMA BuiltOP ==
  ASSUME TypeOK, BuildOP
  PROVE  /\ opBuilder' \in OPBuilderType
         /\ \/ outcome' = "failed" /\ UNCHANGED ops
            \/ /\ outcome' = "op" /\ OPOptionsValid(opBuilder, OPResponse)
               /\ opBuilder' = [opBuilder EXCEPT !.types = OPVerify]
               /\ OPBuilt \in OPType /\ ResolvesListed(OPBuilt)
               /\ ops' = Append(ops, OPBuilt)
<1>1. opBuilder \in OPBuilderType
  BY DEF TypeOK, OPBuilderType
<1>2. OPResponse \in Seq(SyntaxType) /\ OPVerify \in Seq(SyntaxType)
  BY OPLists
<1>3. opBuilder' = [opBuilder EXCEPT !.types =
                      IF OPOptionsValid(opBuilder, OPResponse) THEN OPVerify ELSE OPResponse]
  BY DEF BuildOP, OPResponse, OPVerify
<1>4. opBuilder' \in OPBuilderType
  BY <1>1, <1>2, <1>3 DEF OPBuilderType
<1>5. CASE ~OPOptionsValid(opBuilder, OPResponse)
  <2>1. outcome' = "failed" /\ UNCHANGED ops
    BY <1>5 DEF BuildOP, OPResponse, OPVerify
  <2>2. QED
    BY <1>4, <2>1
<1>6. CASE OPOptionsValid(opBuilder, OPResponse)
  <2>1. outcome' = "op" /\ ops' = Append(ops, OPBuilt)
    BY <1>6 DEF BuildOP, OPResponse, OPVerify, OPBuilt
  <2>2. opBuilder' = [opBuilder EXCEPT !.types = OPVerify]
    BY <1>3, <1>6
  <2>3. /\ opBuilder.types \in Seq(SyntaxType) /\ opBuilder.custom \in BOOLEAN
        /\ opBuilder.resolvers \in Seq(ResolverEntry)
    BY <1>1 DEF OPBuilderType
  <2>4. LET r == getResolverUnion(opBuilder.custom, OPVerify, opBuilder.resolvers) IN
        /\ r \in Resolver
        /\ r.kind # "custom" =>
             \A m \in MethodName :
               ResolvedBy(r, m) # "nobody" => Did \in ToSet(OPVerify) \/ OfMethod(m) \in ToSet(OPVerify)
    BY <1>2, <2>3, ResolverFitsList
  <2>5. OPBuilt \in OPType
    BY <1>2, <2>3, <2>4 DEF OPBuilt, OPType
  <2>6. ResolvesListed(OPBuilt)
    BY <2>4 DEF ResolvesListed, OPBuilt, Covers
  <2>7. QED
    BY <1>4, <1>6, <2>1, <2>2, <2>5, <2>6
<1>7. QED
  BY <1>5, <1>6

(***************************************************************************)
(* The negotiations: both sides bring offers of the right type.            *)
(***************************************************************************)
LEMMA OffersNegotiated ==
  ASSUME TypeOK, RPNegotiates \/ OPNegotiates
  PROVE  /\ agreement' \in [made : {TRUE}, rp : Offer, op : Offer,
                            result : {assertValidMetadata(agreement'.op, agreement'.rp)}]
         /\ UNCHANGED <<host, rpBuilder, opBuilder, objects, rps, ops, outcome, calls>>
<1>1. ASSUME NEW rp \in Offer, NEW op \in Offer, Agree(rp, op)
      PROVE  /\ agreement' \in [made : {TRUE}, rp : Offer, op : Offer,
                                result : {assertValidMetadata(agreement'.op, agreement'.rp)}]
             /\ UNCHANGED <<host, rpBuilder, opBuilder, objects, rps, ops, outcome, calls>>
  BY <1>1 DEF Agree
<1>2. OwnFormats \in Formats /\ \A peer \in Peers : peer \in Offer
  BY BuildersAssumption DEF Offer
<1>3. CASE RPNegotiates
  <2>1. PICK i \in DOMAIN rps, peer \in Peers :
          Agree([types |-> Announced(rps[i]), formats |-> OwnFormats], peer)
    BY <1>3 DEF RPNegotiates
  <2>2. rps[i].metadata \in DOMAIN objects
    <3>1. rps[i] \in RPType /\ rps[i].metadata <= Len(objects)
      BY DEF TypeOK
    <3>2. QED
      BY <3>1, BuildersAssumption DEF TypeOK, RPType
  <2>3. DefaultTypes \in Seq(SyntaxType)
    <3>1. OfMethod("web:") \in SyntaxType /\ OfMethod("ion:") \in SyntaxType
      BY DEF SyntaxType, MethodType, MethodName, NoMethods
    <3>2. QED
      BY <3>1 DEF DefaultTypes
  <2>4. Announced(rps[i]) \in Seq(SyntaxType)
    BY <2>2, <2>3 DEF Announced, TypeOK
  <2>5. [types |-> Announced(rps[i]), formats |-> OwnFormats] \in Offer
    BY <1>2, <2>4 DEF Offer
  <2>6. QED
    BY <1>1, <1>2, <2>1, <2>5
<1>4. CASE OPNegotiates
  <2>1. PICK i \in DOMAIN ops, peer \in Peers :
          Agree(peer, [types |-> ops[i].announces, formats |-> OwnFormats])
    BY <1>4 DEF OPNegotiates
  <2>2. ops[i].announces \in Seq(SyntaxType)
    <3>1. ops[i] \in OPType
      BY DEF TypeOK
    <3>2. QED
      BY <3>1 DEF OPType
  <2>3. [types |-> ops[i].announces, formats |-> OwnFormats] \in Offer
    BY <1>2, <2>2 DEF Offer
  <2>4. QED
    BY <1>1, <1>2, <2>1, <2>3
<1>5. QED
  BY <1>3, <1>4

LEMMA OfferedTypes ==
  ASSUME NEW rp \in Offer, NEW op \in Offer
  PROVE  assertValidMetadata(op, rp).ok \in BOOLEAN
<1> DEFINE credentials == supportedCredentialsFormats(rp.formats, op.formats)
           subjects == IF Undefined \in ToSet(rp.types) THEN Failed
                       ELSE IF verifySubjectSyntaxes(rp.types)
                       THEN supportedSubjectSyntaxTypes(rp.types, op.types)
                       ELSE [ok |-> TRUE, types |-> <<>>]
<1>1. assertValidMetadata(op, rp) =
        IF credentials.ok /\ subjects.ok
        THEN [ok |-> TRUE, types |-> subjects.types, formats |-> credentials.formats]
        ELSE Failed
  BY DEF assertValidMetadata
<1> HIDE DEF credentials, subjects
<1>2. QED
  BY <1>1 DEF Failed

-----------------------------------------------------------------------------

(***************************************************************************)
(* Type correctness, and the keys of requests.                             *)
(***************************************************************************)
LEMMA NextCases ==
  Next <=> \/ RPSetter \/ (\E targets \in Targeted : WithClientMetadata(targets)) \/ BuildRP
           \/ OPSetter \/ BuildOP \/ RPNegotiates \/ OPNegotiates
  BY Zenon DEF Next, RPSetter, OPSetter

CoreInv == TypeOK /\ KeysInv

LEMMA CoreInit == Init => CoreInv
<1> SUFFICES ASSUME Init PROVE CoreInv
  OBVIOUS
<1>1. PICK versions \in Seq(Version) : rpBuilder = NewRPBuilder(versions)
  <2>1. <<>> \in Seq(Version) /\ \A v \in Version : <<v>> \in Seq(Version)
    OBVIOUS
  <2>2. \E versions \in {<<>>} \cup {<<v>> : v \in Version} : rpBuilder = NewRPBuilder(versions)
    BY DEF Init
  <2>3. QED
    BY <2>1, <2>2
<1>2. rpBuilder \in RPBuilderType /\ KeysFit(rpBuilder)
  BY <1>1, BuildersAssumption DEF NewRPBuilder, RPBuilderType, KeysFit
<1>3. opBuilder \in OPBuilderType
  <2>1. <<Undefined>> \in Seq(SyntaxType)
    BY KindsDiffer
  <2>2. QED
    BY <2>1 DEF Init, NewOPBuilder, OPBuilderType
<1>4. rpBuilder.metadata = 0 /\ calls \in 0..MaxCalls
  BY <1>1, BuildersAssumption DEF NewRPBuilder, Init
<1>5. TypeOK
  BY <1>2, <1>3, <1>4, BuildersAssumption
  DEF Init, TypeOK, RPBuilderType, OPBuilderType, NoAgreement
<1>6. KeysMatchVersion
  BY DEF Init, KeysMatchVersion
<1>7. QED
  BY <1>2, <1>5, <1>6 DEF CoreInv, KeysInv

LEMMA CoreStep == CoreInv /\ [Next]_vars => CoreInv'
<1> SUFFICES ASSUME CoreInv, [Next]_vars PROVE CoreInv'
  OBVIOUS
<1>1. /\ rpBuilder \in RPBuilderType /\ opBuilder \in OPBuilderType
      /\ TypeOK /\ KeysFit(rpBuilder) /\ KeysMatchVersion
  BY DEF CoreInv, KeysInv, TypeOK, RPBuilderType, OPBuilderType
<1>2. ASSUME Call PROVE /\ calls' \in 0..MaxCalls /\ outcome' = "none" /\ host' \in {"rp", "op"}
                        /\ rps' = rps /\ ops' = ops /\ agreement' = NoAgreement
  BY <1>1, <1>2, BuildersAssumption DEF Call, TypeOK
<1>3. CASE RPSetter
  <2>1. PICK b \in RPBuilderType : OnRP(b) /\ b.metadata = rpBuilder.metadata /\ KeysFit(b)
    BY <1>1, <1>3, RPSetterMakesBuilder
  <2>2. rpBuilder' = b /\ opBuilder' = opBuilder /\ objects' = objects /\ Call
    BY <2>1 DEF OnRP
  <2>3. TypeOK'
    BY <1>1, <1>2, <2>1, <2>2 DEF TypeOK, RPBuilderType, NoAgreement
  <2>4. KeysInv'
    BY <1>1, <1>2, <2>1, <2>2 DEF KeysInv, KeysMatchVersion, KeysFit
  <2>5. QED
    BY <2>3, <2>4 DEF CoreInv
<1>4. ASSUME NEW targets \in Targeted, WithClientMetadata(targets) PROVE CoreInv'
  <2>1. /\ rpBuilder' \in RPBuilderType /\ KeysFit(rpBuilder')
        /\ objects' \in Seq(Seq(SyntaxType)) /\ Len(objects') <= MaxObjects
        /\ rpBuilder'.metadata <= Len(objects') /\ Len(objects) <= Len(objects')
    BY <1>1, <1>4, ClientMetadataMakesBuilder
  <2>2. opBuilder' = opBuilder /\ Call
    BY <1>4 DEF WithClientMetadata
  <2>3. \A i \in DOMAIN rps : rps[i].metadata <= Len(objects')
    <3> SUFFICES ASSUME NEW i \in DOMAIN rps PROVE rps[i].metadata <= Len(objects')
      OBVIOUS
    <3>1. rps[i].metadata \in Nat /\ rps[i].metadata <= Len(objects)
      <4>1. rps[i] \in RPType /\ rps[i].metadata <= Len(objects)
        BY <1>1 DEF TypeOK
      <4>2. QED
        BY <4>1, BuildersAssumption DEF RPType
    <3>2. Len(objects) \in Nat /\ Len(objects') \in Nat
      BY <1>1, <2>1 DEF TypeOK
    <3>3. QED
      BY <2>1, <3>1, <3>2
  <2>4. TypeOK'
    BY <1>1, <1>2, <2>1, <2>2, <2>3 DEF TypeOK, RPBuilderType, NoAgreement
  <2>5. KeysInv'
    BY <1>1, <1>2, <2>1, <2>2 DEF KeysInv, KeysMatchVersion, KeysFit
  <2>6. QED
    BY <2>4, <2>5 DEF CoreInv
<1>5. CASE BuildRP
  <2>1. /\ UNCHANGED <<host, rpBuilder, opBuilder, ops, calls>> /\ agreement' = NoAgreement
    BY <1>5 DEF BuildRP
  <2>2. CASE outcome' = "failed" /\ UNCHANGED <<objects, rps>>
    BY <1>1, <2>1, <2>2 DEF CoreInv, KeysInv, TypeOK, KeysMatchVersion, KeysFit, NoAgreement
  <2>3. CASE /\ outcome' = "rp" /\ rpBuilder.metadata \in DOMAIN objects
             /\ RPOptionsValid(rpBuilder)
             /\ RPTypes \in Seq(SyntaxType) /\ RPBuilt \in RPType
             /\ rps' = Append(rps, RPBuilt)
             /\ objects' = [objects EXCEPT ![rpBuilder.metadata] = RPTypes]
    <3>1. objects' \in Seq(Seq(SyntaxType)) /\ Len(objects') = Len(objects)
      BY <1>1, <2>3 DEF TypeOK
    <3>2. /\ rps' \in Seq(RPType)
          /\ \A i \in DOMAIN rps' : (i \in DOMAIN rps /\ rps'[i] = rps[i]) \/ rps'[i] = RPBuilt
      BY <1>1, <2>3, Appended DEF TypeOK
    <3>3. RPBuilt.metadata <= Len(objects)
      BY <1>1, <2>3 DEF RPBuilt, TypeOK
    <3>4. \A i \in DOMAIN rps' : rps'[i].metadata <= Len(objects')
      BY <1>1, <3>1, <3>2, <3>3 DEF TypeOK
    <3>5. TypeOK'
      BY <1>1, <2>1, <2>3, <3>1, <3>2, <3>4 DEF TypeOK, NoAgreement
    <3>6. \A t \in Target : RPBuilt.payload[t] \cap Foreign(RPBuilt.version) = {}
      BY <1>1, <2>3
      DEF RPBuilt, KeysFit, Barred, RPOptionsValid, getSupportedRequestVersion
    <3>7. \A i \in DOMAIN rps, t \in Target : rps[i].payload[t] \cap Foreign(rps[i].version) = {}
      BY <1>1 DEF KeysMatchVersion, Foreign
    <3>8. \A i \in DOMAIN rps', t \in Target : rps'[i].payload[t] \cap Foreign(rps'[i].version) = {}
      BY <3>2, <3>6, <3>7
    <3>9. KeysInv'
      BY <1>1, <2>1, <3>8 DEF KeysInv, KeysMatchVersion, KeysFit, Foreign
    <3>10. QED
      BY <3>5, <3>9 DEF CoreInv
  <2>4. QED
    BY <1>1, <1>5, <2>2, <2>3, BuiltRP
<1>6. CASE OPSetter
  <2>1. PICK b \in OPBuilderType : OnOP(b)
    BY <1>1, <1>6, OPSetterMakesBuilder
  <2>2. opBuilder' = b /\ rpBuilder' = rpBuilder /\ objects' = objects /\ Call
    BY <2>1 DEF OnOP
  <2>3. TypeOK'
    BY <1>1, <1>2, <2>1, <2>2 DEF TypeOK, OPBuilderType, NoAgreement
  <2>4. KeysInv'
    BY <1>1, <1>2, <2>2 DEF KeysInv, KeysMatchVersion, KeysFit
  <2>5. QED
    BY <2>3, <2>4 DEF CoreInv
<1>7. CASE BuildOP
  <2>1. UNCHANGED <<host, rpBuilder, objects, rps, calls>> /\ agreement' = NoAgreement
    BY <1>7 DEF BuildOP
  <2>2. /\ opBuilder' \in OPBuilderType /\ outcome' \in {"failed", "op"}
        /\ ops' = ops \/ (OPBuilt \in OPType /\ ops' = Append(ops, OPBuilt))
    BY <1>1, <1>7, BuiltOP
  <2>3. ops' \in Seq(OPType)
    <3>1. ops \in Seq(OPType)
      BY <1>1 DEF TypeOK
    <3>2. CASE OPBuilt \in OPType /\ ops' = Append(ops, OPBuilt)
      BY <3>1, <3>2, Appended
    <3>3. QED
      BY <2>2, <3>1, <3>2
  <2>4. TypeOK'
    BY <1>1, <2>1, <2>2, <2>3 DEF TypeOK, OPBuilderType, NoAgreement
  <2>5. KeysInv'
    BY <1>1, <2>1 DEF KeysInv, KeysMatchVersion, KeysFit
  <2>6. QED
    BY <2>4, <2>5 DEF CoreInv
<1>8. CASE RPNegotiates \/ OPNegotiates
  <2>1. /\ agreement' \in [made : {TRUE}, rp : Offer, op : Offer,
                           result : {assertValidMetadata(agreement'.op, agreement'.rp)}]
        /\ UNCHANGED <<host, rpBuilder, opBuilder, objects, rps, ops, outcome, calls>>
    BY <1>1, <1>8, OffersNegotiated
  <2>2. agreement'.result.ok \in BOOLEAN
    BY <2>1, OfferedTypes
  <2>3. QED
    BY <1>1, <2>1, <2>2 DEF CoreInv, KeysInv, KeysMatchVersion, KeysFit, TypeOK
<1>9. CASE UNCHANGED vars
  BY <1>1, <1>9 DEF CoreInv, KeysInv, KeysMatchVersion, KeysFit, TypeOK, vars
<1>10. QED
  BY <1>3, <1>4, <1>5, <1>6, <1>7, <1>8, <1>9, NextCases

LEMMA CoreInvariance == Spec => []CoreInv
  BY CoreInit, CoreStep, PTL DEF Spec

(***************************************************************************)
(* The types of the builders, of the parties built and of their metadata.  *)
(***************************************************************************)
THEOREM TypeCorrect == Spec => []TypeOK
<1>1. CoreInv => TypeOK
  BY DEF CoreInv
<1>2. QED
  BY <1>1, CoreInvariance, PTL

(***************************************************************************)
(* However often and in whatever order the setters of rp/Builder.ts are    *)
(* called, the keys in the requests of a relying party are those of the    *)
(* version of its requests.                                                *)
(***************************************************************************)
THEOREM KeysOfTheVersion == Spec => []KeysMatchVersion
<1>1. CoreInv => KeysMatchVersion
  BY DEF CoreInv, KeysInv
<1>2. QED
  BY <1>1, CoreInvariance, PTL

-----------------------------------------------------------------------------

(***************************************************************************)
(* A metadata object never loses a type, and parties stay what they are:   *)
(* of each kind there is at most one more, the one that a build made.      *)
(***************************************************************************)
ObjectsGrow ==
  \A o \in DOMAIN objects : o \in DOMAIN objects' /\ ToSet(objects[o]) \subseteq ToSet(objects'[o])

LEMMA StepGrows ==
  ASSUME CoreInv, [Next]_vars
  PROVE  /\ ObjectsGrow
         /\ rps' = rps \/ (RPBuilt \in RPType /\ rps' = Append(rps, RPBuilt) /\ BuildRP /\ outcome' = "rp")
         /\ ops' = ops \/ (OPBuilt \in OPType /\ ops' = Append(ops, OPBuilt) /\ BuildOP /\ outcome' = "op")
<1>1. TypeOK /\ KeysFit(rpBuilder)
  BY DEF CoreInv, KeysInv
<1>2. CASE RPSetter
  <2>1. \E b \in RPBuilderType : OnRP(b)
    BY <1>1, <1>2, RPSetterMakesBuilder DEF TypeOK, RPBuilderType
  <2>2. UNCHANGED <<objects, rps, ops>>
    BY <2>1 DEF OnRP, Call
  <2>3. QED
    BY <2>2 DEF ObjectsGrow
<1>3. ASSUME NEW targets \in Targeted, WithClientMetadata(targets)
      PROVE  ObjectsGrow /\ UNCHANGED <<rps, ops>>
  <2>1. /\ objects' \in Seq(Seq(SyntaxType)) /\ objects \in Seq(Seq(SyntaxType))
        /\ Len(objects) <= Len(objects')
        /\ \A o \in DOMAIN objects : objects'[o] = objects[o]
    BY <1>1, <1>3, ClientMetadataMakesBuilder DEF TypeOK
  <2>2. \A o \in DOMAIN objects : o \in DOMAIN objects'
    BY <2>1
  <2>3. QED
    BY <1>3, <2>1, <2>2 DEF WithClientMetadata, Call, ObjectsGrow
<1>4. CASE BuildRP
  <2>1. ops' = ops
    BY <1>4 DEF BuildRP
  <2>2. CASE UNCHANGED <<objects, rps>>
    BY <2>1, <2>2 DEF ObjectsGrow
  <2>3. CASE /\ ToSet(objects[rpBuilder.metadata]) \subseteq ToSet(RPTypes)
             /\ objects' = [objects EXCEPT ![rpBuilder.metadata] = RPTypes]
             /\ rps' = Append(rps, RPBuilt) /\ RPBuilt \in RPType /\ outcome' = "rp"
    <3>1. \A o \in DOMAIN objects : o \in DOMAIN objects'
                                     /\ objects'[o] = IF o = rpBuilder.metadata THEN RPTypes ELSE objects[o]
      BY <2>3
    <3>2. ObjectsGrow
      BY <2>3, <3>1 DEF ObjectsGrow
    <3>3. QED
      BY <1>4, <2>1, <2>3, <3>2
  <2>4. QED
    BY <1>1, <1>4, <2>1, <2>2, <2>3, BuiltRP
<1>5. CASE OPSetter
  <2>1. \E b \in OPBuilderType : OnOP(b)
    BY <1>1, <1>5, OPSetterMakesBuilder DEF TypeOK, OPBuilderType
  <2>2. UNCHANGED <<objects, rps, ops>>
    BY <2>1 DEF OnOP, Call
  <2>3. QED
    BY <2>2 DEF ObjectsGrow
<1>6. CASE BuildOP
  <2>1. UNCHANGED <<objects, rps>>
    BY <1>6 DEF BuildOP
  <2>2. QED
    BY <1>1, <1>6, <2>1, BuiltOP DEF ObjectsGrow
<1>7. CASE RPNegotiates \/ OPNegotiates
  <2>1. UNCHANGED <<objects, rps, ops>>
    BY <1>7 DEF RPNegotiates, OPNegotiates, Agree
  <2>2. QED
    BY <2>1 DEF ObjectsGrow
<1>8. CASE UNCHANGED vars
  BY <1>8 DEF vars, ObjectsGrow
<1>9. QED
  BY <1>2, <1>3, <1>4, <1>5, <1>6, <1>7, <1>8, NextCases

LEMMA ListedStep == CoreInv /\ ListedInv /\ [Next]_vars => ListedInv'
<1> SUFFICES ASSUME CoreInv, ListedInv, [Next]_vars PROVE ListedInv'
  OBVIOUS
<1>1. /\ ObjectsGrow
      /\ rps' = rps \/ (RPBuilt \in RPType /\ rps' = Append(rps, RPBuilt) /\ BuildRP /\ outcome' = "rp")
      /\ ops' = ops \/ (OPBuilt \in OPType /\ ops' = Append(ops, OPBuilt) /\ BuildOP /\ outcome' = "op")
  BY StepGrows
<1>2. TypeOK /\ rps \in Seq(RPType) /\ ops \in Seq(OPType)
  BY DEF CoreInv, TypeOK
<1>3. ASSUME NEW i \in DOMAIN rps
      PROVE  ResolvesListed(rps[i]) /\ ToSet(rps[i].listed) \subseteq ToSet(objects'[rps[i].metadata])
  <2>1. rps[i] \in RPType /\ rps[i].metadata <= Len(objects) /\ objects \in Seq(Seq(SyntaxType))
    BY <1>2 DEF TypeOK
  <2>2. rps[i].metadata \in DOMAIN objects
    BY <2>1, BuildersAssumption DEF RPType
  <2>3. QED
    BY <1>1, <2>2 DEF ListedInv, ObjectsGrow
<1>4. ASSUME NEW i \in DOMAIN rps'
      PROVE  ResolvesListed(rps'[i]) /\ ToSet(rps'[i].listed) \subseteq ToSet(objects'[rps'[i].metadata])
  <2>1. CASE rps' = rps
    BY <1>3, <2>1
  <2>2. CASE RPBuilt \in RPType /\ rps' = Append(rps, RPBuilt) /\ BuildRP /\ outcome' = "rp"
    <3>1. (i \in DOMAIN rps /\ rps'[i] = rps[i]) \/ rps'[i] = RPBuilt
      BY <1>2, <1>4, <2>2, Appended
    <3>2. /\ rpBuilder.metadata \in DOMAIN objects /\ ResolvesListed(RPBuilt)
          /\ objects' = [objects EXCEPT ![rpBuilder.metadata] = RPTypes]
      BY <1>2, <2>2, BuiltRP
    <3>3. RPBuilt.listed = RPTypes /\ RPBuilt.metadata = rpBuilder.metadata
      BY DEF RPBuilt
    <3>4. objects'[rpBuilder.metadata] = RPTypes
      BY <3>2
    <3>5. QED
      BY <1>3, <3>1, <3>2, <3>3, <3>4
  <2>3. QED
    BY <1>1, <2>1, <2>2
<1>5. ASSUME NEW i \in DOMAIN ops'
      PROVE  ResolvesListed(ops'[i]) /\ (ops'[i].announces # <<Undefined>> => ops'[i].listed = ops'[i].announces)
  <2>1. CASE ops' = ops
    BY <2>1 DEF ListedInv
  <2>2. CASE OPBuilt \in OPType /\ ops' = Append(ops, OPBuilt) /\ BuildOP /\ outcome' = "op"
    <3>1. (i \in DOMAIN ops /\ ops'[i] = ops[i]) \/ ops'[i] = OPBuilt
      BY <1>2, <1>5, <2>2, Appended
    <3>2. ResolvesListed(OPBuilt)
      BY <1>2, <2>2, BuiltOP
    <3>3. OPBuilt.announces # <<Undefined>> => OPBuilt.listed = OPBuilt.announces
      BY <1>2, OPLists DEF OPBuilt
    <3>4. QED
      BY <3>1, <3>2, <3>3 DEF ListedInv
  <2>3. QED
    BY <1>1, <2>1, <2>2
<1>6. QED
  BY <1>4, <1>5 DEF ListedInv, ResolvesListed, Covers

LEMMA RebuildStep == CoreInv /\ RebuildInv /\ [Next]_vars => RebuildInv'
<1> SUFFICES ASSUME CoreInv, RebuildInv, [Next]_vars PROVE RebuildInv'
  OBVIOUS
<1>1. TypeOK /\ rps \in Seq(RPType) /\ ops \in Seq(OPType) /\ KeysFit(rpBuilder)
  BY DEF CoreInv, KeysInv, TypeOK
<1>2. ASSUME outcome' \in {"none", "failed"} PROVE RebuildInv'
  BY <1>2 DEF RebuildInv
<1>3. CASE RPSetter
  <2>1. \E b \in RPBuilderType : OnRP(b)
    BY <1>1, <1>3, RPSetterMakesBuilder DEF TypeOK, RPBuilderType
  <2>2. QED
    BY <1>2, <2>1 DEF OnRP, Call
<1>4. ASSUME NEW targets \in Targeted, WithClientMetadata(targets) PROVE RebuildInv'
  BY <1>2, <1>4 DEF WithClientMetadata, Call
<1>5. CASE OPSetter
  <2>1. \E b \in OPBuilderType : OnOP(b)
    BY <1>1, <1>5, OPSetterMakesBuilder DEF TypeOK, OPBuilderType
  <2>2. QED
    BY <1>2, <2>1 DEF OnOP, Call
<1>6. CASE BuildRP
  <2>1. CASE outcome' = "failed"
    BY <1>2, <2>1
  <2>2. CASE /\ outcome' = "rp" /\ RPOptionsValid(rpBuilder)
             /\ rpBuilder.metadata \in DOMAIN objects
             /\ Undefined \in ToSet(RPTypes) => Undefined \in ToSet(objects[rpBuilder.metadata])
             /\ RPBuilt \in RPType
             /\ rps' = Append(rps, RPBuilt)
             /\ objects' = [objects EXCEPT ![rpBuilder.metadata] = RPTypes]
    <3>1. rps' # <<>> /\ Last(rps') = RPBuilt
      BY <1>1, <2>2, Appended
    <3>2. rpBuilder' = rpBuilder
      BY <1>6 DEF BuildRP
    <3>3. rpBuilder.metadata # 0
      BY <1>1, <2>2 DEF TypeOK
    <3>4. RPBuilt.before = objects[rpBuilder.metadata]
      BY DEF RPBuilt
    <3>5. objects'[rpBuilder.metadata] = RPTypes
      BY <2>2
    <3>6. /\ rpBuilder.versions # <<>> /\ ValidRequestObject(rpBuilder)
          /\ objects[rpBuilder.metadata] # <<Undefined>> =>
               Undefined \notin ToSet(objects[rpBuilder.metadata])
      BY <2>2, <3>3 DEF RPOptionsValid, ValidTypes
    <3>7. QED
      BY <2>2, <3>1, <3>2, <3>3, <3>4, <3>5, <3>6 DEF RebuildInv, ValidRequestObject
  <2>3. QED
    BY <1>1, <1>6, <2>1, <2>2, BuiltRP
<1>7. CASE BuildOP
  <2>1. CASE outcome' = "failed"
    BY <1>2, <2>1
  <2>2. CASE /\ outcome' = "op" /\ OPOptionsValid(opBuilder, OPResponse)
             /\ opBuilder' = [opBuilder EXCEPT !.types = OPVerify]
             /\ OPBuilt \in OPType
             /\ ops' = Append(ops, OPBuilt)
    <3>1. ops' # <<>> /\ Last(ops') = OPBuilt /\ OPBuilt.before = opBuilder.types
      BY <1>1, <2>2, Appended DEF OPBuilt
    <3>2. /\ opBuilder'.registered = opBuilder.registered /\ opBuilder'.types = OPVerify
          /\ opBuilder'.signature = opBuilder.signature
      BY <1>1, <2>2 DEF TypeOK
    <3>3. opBuilder.registered /\ opBuilder.signature /\ ValidTypes(OPResponse)
      BY <2>2 DEF OPOptionsValid
    <3>4. ASSUME opBuilder.types # <<Undefined>> PROVE Undefined \notin ToSet(OPVerify)
      <4>1. OPResponse = MergedTypes(opBuilder.types, opBuilder.resolvers)
        BY <3>4 DEF OPResponse
      <4>2. opBuilder.types \in Seq(SyntaxType) /\ opBuilder.resolvers \in Seq(ResolverEntry)
        BY <1>1 DEF TypeOK
      <4>3. OPVerify = OPResponse /\ ToSet(opBuilder.types) \subseteq ToSet(OPResponse)
            /\ (Undefined \in ToSet(OPResponse) => Undefined \in ToSet(opBuilder.types))
        BY <4>1, <4>2, MergedFacts DEF OPVerify
      <4>6. /\ Len(opBuilder.types) <= Len(OPResponse)
            /\ \A i \in 1..Len(opBuilder.types) : OPResponse[i] = opBuilder.types[i]
        BY <4>1, <4>2, MergedFacts
      <4>4. CASE OPResponse # <<Undefined>>
        BY <3>3, <4>3, <4>4 DEF ValidTypes
      <4>5. CASE OPResponse = <<Undefined>>
        <5>1. ToSet(OPResponse) = {Undefined} /\ Undefined \in ToSet(opBuilder.types)
          <6>1. ToSet(<<Undefined>>) = {Undefined}
            BY <4>2, EmptySet
          <6>2. QED
            BY <4>3, <4>5, <6>1
        <5>2. opBuilder.types # <<>>
          BY <4>2, <5>1, EmptySet
        <5>3. Len(opBuilder.types) = 1 /\ opBuilder.types[1] = Undefined
          BY <4>2, <4>5, <4>6, <5>2
        <5>4. opBuilder.types = <<Undefined>>
          BY <4>2, <5>3
        <5>5. QED
          BY <3>4, <5>4
      <4>7. QED
        BY <4>4, <4>5
    <3>5. QED
      BY <2>2, <3>1, <3>2, <3>3, <3>4 DEF RebuildInv
  <2>3. QED
    BY <1>1, <1>7, <2>1, <2>2, BuiltOP
<1>8. CASE RPNegotiates \/ OPNegotiates
  <2>1. UNCHANGED <<rpBuilder, opBuilder, objects, rps, ops, outcome>>
    BY <1>8 DEF RPNegotiates, OPNegotiates, Agree
  <2>2. QED
    BY <2>1 DEF RebuildInv, ValidRequestObject
<1>9. CASE UNCHANGED vars
  BY <1>9 DEF vars, RebuildInv, ValidRequestObject
<1>10. QED
  BY <1>3, <1>4, <1>5, <1>6, <1>7, <1>8, <1>9, NextCases

LEMMA AgreementStep == CoreInv /\ AgreementInv /\ [Next]_vars => AgreementInv'
<1> SUFFICES ASSUME CoreInv, AgreementInv, [Next]_vars PROVE AgreementInv'
  OBVIOUS
<1>1. TypeOK /\ rpBuilder \in RPBuilderType /\ opBuilder \in OPBuilderType /\ KeysFit(rpBuilder)
  BY DEF CoreInv, KeysInv, TypeOK, RPBuilderType, OPBuilderType
<1>2. ASSUME agreement' = NoAgreement PROVE AgreementInv'
  BY <1>2 DEF AgreementInv, NoAgreement
<1>3. CASE RPSetter
  <2>1. \E b \in RPBuilderType : OnRP(b)
    BY <1>1, <1>3, RPSetterMakesBuilder
  <2>2. QED
    BY <1>2, <2>1 DEF OnRP, Call
<1>4. ASSUME NEW targets \in Targeted, WithClientMetadata(targets) PROVE AgreementInv'
  BY <1>2, <1>4 DEF WithClientMetadata, Call
<1>5. CASE OPSetter
  <2>1. \E b \in OPBuilderType : OnOP(b)
    BY <1>1, <1>5, OPSetterMakesBuilder
  <2>2. QED
    BY <1>2, <2>1 DEF OnOP, Call
<1>6. CASE BuildRP \/ BuildOP
  BY <1>2, <1>6 DEF BuildRP, BuildOP
<1>7. CASE RPNegotiates \/ OPNegotiates
  BY <1>1, <1>7, OffersNegotiated DEF AgreementInv
<1>8. CASE UNCHANGED vars
  BY <1>8 DEF vars, AgreementInv
<1>9. QED
  BY <1>3, <1>4, <1>5, <1>6, <1>7, <1>8, NextCases

LEMMA InvInit == Init => IInv
<1> SUFFICES ASSUME Init PROVE IInv
  OBVIOUS
<1>1. CoreInv
  BY CoreInit
<1>2. ListedInv /\ RebuildInv /\ AgreementInv
  BY DEF Init, ListedInv, RebuildInv, AgreementInv, NoAgreement
<1>3. QED
  BY <1>1, <1>2 DEF CoreInv, IInv

LEMMA InvStep == IInv /\ [Next]_vars => IInv'
  BY CoreStep, ListedStep, RebuildStep, AgreementStep DEF IInv, CoreInv

LEMMA Invariance == Spec => []IInv
  BY InvInit, InvStep, PTL DEF Spec

-----------------------------------------------------------------------------

\* The list of a party is in its metadata object, undefined entries apart.
LEMMA ListedAnnounced ==
  ASSUME IInv, NEW i \in DOMAIN rps
  PROVE  ToSet(rps[i].listed) \ {Undefined} \subseteq ToSet(Announced(rps[i]))
<1>1. ToSet(rps[i].listed) \subseteq ToSet(objects[rps[i].metadata])
  BY DEF IInv, ListedInv
<1>2. CASE objects[rps[i].metadata] = <<Undefined>>
  <2>1. ToSet(<<Undefined>>) = {Undefined}
    BY DEF ToSet
  <2>2. QED
    BY <1>1, <1>2, <2>1
<1>3. CASE objects[rps[i].metadata] # <<Undefined>>
  BY <1>1, <1>3 DEF Announced
<1>4. QED
  BY <1>2, <1>3

(***************************************************************************)
(* The types in the verification options of a party (rp/Opts.ts:54-71) are *)
(* among those it announces, at any later time too.                        *)
(***************************************************************************)
THEOREM ListedTypesAreAnnounced == Spec => []ListedIsAnnounced
<1>1. IInv => ListedIsAnnounced
  BY ListedAnnounced DEF IInv, ListedInv, ListedIsAnnounced
<1>2. QED
  BY <1>1, Invariance, PTL

(***************************************************************************)
(* Without a resolver of the host's that takes over everything, a party    *)
(* resolves only DIDs of methods it announces.                             *)
(***************************************************************************)
THEOREM OnlyAnnouncedMethods == Spec => []OnlyAnnouncedIsResolved
<1>1. IInv => OnlyAnnouncedIsResolved
  <2> SUFFICES ASSUME IInv PROVE OnlyAnnouncedIsResolved
    OBVIOUS
  <2>1. ASSUME NEW i \in DOMAIN rps, rps[i].resolver.kind # "custom",
               NEW m \in MethodName, ResolvedBy(rps[i].resolver, m) # "nobody"
        PROVE  Covers(Announced(rps[i]), m)
    <3>1. Covers(rps[i].listed, m)
      BY <2>1 DEF IInv, ListedInv, ResolvesListed
    <3>2. Did # Undefined /\ OfMethod(m) # Undefined
      BY KindsDiffer DEF MethodType
    <3>3. QED
      BY <3>1, <3>2, ListedAnnounced DEF Covers
  <2>2. ASSUME NEW i \in DOMAIN ops, ops[i].announces # <<Undefined>>,
               ops[i].resolver.kind # "custom",
               NEW m \in MethodName, ResolvedBy(ops[i].resolver, m) # "nobody"
        PROVE  Covers(ops[i].announces, m)
    BY <2>2 DEF IInv, ListedInv, ResolvesListed
  <2>3. QED
    BY <2>1, <2>2 DEF OnlyAnnouncedIsResolved
<1>2. QED
  BY <1>1, Invariance, PTL

(***************************************************************************)
(* What a relying party has announced it goes on announcing.               *)
(***************************************************************************)
THEOREM NothingIsWithdrawn == Spec => AnnouncementsOnlyGrow
<1>1. CoreInv /\ [Next]_vars =>
        [\A i \in DOMAIN rps : Undefined \notin ToSet(objects[rps[i].metadata]) =>
           ToSet(Announced(rps[i])) \subseteq ToSet(Announced(rps[i])')]_vars
  <2> SUFFICES ASSUME CoreInv, [Next]_vars, NEW i \in DOMAIN rps,
                      Undefined \notin ToSet(objects[rps[i].metadata])
               PROVE  ToSet(Announced(rps[i])) \subseteq ToSet(Announced(rps[i])')
    OBVIOUS
  <2> DEFINE o == rps[i].metadata
  <2>1. rps \in Seq(RPType) /\ rps[i] \in RPType /\ o <= Len(objects)
        /\ objects \in Seq(Seq(SyntaxType))
    BY DEF CoreInv, TypeOK
  <2>2. o \in DOMAIN objects
    BY <2>1, BuildersAssumption DEF RPType
  <2>3. ToSet(objects[o]) \subseteq ToSet(objects'[o])
    BY <2>2, StepGrows DEF ObjectsGrow
  <2>4. rps'[i] = rps[i]
    BY <2>1, StepGrows, Appended
  <2>5. ToSet(<<Undefined>>) = {Undefined}
    BY DEF ToSet
  <2>6. Announced(rps[i]) = objects[o]
    BY <2>5 DEF Announced
  <2>7. Announced(rps[i])' = IF objects'[o] = <<Undefined>> THEN DefaultTypes ELSE objects'[o]
    BY <2>4 DEF Announced
  <2>8. CASE objects'[o] = <<Undefined>>
    <3>1. ToSet(objects[o]) = {}
      BY <2>3, <2>5, <2>8
    <3>2. QED
      BY <2>6, <3>1
  <2>9. CASE objects'[o] # <<Undefined>>
    BY <2>3, <2>6, <2>7, <2>9
  <2>10. QED
    BY <2>8, <2>9
<1>2. QED
  BY <1>1, CoreInvariance, PTL DEF Spec, AnnouncementsOnlyGrow

(***************************************************************************)
(* A builder that has built a party from a list of syntax types builds     *)
(* another one.                                                            *)
(***************************************************************************)
THEOREM BuildsAgain == Spec => RebuildSucceeds
<1>1. IInv /\ [Next]_vars =>
        [/\ outcome = "rp" /\ BuildRP /\ Last(rps).before # <<Undefined>> => outcome' = "rp"
         /\ outcome = "op" /\ BuildOP /\ Last(ops).before # <<Undefined>> => outcome' = "op"]_vars
  <2> SUFFICES ASSUME IInv
               PROVE  /\ outcome = "rp" /\ BuildRP /\ Last(rps).before # <<Undefined>> => outcome' = "rp"
                      /\ outcome = "op" /\ BuildOP /\ Last(ops).before # <<Undefined>> => outcome' = "op"
    OBVIOUS
  <2>1. ASSUME outcome = "rp", BuildRP, Last(rps).before # <<Undefined>> PROVE outcome' = "rp"
    <3>1. /\ rpBuilder.versions # <<>> /\ rpBuilder.metadata # 0 /\ ValidRequestObject(rpBuilder)
          /\ Undefined \notin ToSet(objects[rpBuilder.metadata])
      BY <2>1 DEF IInv, RebuildInv
    <3>2. RPOptionsValid(rpBuilder)
      BY <3>1 DEF RPOptionsValid, ValidTypes
    <3>3. QED
      BY <2>1, <3>1, <3>2 DEF BuildRP
  <2>2. ASSUME outcome = "op", BuildOP, Last(ops).before # <<Undefined>> PROVE outcome' = "op"
    <3>1. /\ opBuilder.registered /\ opBuilder.signature
          /\ Undefined \notin ToSet(opBuilder.types)
      BY <2>2 DEF IInv, RebuildInv
    <3>2. Undefined \notin ToSet(OPResponse)
      BY <3>1, OPLists DEF IInv
    <3>3. OPOptionsValid(opBuilder, OPResponse)
      BY <3>1, <3>2 DEF OPOptionsValid, ValidTypes
    <3>4. QED
      BY <2>2, <3>3 DEF BuildOP, OPResponse
  <2>3. QED
    BY <2>1, <2>2
<1>2. QED
  BY <1>1, Invariance, PTL DEF Spec, RebuildSucceeds

-----------------------------------------------------------------------------

(***************************************************************************)
(* The syntax types two parties agree upon: each is acceptable to both,    *)
(* and of well-formed lists none that is acceptable to both is overlooked. *)
(***************************************************************************)
LEMMA AcceptsMeaning ==
  ASSUME NEW types \in Seq(SyntaxType), NEW t \in SyntaxType
  PROVE  AcceptsType(types, t) <=> t \in ToSet(types) \/ (Did \in ToSet(types) /\ t \in MethodType)
  BY KindsDiffer DEF AcceptsType

LEMMA AgreedTypesAreShared ==
  ASSUME NEW rp \in Seq(SyntaxType), NEW op \in Seq(SyntaxType),
         supportedSubjectSyntaxTypes(rp, op).ok,
         NEW t \in ToSet(supportedSubjectSyntaxTypes(rp, op).types)
  PROVE  AcceptsType(rp, t) /\ AcceptsType(op, t)
<1> DEFINE agreed == supportedSubjectSyntaxTypes(rp, op)
           R == ToSet(rp)
           O == ToSet(op)
<1>1. R \subseteq SyntaxType /\ O \subseteq SyntaxType
  BY EmptySet
<1>2. \/ Did \in R \cap O /\ t = Did
      \/ Did \in R /\ t \in O \cap MethodType
      \/ Did \in O /\ t \in R \cap MethodType
      \/ t \in R \cap O
  <2> HIDE DEF R, O
  <2>1. CASE Did \in R \cap O
    <3>1. ToSet(agreed.types) = {Did}
      BY <2>1, AgreedTypes DEF R, O
    <3>2. QED
      BY <2>1, <3>1
  <2>2. CASE Did \in R \ O /\ Undefined \in O
    <3>1. agreed.ok = FALSE
      BY <2>2, AgreedTypes DEF R, O
    <3>2. QED
      BY <3>1
  <2>3. CASE Did \in R \ O /\ Undefined \notin O /\ O \cap MethodType # {}
    <3>1. ToSet(agreed.types) = O \cap MethodType
      BY <2>3, AgreedTypes DEF R, O
    <3>2. QED
      BY <2>3, <3>1
  <2>4. CASE Did \in O \ R /\ R \cap MethodType # {}
    <3>1. ToSet(agreed.types) = R \cap MethodType
      BY <2>4, AgreedTypes DEF R, O
    <3>2. QED
      BY <2>4, <3>1
  <2>5. CASE /\ ~(Did \in R \cap O)
             /\ ~(Did \in R \ O /\ Undefined \in O)
             /\ ~(Did \in R \ O /\ Undefined \notin O /\ O \cap MethodType # {})
             /\ ~(Did \in O \ R /\ R \cap MethodType # {})
    <3>1. IF R \cap O = {} THEN agreed.ok = FALSE
          ELSE ToSet(agreed.types) = IF R \cap O \cap MethodType # {}
                                     THEN R \cap O \cap MethodType ELSE R \cap O
      BY <2>5, AgreedTypes DEF R, O
    <3>2. R \cap O # {}
      BY <3>1
    <3>3. ToSet(agreed.types) \subseteq R \cap O
      BY <3>1, <3>2
    <3>4. QED
      BY <3>3
  <2>6. QED
    BY <2>1, <2>2, <2>3, <2>4, <2>5
<1>3. t \in SyntaxType
  BY <1>1, <1>2
<1>4. QED
  BY <1>2, <1>3, AcceptsMeaning

Shared(rp, op) == {t \in ToSet(rp) \cup ToSet(op) : AcceptsType(rp, t) /\ AcceptsType(op, t)}

LEMMA SharedTypesAreAgreed ==
  ASSUME NEW rp \in Seq(SyntaxType), NEW op \in Seq(SyntaxType),
         verifySubjectSyntaxes(rp), Undefined \notin ToSet(op),
         Shared(rp, op) # {}
  PROVE  LET agreed == supportedSubjectSyntaxTypes(rp, op)
             shared == Shared(rp, op)
         IN
         /\ agreed.ok
         /\ shared \ {Jwk} # {} =>
              ToSet(agreed.types) = IF Did \in shared THEN {Did} ELSE shared \ {Jwk}
<1> DEFINE agreed == supportedSubjectSyntaxTypes(rp, op)
           shared == Shared(rp, op)
           R == ToSet(rp)
           O == ToSet(op)
<1>1. R \subseteq SyntaxType /\ O \subseteq SyntaxType
  BY EmptySet
<1>2. R \subseteq {Did, Jwk} \cup MethodType
  BY <1>1, KindsDiffer DEF verifySubjectSyntaxes, SyntaxType, Other, Undefined
<1>3. \A t : t \in shared <=> /\ t \in R \cup O
                              /\ t \in R \/ (Did \in R /\ t \in MethodType)
                              /\ t \in O \/ (Did \in O /\ t \in MethodType)
  BY <1>1, AcceptsMeaning DEF Shared
<1>4. Did \notin MethodType /\ Jwk \notin MethodType /\ Did # Jwk
  BY KindsDiffer
<1> HIDE DEF R, O
<1>5. CASE Did \in R \cap O
  <2>1. agreed.ok = TRUE /\ ToSet(agreed.types) = {Did}
    BY <1>5, AgreedTypes DEF R, O
  <2>2. Did \in shared
    BY <1>3, <1>5
  <2>3. QED
    BY <2>1, <2>2
<1>6. CASE Did \in R \ O
  <2>1. CASE O \cap MethodType # {}
    <3>1. agreed.ok = TRUE /\ ToSet(agreed.types) = O \cap MethodType
      BY <1>6, <2>1, AgreedTypes DEF R, O
    <3>2. shared \ {Jwk} = O \cap MethodType /\ Did \notin shared
      BY <1>2, <1>3, <1>4, <1>6
    <3>3. QED
      BY <3>1, <3>2
  <2>2. CASE O \cap MethodType = {}
    <3>1. shared = R \cap O /\ shared \subseteq {Jwk}
      BY <1>2, <1>3, <1>4, <1>6, <2>2
    <3>2. R \cap O # {}
      BY <3>1
    <3>3. agreed.ok = TRUE
      BY <1>6, <2>2, <3>2, AgreedTypes DEF R, O
    <3>4. QED
      BY <3>1, <3>3
  <2>3. QED
    BY <2>1, <2>2
<1>7. CASE Did \in O \ R
  <2>1. CASE R \cap MethodType # {}
    <3>1. agreed.ok = TRUE /\ ToSet(agreed.types) = R \cap MethodType
      BY <1>7, <2>1, AgreedTypes DEF R, O
    <3>2. shared \ {Jwk} = R \cap MethodType /\ Did \notin shared
      BY <1>2, <1>3, <1>4, <1>7
    <3>3. QED
      BY <3>1, <3>2
  <2>2. CASE R \cap MethodType = {}
    <3>1. shared = R \cap O /\ shared \subseteq {Jwk}
      BY <1>2, <1>3, <1>4, <1>7, <2>2
    <3>2. R \cap O # {}
      BY <3>1
    <3>3. agreed.ok = TRUE
      BY <1>7, <2>2, <3>2, AgreedTypes DEF R, O
    <3>4. QED
      BY <3>1, <3>3
  <2>3. QED
    BY <2>1, <2>2
<1>8. CASE Did \notin R /\ Did \notin O
  <2>1. shared = R \cap O
    BY <1>3, <1>8
  <2>2. agreed.ok = TRUE
        /\ ToSet(agreed.types) = IF R \cap O \cap MethodType # {} THEN R \cap O \cap MethodType
                                 ELSE R \cap O
    BY <1>8, <2>1, AgreedTypes DEF R, O
  <2>3. shared \ {Jwk} = R \cap O \cap MethodType /\ Did \notin shared
    BY <1>2, <1>4, <1>8, <2>1
  <2>4. QED
    BY <2>2, <2>3
<1>9. QED
  BY <1>5, <1>6, <1>7, <1>8

(***************************************************************************)
(* An agreement: its types are acceptable to both sides, and it has        *)
(* formats, each with algorithms that both sides list for it.              *)
(***************************************************************************)
Supported(rp, op, result) ==
  /\ \A t \in ToSet(result.types) : AcceptsType(rp.types, t) /\ AcceptsType(op.types, t)
  /\ result.formats # << >>
  /\ \A f \in DOMAIN result.formats :
       /\ result.formats[f].algs # {}
       /\ \A side \in {rp.formats, op.formats} :
            /\ f \in DOMAIN side /\ side[f].key = result.formats[f].key
            /\ result.formats[f].algs \subseteq side[f].algs

LEMMA ResultIsSupported ==
  ASSUME NEW rp \in Offer, NEW op \in Offer, assertValidMetadata(op, rp).ok
  PROVE  Supported(rp, op, assertValidMetadata(op, rp))
<1> DEFINE credentials == supportedCredentialsFormats(rp.formats, op.formats)
           subjects == IF Undefined \in ToSet(rp.types) THEN Failed
                       ELSE IF verifySubjectSyntaxes(rp.types)
                       THEN supportedSubjectSyntaxTypes(rp.types, op.types)
                       ELSE [ok |-> TRUE, types |-> <<>>]
           result == assertValidMetadata(op, rp)
<1>1. result = IF credentials.ok /\ subjects.ok
               THEN [ok |-> TRUE, types |-> subjects.types, formats |-> credentials.formats]
               ELSE Failed
  BY DEF assertValidMetadata
<1>2. /\ rp.types \in Seq(SyntaxType) /\ rp.formats \in Formats
      /\ op.types \in Seq(SyntaxType) /\ op.formats \in Formats
  BY DEF Offer
<1>3. ToSet(<<>>) = {}
  BY DEF ToSet
<1>4. subjects.ok =>
        \A t \in ToSet(subjects.types) : AcceptsType(rp.types, t) /\ AcceptsType(op.types, t)
  <2>1. CASE Undefined \in ToSet(rp.types)
    BY <2>1 DEF Failed
  <2>2. CASE Undefined \notin ToSet(rp.types) /\ verifySubjectSyntaxes(rp.types)
    BY <1>2, <2>2, AgreedTypesAreShared
  <2>3. CASE Undefined \notin ToSet(rp.types) /\ ~verifySubjectSyntaxes(rp.types)
    BY <1>3, <2>3
  <2>4. QED
    BY <2>1, <2>2, <2>3
<1>5. credentials.ok =>
        /\ credentials.formats # << >>
        /\ \A f \in DOMAIN credentials.formats :
             /\ credentials.formats[f].algs # {}
             /\ \A side \in {rp.formats, op.formats} :
                  /\ f \in DOMAIN side /\ side[f].key = credentials.formats[f].key
                  /\ credentials.formats[f].algs \subseteq side[f].algs
  BY <1>2, AgreedFormats
<1> HIDE DEF credentials, subjects
<1>6. /\ credentials.ok /\ subjects.ok
      /\ result.types = subjects.types /\ result.formats = credentials.formats
  BY <1>1 DEF Failed
<1>7. QED
  BY <1>4, <1>5, <1>6 DEF Supported

(***************************************************************************)
(* Whatever two parties agree upon in assertValidMetadata is supported by  *)
(* both, whatever peers offer.                                             *)
(***************************************************************************)
THEOREM AgreementsAreShared == Spec => []AgreementIsShared
<1>1. IInv => AgreementIsShared
  <2> SUFFICES ASSUME IInv, agreement.made, agreement.result.ok PROVE AgreementIsShared
    BY DEF AgreementIsShared
  <2>1. /\ agreement.rp \in Offer /\ agreement.op \in Offer
        /\ agreement.result = assertValidMetadata(agreement.op, agreement.rp)
    BY DEF IInv, AgreementInv
  <2>2. Supported(agreement.rp, agreement.op, agreement.result)
    BY <2>1, ResultIsSupported
  <2>3. QED
    BY <2>2 DEF AgreementIsShared, Supported
<1>2. QED
  BY <1>1, Invariance, PTL

(***************************************************************************)
(* Syntax types that both parties could use are not overlooked, and DIDs   *)
(* are preferred to thumbprints.                                           *)
(***************************************************************************)
THEOREM SharedTypesAreFound == Spec => []NothingSharedIsOverlooked
<1>1. IInv => NothingSharedIsOverlooked
  <2> SUFFICES ASSUME IInv, agreement.made PROVE NothingSharedIsOverlooked
    BY DEF NothingSharedIsOverlooked
  <2>1. agreement.rp.types \in Seq(SyntaxType) /\ agreement.op.types \in Seq(SyntaxType)
    BY DEF IInv, AgreementInv, Offer
  <2>2. ASSUME verifySubjectSyntaxes(agreement.rp.types),
               Undefined \notin ToSet(agreement.op.types),
               Shared(agreement.rp.types, agreement.op.types) # {}
        PROVE  LET agreed == supportedSubjectSyntaxTypes(agreement.rp.types, agreement.op.types)
                   shared == Shared(agreement.rp.types, agreement.op.types)
               IN
               /\ agreed.ok
               /\ shared \ {Jwk} # {} =>
                    ToSet(agreed.types) = IF Did \in shared THEN {Did} ELSE shared \ {Jwk}
    BY <2>1, <2>2, SharedTypesAreAgreed
  <2>3. QED
    BY <2>2, Zenon DEF NothingSharedIsOverlooked, Shared
<1>2. QED
  BY <1>1, Invariance, PTL

=============================================================================
