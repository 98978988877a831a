----------------------- MODULE RequestExchange_proofs -----------------------
(***************************************************************************)
(* Proofs about RequestExchange and the check of linked domains, for any   *)
(* options of the parties and whatever the checker of domains reports.     *)
(***************************************************************************)
EXTENDS RequestExchange, Payloads_proofs

(***************************************************************************)
(* The recursion that gathers the messages of a result is defined, since   *)
(* it is up to any number of endpoints.                                    *)
(***************************************************************************)
Gather(r, f, n) ==
  IF n = 0 THEN Kept(<<r.message>>, Messages)
  ELSE f[n - 1] \o Kept(<<r.endpoints[n].message>> \o r.endpoints[n].resources, Messages)

LEMMA GatheringDefined ==
  ASSUME NEW r, NEW k \in Nat
  PROVE  \E f : f = [n \in 0..k |-> Gather(r, f, n)]
<1> DEFINE D == {j \in Nat : \E f : f = [n \in 0..j |-> Gather(r, f, n)]}
<1>1. 0 \in D
  <2> DEFINE f == [n \in 0..0 |-> Kept(<<r.message>>, Messages)]
  <2>1. f = [n \in 0..0 |-> Gather(r, f, n)]
    BY DEF Gather
  <2>2. QED
    BY <2>1
<1>2. ASSUME NEW j \in D PROVE j + 1 \in D
  <2>1. PICK f : f = [n \in 0..j |-> Gather(r, f, n)]
    OBVIOUS
  <2> DEFINE g == [n \in 0..j + 1 |-> IF n = j + 1 THEN Gather(r, f, j + 1) ELSE f[n]]
  <2>2. \A n \in 0..j : g[n] = f[n]
    OBVIOUS
  <2>3. ASSUME NEW n \in 0..j + 1 PROVE g[n] = Gather(r, g, n)
    <3>1. n # 0 => n - 1 \in 0..j
      OBVIOUS
    <3>2. Gather(r, g, n) = Gather(r, f, n)
      BY <2>2, <3>1 DEF Gather
    <3>3. n # j + 1 => n \in 0..j /\ f[n] = Gather(r, f, n)
      BY <2>1
    <3>4. QED
      BY <3>2, <3>3
  <2>4. g = [n \in 0..j + 1 |-> Gather(r, g, n)]
    BY <2>3
  <2>5. j + 1 \in Nat
    OBVIOUS
  <2> HIDE DEF g
  <2>6. QED
    BY <2>4, <2>5
<1>3. D = Nat
  BY <1>1, <1>2, SetInduction
<1>4. QED
  BY <1>3

LEMMA GatheringRecursion ==
  ASSUME NEW r, Len(r.endpoints) \in Nat
  PROVE  \E f : /\ f = [n \in 0..Len(r.endpoints) |-> Gather(r, f, n)]
                /\ getValidationErrorMessages(r) = f[Len(r.endpoints)]
<1> DEFINE f == CHOOSE g : g = [n \in 0..Len(r.endpoints) |-> Gather(r, g, n)]
<1>1. f = [n \in 0..Len(r.endpoints) |-> Gather(r, f, n)]
  BY GatheringDefined
<1>2. getValidationErrorMessages(r) = f[Len(r.endpoints)]
  BY DEF getValidationErrorMessages, Gather
<1> HIDE DEF f
<1>3. QED
  BY <1>1, <1>2

(***************************************************************************)
(* What they are: the messages of the result, of its endpoints and of      *)
(* their resources, wherever there is one.                                 *)
(***************************************************************************)
Said(r, n) ==
  {r.message} \cup UNION {{r.endpoints[i].message} \cup Elements(r.endpoints[i].resources) : i \in 1..n}

LEMMA ElementsOfConcatenation ==
  ASSUME NEW S, NEW s \in Seq(S), NEW t \in Seq(S)
  PROVE  s \o t \in Seq(S) /\ Elements(s \o t) = Elements(s) \cup Elements(t)
<1>1. /\ s \o t \in Seq(S) /\ Len(s \o t) = Len(s) + Len(t)
      /\ Len(s) \in Nat /\ Len(t) \in Nat
      /\ \A i \in 1..Len(s) : (s \o t)[i] = s[i]
      /\ \A i \in 1..Len(t) : (s \o t)[Len(s) + i] = t[i]
  OBVIOUS
<1>2. \A i \in 1..Len(s) + Len(t) : i \in 1..Len(s) \/ \E j \in 1..Len(t) : i = Len(s) + j
  <2> SUFFICES ASSUME NEW i \in 1..Len(s) + Len(t), i \notin 1..Len(s)
               PROVE  \E j \in 1..Len(t) : i = Len(s) + j
    OBVIOUS
  <2>1. i - Len(s) \in 1..Len(t) /\ i = Len(s) + (i - Len(s))
    BY <1>1
  <2>2. QED
    BY <2>1
<1>3. \A i \in 1..Len(t) : Len(s) + i \in 1..Len(s) + Len(t)
  BY <1>1
<1>4. \A i \in 1..Len(s) : i \in 1..Len(s) + Len(t)
  BY <1>1
<1>5. Elements(s \o t) \subseteq Elements(s) \cup Elements(t)
  BY <1>1, <1>2 DEF Elements
<1>6. Elements(s) \cup Elements(t) \subseteq Elements(s \o t)
  BY <1>1, <1>3, <1>4 DEF Elements
<1>7. QED
  BY <1>1, <1>5, <1>6

LEMMA MessagesGathered ==
  ASSUME NEW r, r.message \in Message, r.endpoints \in Seq(Endpoint)
  PROVE  /\ getValidationErrorMessages(r) \in Seq(Messages)
         /\ Elements(getValidationErrorMessages(r)) = Said(r, Len(r.endpoints)) \ {"none"}
<1> DEFINE es == r.endpoints
<1>1. /\ Len(es) \in Nat
      /\ \A i \in 1..Len(es) : es[i].message \in Message /\ es[i].resources \in Seq(Message)
  <2>1. \A q \in Seq(Endpoint) : Len(q) \in Nat /\ \A i \in 1..Len(q) : q[i] \in Endpoint
    OBVIOUS
  <2>2. \A e \in Endpoint : e.message \in Message /\ e.resources \in Seq(Message)
    BY DEF Endpoint
  <2>3. QED
    BY <2>1, <2>2
<1>2. PICK f : /\ f = [n \in 0..Len(es) |-> Gather(r, f, n)]
               /\ getValidationErrorMessages(r) = f[Len(es)]
  BY <1>1, GatheringRecursion
<1>3. ASSUME NEW s \in Seq(Message)
      PROVE  /\ Kept(s, Messages) \in Seq(Messages)
             /\ Elements(Kept(s, Messages)) = Elements(s) \ {"none"}
  <2>1. Message \cap Messages = Messages /\ Elements(s) \subseteq Message
    BY DEF Messages, Elements
  <2>2. Elements(s) \cap Messages = Elements(s) \ {"none"}
    BY <2>1 DEF Messages
  <2>3. QED
    BY <2>1, <2>2, KeptElements
<1>4. ASSUME NEW m \in Message
      PROVE  <<m>> \in Seq(Message) /\ Elements(<<m>>) = {m}
  BY DEF Elements
<1>5. ASSUME NEW m \in Message, NEW q \in Seq(Message)
      PROVE  /\ <<m>> \o q \in Seq(Message)
             /\ Elements(<<m>> \o q) = {m} \cup Elements(q)
  <2>1. PICK s : s = <<m>> /\ s \in Seq(Message) /\ Elements(s) = {m}
    BY <1>4
  <2>2. s \o q \in Seq(Message) /\ Elements(s \o q) = Elements(s) \cup Elements(q)
    BY <2>1, ElementsOfConcatenation
  <2>3. QED
    BY <2>1, <2>2
<1> DEFINE Good(n) == f[n] \in Seq(Messages) /\ Elements(f[n]) = Said(r, n) \ {"none"}
           G == {n \in Nat : n <= Len(es) => Good(n)}
<1>6. 0 \in G
  <2>1. f[0] = Kept(<<r.message>>, Messages)
    BY <1>1, <1>2 DEF Gather
  <2>2. Said(r, 0) = {r.message}
    BY DEF Said
  <2>3. Good(0)
    BY <1>3, <1>4, <2>1, <2>2
  <2>4. QED
    BY <2>3
<1>7. ASSUME NEW n \in G PROVE n + 1 \in G
  <2> SUFFICES ASSUME n + 1 <= Len(es) PROVE Good(n + 1)
    OBVIOUS
  <2> DEFINE e == es[n + 1]
             new == <<e.message>> \o e.resources
  <2>1. Good(n) /\ n + 1 \in 1..Len(es) /\ n \in Nat
    BY <1>1
  <2>2. e.message \in Message /\ e.resources \in Seq(Message)
    BY <1>1, <2>1
  <2>3. f[n + 1] = f[n] \o Kept(new, Messages)
    <3>1. n + 1 \in 0..Len(es) /\ n + 1 # 0 /\ (n + 1) - 1 = n
      BY <1>1, <2>1
    <3>2. f[n + 1] = Gather(r, f, n + 1)
      BY <1>2, <3>1
    <3>3. QED
      BY <3>1, <3>2 DEF Gather
  <2>4. new \in Seq(Message) /\ Elements(new) = {e.message} \cup Elements(e.resources)
    BY <1>5, <2>2
  <2>5. /\ Kept(new, Messages) \in Seq(Messages)
        /\ Elements(Kept(new, Messages)) = Elements(new) \ {"none"}
    BY <1>3, <2>4
  <2>6. /\ f[n + 1] \in Seq(Messages)
        /\ Elements(f[n + 1]) = Elements(f[n]) \cup Elements(Kept(new, Messages))
    BY <2>1, <2>3, <2>5, ElementsOfConcatenation
  <2>7. 1..n + 1 = 1..n \cup {n + 1}
    BY <2>1
  <2>8. Said(r, n + 1) = Said(r, n) \cup {e.message} \cup Elements(e.resources)
    BY <2>7 DEF Said
  <2>9. QED
    BY <2>1, <2>4, <2>5, <2>6, <2>8
<1>8. Len(es) \in G
  BY <1>1, <1>6, <1>7, SetInduction
<1>9. Good(Len(es))
  BY <1>1, <1>8
<1>10. QED
  BY <1>2, <1>9

(***************************************************************************)
(* A check is passed with a valid result, or, short of "always", with one  *)
(* of which all there is to be said is that nothing is linked.  The second *)
(* judgement, of the error the first one throws, lets nothing else pass.   *)
(***************************************************************************)
LEMMA AllAbsent ==
  ASSUME NEW r, r.message \in Message, r.endpoints \in Seq(Endpoint)
  PROVE  OnlyAbsent(getValidationErrorMessages(r)) <=>
           "absent" \in Said(r, Len(r.endpoints)) /\ "bad" \notin Said(r, Len(r.endpoints))
<1>1. PICK ms : ms = getValidationErrorMessages(r)
  OBVIOUS
<1>2. PICK said : said = Said(r, Len(r.endpoints))
  OBVIOUS
<1>3. ms \in Seq(Messages) /\ Elements(ms) = said \ {"none"}
  BY <1>1, <1>2, MessagesGathered
<1>4. /\ Len(ms) \in Nat /\ DOMAIN ms = 1..Len(ms)
      /\ \A i \in DOMAIN ms : ms[i] \in {"absent", "bad"}
      /\ ms = <<>> <=> Len(ms) = 0
  <2>1. Messages = {"absent", "bad"}
    BY DEF Messages, Message
  <2>2. QED
    BY <1>3, <2>1
<1>5. "absent" \in said <=> \E i \in DOMAIN ms : ms[i] = "absent"
  BY <1>3, <1>4 DEF Elements
<1>6. "bad" \in said <=> \E i \in DOMAIN ms : ms[i] = "bad"
  BY <1>3, <1>4 DEF Elements
<1>7. OnlyAbsent(ms) <=> "absent" \in said /\ "bad" \notin said
  <2>1. ms # <<>> <=> \E i \in DOMAIN ms : TRUE
    BY <1>4
  <2>2. QED
    BY <1>4, <1>5, <1>6, <2>1 DEF OnlyAbsent
<1>8. QED
  BY <1>1, <1>2, <1>7

LEMMA OneMessage ==
  ASSUME NEW m
  PROVE  OnlyAbsent(<<m>>) <=> m = "absent"
  BY DEF OnlyAbsent

LEMMA PassedCheck ==
  ASSUME NEW mode \in Modes, NEW r, DomainResult(r), Asked(mode), DomainAccepted(mode, r)
  PROVE  \/ r = Valid
         \/ /\ mode # "always" /\ r.is \in {"thrown", "invalid"}
            /\ SaysNothingIsLinked(r)
<1>1. Effective(mode) \in {"if_present", "always"} /\ (Effective(mode) = "always" <=> mode = "always")
  BY DEF Modes, Asked, Effective
<1>2. PICK m : m = Effective(mode)
  OBVIOUS
<1>3. validateLinkedDomainWithDid(m, r)
  BY <1>2 DEF DomainAccepted
<1>4. CASE r \in {Unresolved, Valid}
  <2>1. CASE r = Unresolved
    <3>1. r.is = "unresolved"
      BY <2>1 DEF Unresolved
    <3>2. QED
      BY <1>3, <3>1 DEF validateLinkedDomainWithDid
  <2>2. QED
    BY <1>4, <2>1
<1>5. CASE r.is = "thrown"
  <2>1. ~CaughtRefuses(m, r.message)
    BY <1>3, <1>5 DEF validateLinkedDomainWithDid
  <2>2. m # "always" /\ r.message = "absent"
    BY <1>1, <1>2, <2>1, OneMessage DEF CaughtRefuses, Refuses
  <2>3. QED
    BY <1>1, <1>2, <1>5, <2>2 DEF SaysNothingIsLinked
<1>6. CASE r.is = "invalid" /\ r.message \in Message /\ r.endpoints \in Seq(Endpoint)
  <2>1. PICK ms : ms = getValidationErrorMessages(r)
    OBVIOUS
  <2>2. ~(Refuses(m, ms) /\ CaughtRefuses(m, Objection(ms)))
    BY <1>3, <1>6, <2>1 DEF validateLinkedDomainWithDid
  <2>3. m # "always" /\ OnlyAbsent(ms)
    BY <1>1, <1>2, <2>2, OneMessage DEF CaughtRefuses, Refuses, Objection
  <2>4. "absent" \in Said(r, Len(r.endpoints)) /\ "bad" \notin Said(r, Len(r.endpoints))
    BY <1>6, <2>1, <2>3, AllAbsent
  <2>5. SaysNothingIsLinked(r)
    BY <1>6, <2>4 DEF SaysNothingIsLinked, Said, Elements
  <2>6. QED
    BY <1>1, <1>2, <1>6, <2>3, <2>5
<1>7. QED
  BY <1>4, <1>5, <1>6 DEF DomainResult

-----------------------------------------------------------------------------

(***************************************************************************)
(* Nobody goes on whose domains were to be checked and did not pass.  The  *)
(* invariant says of every check that it was asked for and passed, and     *)
(* counts the checks by stage; what is merged stays as it was read.        *)
(***************************************************************************)
BeforeReading == {"given", "built", "created", "signed", "sent"}

ChecksType ==
  /\ setting.modes \in [op: Modes, rp: Modes]
  /\ checks \in Seq([mode: Modes, result: DomainChecks])

ChecksPassed ==
  \A i \in DOMAIN checks :
    Asked(checks[i].mode) /\ DomainAccepted(checks[i].mode, checks[i].result)

OpChecks == IF DomainAsked(Merged) THEN 1 ELSE 0
RpChecks == IF setting.modes.rp = "never" THEN 0 ELSE 1

ChecksCounted ==
  /\ stage \in BeforeReading \cup {"read"} => Len(checks) = 0
  /\ stage = "verified" => Len(checks) = OpChecks
  /\ stage \in {"answering", "answered"} => Len(checks) = 2 * OpChecks
  /\ stage = "accepted" => Len(checks) = 2 * OpChecks + RpChecks

DomainInv == ChecksType /\ ChecksPassed /\ ChecksCounted

LEMMA OneMoreCheck ==
  ASSUME ChecksType, ChecksPassed, NEW mode \in Modes, NEW result \in DomainChecks,
         Asked(mode), DomainAccepted(mode, result),
         checks' = Append(checks, [mode |-> mode, result |-> result])
  PROVE  /\ checks' \in Seq([mode: Modes, result: DomainChecks])
         /\ ChecksPassed'
         /\ Len(checks') = Len(checks) + 1
<1> DEFINE check == [mode |-> mode, result |-> result]
<1>1. check \in [mode: Modes, result: DomainChecks]
  OBVIOUS
<1>2. /\ checks' \in Seq([mode: Modes, result: DomainChecks])
      /\ Len(checks') = Len(checks) + 1 /\ Len(checks) \in Nat
      /\ \A i \in 1..Len(checks) : checks'[i] = checks[i]
      /\ checks'[Len(checks) + 1] = check
  BY <1>1, AppendProperties DEF ChecksType
<1>3. ASSUME NEW i \in DOMAIN checks'
      PROVE  Asked(checks'[i].mode) /\ DomainAccepted(checks'[i].mode, checks'[i].result)
  <2>1. i \in 1..Len(checks) + 1
    BY <1>2
  <2>2. CASE i \in 1..Len(checks)
    BY <1>2, <2>2 DEF ChecksType, ChecksPassed
  <2>3. CASE i = Len(checks) + 1
    BY <1>2, <2>3
  <2>4. QED
    BY <1>2, <2>1, <2>2, <2>3
<1>4. QED
  BY <1>2, <1>3 DEF ChecksPassed

LEMMA DomainInit == Init => DomainInv
  BY SettingsAssumption
  DEF Init, DomainInv, ChecksType, ChecksPassed, ChecksCounted, BeforeReading

LEMMA DomainStep == DomainInv /\ [Next]_vars => DomainInv'
<1> SUFFICES ASSUME DomainInv, [Next]_vars PROVE DomainInv'
  OBVIOUS
<1> USE DEF DomainInv, Reach, Refuse, created, verified
<1>1. ASSUME UNCHANGED <<setting, checks>>,
             stage' = "refused" \/ {stage, stage'} \subseteq BeforeReading \cup {"read"}
      PROVE  DomainInv'
  BY <1>1 DEF ChecksType, ChecksPassed, ChecksCounted, BeforeReading
<1>2. CASE BuildParties \/ CreateRequest \/ SignRequest \/ \E d \in ServedDefs : SendRequest(d)
  BY <1>1, <1>2 DEF BuildParties, CreateRequest, SignRequest, SendRequest, BeforeReading
<1>3. ASSUME NEW served \in Served, ReadRequest(served)
      PROVE  DomainInv'
  BY <1>1, <1>3 DEF ReadRequest, BeforeReading
<1>4. CASE RefuseOptions \/ RefuseToCreate \/ RefuseToSign
  BY <1>1, <1>4 DEF RefuseOptions, RefuseToCreate, RefuseToSign
<1>5. ASSUME NEW d \in ServedDefs, RefuseToSend(d)
      PROVE  DomainInv'
  BY <1>1, <1>5 DEF RefuseToSend
<1>6. ASSUME NEW served \in Served, RefuseToRead(served)
      PROVE  DomainInv'
  BY <1>1, <1>6 DEF RefuseToRead
<1>7. ASSUME NEW served \in Served, NEW d \in ServedDefs, NEW result \in DomainChecks,
             RefuseToVerify(served, d, result)
      PROVE  DomainInv'
  BY <1>1, <1>7 DEF RefuseToVerify
<1>8. ASSUME NEW reachable \in BOOLEAN, NEW matching \in BOOLEAN,
             RefuseToAnswer(reachable, matching)
      PROVE  DomainInv'
  BY <1>1, <1>8 DEF RefuseToAnswer
<1>9. ASSUME NEW result \in DomainChecks, RefuseSubject(result)
      PROVE  DomainInv'
  BY <1>1, <1>9 DEF RefuseSubject
<1>10. ASSUME NEW served \in Served, NEW d \in ServedDefs, NEW result \in DomainChecks,
              VerifyRequest(served, d, result)
       PROVE  DomainInv'
  <2>1. /\ UNCHANGED <<setting, received, object>>
        /\ \/ stage = "read" /\ stage' = "verified"
           \/ stage = "verified" /\ stage' = "answering"
        /\ VerifyObstacle(served, d, result) = "none"
        /\ checks' = IF DomainAsked(Merged)
                       THEN Append(checks, [mode |-> setting.modes.op, result |-> result])
                       ELSE checks
    BY <1>10 DEF VerifyRequest, isInAnswer
  <2>2. DomainAsked(Merged)' = DomainAsked(Merged)
    BY <2>1 DEF DomainAsked, Merged
  <2>3. setting.modes.op \in Modes
    BY DEF ChecksType
  <2>4. CASE DomainAsked(Merged)
    <3>1. Asked(setting.modes.op) /\ DomainAccepted(setting.modes.op, result)
      BY <2>1, <2>4 DEF DomainAsked, VerifyObstacle
    <3>2. /\ checks' \in Seq([mode: Modes, result: DomainChecks])
          /\ ChecksPassed' /\ Len(checks') = Len(checks) + 1
      BY <2>1, <2>3, <2>4, <3>1, OneMoreCheck
    <3>3. QED
      BY <2>1, <2>2, <2>4, <3>2 DEF ChecksType, ChecksCounted, OpChecks, BeforeReading
  <2>5. CASE ~DomainAsked(Merged)
    BY <2>1, <2>2, <2>5 DEF ChecksType, ChecksPassed, ChecksCounted, OpChecks, BeforeReading
  <2>6. QED
    BY <2>4, <2>5
<1>11. ASSUME NEW reachable \in BOOLEAN, NEW matching \in BOOLEAN, Answer(reachable, matching)
       PROVE  DomainInv'
  <2>1. /\ UNCHANGED <<setting, received, object, checks>>
        /\ stage = "answering" /\ stage' = "answered"
    BY <1>11 DEF Answer
  <2>2. DomainAsked(Merged)' = DomainAsked(Merged)
    BY <2>1 DEF DomainAsked, Merged
  <2>3. QED
    BY <2>1, <2>2 DEF ChecksType, ChecksPassed, ChecksCounted, OpChecks, BeforeReading
<1>12. ASSUME NEW result \in DomainChecks, CheckSubject(result)
       PROVE  DomainInv'
  <2>1. /\ UNCHANGED <<setting, received, object>>
        /\ stage = "answered" /\ stage' = "accepted"
        /\ DomainAccepted(setting.modes.rp, result)
        /\ checks' = IF Asked(setting.modes.rp)
                       THEN Append(checks, [mode |-> setting.modes.rp, result |-> result])
                       ELSE checks
    BY <1>12 DEF CheckSubject
  <2>2. DomainAsked(Merged)' = DomainAsked(Merged)
    BY <2>1 DEF DomainAsked, Merged
  <2>3. setting.modes.rp \in Modes
    BY DEF ChecksType
  <2>4. CASE Asked(setting.modes.rp)
    <3>1. /\ checks' \in Seq([mode: Modes, result: DomainChecks])
          /\ ChecksPassed' /\ Len(checks') = Len(checks) + 1
      BY <2>1, <2>3, <2>4, OneMoreCheck
    <3>2. QED
      BY <2>1, <2>2, <2>4, <3>1
      DEF ChecksType, ChecksCounted, OpChecks, RpChecks, BeforeReading, Asked
  <2>5. CASE ~Asked(setting.modes.rp)
    <3>1. setting' = setting /\ checks' = checks
      BY <2>1, <2>5
    <3>2. ChecksType' /\ ChecksPassed'
      BY <3>1 DEF ChecksType, ChecksPassed
    <3>3. RpChecks' = 0 /\ OpChecks' = OpChecks /\ OpChecks \in {0, 1}
      BY <2>2, <2>5, <3>1 DEF RpChecks, OpChecks, Asked
    <3>4. Len(checks) = 2 * OpChecks
      BY <2>1 DEF ChecksCounted
    <3>5. ChecksCounted'
      BY <2>1, <3>1, <3>3, <3>4 DEF ChecksCounted, BeforeReading
    <3>6. QED
      BY <3>2, <3>5
  <2>6. QED
    BY <2>4, <2>5
<1>13. CASE UNCHANGED vars
  BY <1>13 DEF vars, ChecksType, ChecksPassed, ChecksCounted, OpChecks, RpChecks,
               DomainAsked, Merged
<1>14. QED
  BY <1>2, <1>3, <1>4, <1>5, <1>6, <1>7, <1>8, <1>9, <1>10, <1>11, <1>12, <1>13 DEF Next

THEOREM CheckedAsDemanded == Spec => []DomainAsDemanded
<1>1. DomainInv => DomainAsDemanded
  <2> SUFFICES ASSUME DomainInv PROVE DomainAsDemanded
    OBVIOUS
  <2>1. ASSUME NEW i \in DOMAIN checks
        PROVE  \/ checks[i].result = Valid
               \/ /\ checks[i].mode # "always" /\ checks[i].result.is \in {"thrown", "invalid"}
                  /\ SaysNothingIsLinked(checks[i].result)
    <3>1. checks[i].mode \in Modes /\ checks[i].result \in DomainChecks
      <4>1. checks \in Seq([mode: Modes, result: DomainChecks])
        BY DEF DomainInv, ChecksType
      <4>2. \A S : \A q \in Seq(S) : \A k \in DOMAIN q : q[k] \in S
        OBVIOUS
      <4>3. checks[i] \in [mode: Modes, result: DomainChecks]
        BY <4>1, <4>2
      <4>4. QED
        BY <4>3
    <3>2. Asked(checks[i].mode) /\ DomainAccepted(checks[i].mode, checks[i].result)
      BY DEF DomainInv, ChecksPassed
    <3>3. DomainResult(checks[i].result)
      BY <3>1, DomainChecksAssumption
    <3>4. QED
      BY <3>1, <3>2, <3>3, PassedCheck
  <2>2. stage = "accepted" =>
          Len(checks) = (IF DomainAsked(Merged) THEN 2 ELSE 0)
                          + (IF setting.modes.rp = "never" THEN 0 ELSE 1)
    BY DEF DomainInv, ChecksCounted, OpChecks, RpChecks
  <2>3. QED
    BY <2>1, <2>2 DEF DomainAsDemanded
<1>2. QED
  BY <1>1, DomainInit, DomainStep, PTL DEF Spec

-----------------------------------------------------------------------------

(***************************************************************************)
(* Type correctness.  Whatever the options are, both payloads are objects, *)
(* and what is read from a query holds texts and objects only.             *)
(***************************************************************************)
LEMMA PayloadsAreObjects ==
  ASSUME NEW o
  PROVE  /\ IsObject(createRequestObjectPayload(o)) \/ createRequestObjectPayload(o) = Undef
         /\ IsObject(createAuthorizationRequestPayload(o))
              \/ createAuthorizationRequestPayload(o) = Undef
         /\ \A payload, did : IsObject(Signed(payload, did))
         /\ IsObject(Query(o))
<1>1. \A v, w : IsObject(Spread(v, w))
  BY DEF IsObject, Spread, Object
<1>2. \A v : IsObject(encodeJsonAsURI(v))
  BY DEF IsObject, encodeJsonAsURI, Object
<1>3. IsObject(createRequestObjectPayload(o)) \/ createRequestObjectPayload(o) = Undef
  BY <1>1 DEF createRequestObjectPayload
<1>4. IsObject(createAuthorizationRequestPayload(o))
        \/ createAuthorizationRequestPayload(o) = Undef
  BY <1>1 DEF createAuthorizationRequestPayload
<1>5. \A payload, did : IsObject(Signed(payload, did))
  BY <1>1 DEF Signed
<1>6. IsObject(Query(o))
  BY <1>2 DEF Query
<1>7. QED
  BY <1>3, <1>4, <1>5, <1>6

LEMMA VersionsType ==
  ASSUME NEW m
  PROVE  authorizationRequestVersionDiscovery(m) \in Seq({70, 71, 110})
<1> DEFINE draft11 == IF AuthorizationRequestPayloadVD11(m) /\ WithoutDraft1(m) THEN <<110>> ELSE <<>>
           profile == IF AuthorizationRequestPayloadVID1(m) /\ WithoutDraft1(m) THEN <<71>> ELSE <<>>
           draft1  == IF AuthorizationRequestPayloadVID1(m) /\ WithoutDraft11(m) THEN <<70>> ELSE <<>>
<1>1. /\ draft11 \in Seq({70, 71, 110})
      /\ profile \in Seq({70, 71, 110})
      /\ draft1 \in Seq({70, 71, 110})
  <2>1. /\ <<>> \in Seq({70, 71, 110}) /\ <<110>> \in Seq({70, 71, 110})
        /\ <<71>> \in Seq({70, 71, 110}) /\ <<70>> \in Seq({70, 71, 110})
    OBVIOUS
  <2>2. QED
    BY <2>1
<1>2. authorizationRequestVersionDiscovery(m) = draft11 \o profile \o draft1
  BY DEF authorizationRequestVersionDiscovery
<1> HIDE DEF draft11, profile, draft1
<1>3. draft11 \o profile \o draft1 \in Seq({70, 71, 110})
  BY <1>1
<1>4. QED
  BY <1>2, <1>3

LEMMA Obstacles ==
  /\ \A served, d, result : VerifyObstacle(served, d, result) \in Obstacle \cup {"none"}
  /\ \A reachable, matching : AnswerObstacle(reachable, matching) \in Obstacle \cup {"none"}
  BY DEF VerifyObstacle, AnswerObstacle, Obstacle

TypeInv == TypeOK /\ setting \in Settings

LEMMA TypeInit == Init => TypeInv
<1> SUFFICES ASSUME Init PROVE TypeInv
  OBVIOUS
<1>1. Keys(received) = {}
  BY DEF Init, Keys, Undef
<1>2. /\ versions \in Seq({70, 71, 110})
      /\ checks \in Seq([mode: Modes, result: DomainChecks])
  BY DEF Init
<1>3. /\ stage \in Stages /\ stage # "refused" /\ reason = "none"
      /\ object = Undef /\ outer = Undef /\ setting \in Settings /\ subject \in {"none", TextAt(op, "did")}
  <2>1. stage \in Stages /\ stage # "refused"
    BY DEF Init, Stages
  <2>2. QED
    BY <2>1 DEF Init
<1>4. QED
  BY <1>1, <1>2, <1>3 DEF TypeInv, TypeOK

LEMMA TypeStep == TypeInv /\ DomainInv' /\ [Next]_vars => TypeInv'
<1> SUFFICES ASSUME TypeInv, DomainInv', [Next]_vars PROVE TypeInv'
  OBVIOUS
<1> DEFINE ReceivedOK == \A k \in Keys(received) : IsString(received.at[k]) \/ IsObject(received.at[k])
<1>1. checks' \in Seq([mode: Modes, result: DomainChecks])
  BY DEF DomainInv, ChecksType
<1>2. ASSUME NEW r \in Obstacle, Refuse(r)
      PROVE  TypeInv'
  BY <1>1, <1>2 DEF Refuse, op, TypeInv, TypeOK, Stages, created, verified
<1>3. stage \in Stages /\ (stage # "refused" => reason = "none")
      /\ setting \in Settings /\ ReceivedOK
  BY DEF TypeInv, TypeOK
<1>4. ASSUME UNCHANGED <<setting, reason>>, stage # "refused", stage' \in Stages \ {"refused"},
             IsObject(object') \/ object' = Undef, IsObject(outer') \/ outer' = Undef,
             ReceivedOK', versions' \in Seq({70, 71, 110}), subject' \in {"none", TextAt(op, "did")}
      PROVE  TypeInv'
  BY <1>1, <1>3, <1>4 DEF op, TypeInv, TypeOK
<1>5. /\ IsObject(object) \/ object = Undef
      /\ IsObject(outer) \/ outer = Undef
      /\ versions \in Seq({70, 71, 110}) /\ subject \in {"none", TextAt(op, "did")}
  BY DEF TypeInv, TypeOK
<1>6. CASE BuildParties
  BY <1>3, <1>4, <1>5, <1>6 DEF BuildParties, Reach, created, verified, Stages
<1>7. CASE CreateRequest
  BY <1>3, <1>4, <1>5, <1>7, PayloadsAreObjects DEF CreateRequest, Reach, verified, Stages
<1>8. CASE SignRequest
  BY <1>3, <1>4, <1>5, <1>8, PayloadsAreObjects DEF SignRequest, Reach, verified, Stages
<1>9. ASSUME NEW d \in ServedDefs, SendRequest(d)
      PROVE  TypeInv'
  BY <1>3, <1>4, <1>5, <1>9, PayloadsAreObjects DEF SendRequest, Reach, verified, Stages
<1>10. ASSUME NEW served \in Served, ReadRequest(served)
       PROVE  TypeInv'
  <2>1. ReceivedOK'
    BY <1>10, QueryAsRead DEF ReadRequest
  <2>2. QED
    BY <1>3, <1>4, <1>5, <1>10, <2>1 DEF ReadRequest, Reach, created, verified, Stages
<1>11. ASSUME NEW served \in Served, NEW d \in ServedDefs, NEW result \in DomainChecks,
              VerifyRequest(served, d, result)
       PROVE  TypeInv'
  <2>1. versions' \in Seq({70, 71, 110})
    BY <1>11, VersionsType DEF VerifyRequest
  <2>2. QED
    BY <1>3, <1>4, <1>5, <1>11, <2>1 DEF VerifyRequest, Reach, created, Stages
<1>12. ASSUME NEW reachable \in BOOLEAN, NEW matching \in BOOLEAN, Answer(reachable, matching)
       PROVE  TypeInv'
  <2>1. subject' \in {"none", TextAt(op, "did")}
    BY <1>12 DEF Answer
  <2>2. QED
    BY <1>3, <1>4, <1>5, <1>12, <2>1 DEF Answer, Reach, created, verified, Stages
<1>13. ASSUME NEW result \in DomainChecks, CheckSubject(result)
       PROVE  TypeInv'
  BY <1>3, <1>4, <1>5, <1>13 DEF CheckSubject, Reach, created, verified, Stages
<1>14. CASE RefuseOptions \/ RefuseToCreate \/ RefuseToSign
  BY <1>2, <1>14 DEF RefuseOptions, RefuseToCreate, RefuseToSign, Obstacle
<1>15. ASSUME NEW d \in ServedDefs, RefuseToSend(d)
       PROVE  TypeInv'
  BY <1>2, <1>15 DEF RefuseToSend, Obstacle
<1>16. ASSUME NEW served \in Served, RefuseToRead(served)
       PROVE  TypeInv'
  BY <1>2, <1>16 DEF RefuseToRead, Obstacle
<1>17. ASSUME NEW served \in Served, NEW d \in ServedDefs, NEW result \in DomainChecks,
              RefuseToVerify(served, d, result)
       PROVE  TypeInv'
  BY <1>2, <1>17, Obstacles DEF RefuseToVerify
<1>18. ASSUME NEW reachable \in BOOLEAN, NEW matching \in BOOLEAN,
              RefuseToAnswer(reachable, matching)
       PROVE  TypeInv'
  <2>1. CASE Refuse("answer signature")
    BY <1>2, <2>1 DEF Obstacle
  <2>2. QED
    BY <1>2, <1>18, <2>1, Obstacles DEF RefuseToAnswer
<1>19. ASSUME NEW result \in DomainChecks, RefuseSubject(result)
       PROVE  TypeInv'
  BY <1>2, <1>19 DEF RefuseSubject, Obstacle
<1>20. CASE UNCHANGED vars
  BY <1>1, <1>20 DEF vars, op, TypeInv, TypeOK
<1>21. QED
  BY <1>6, <1>7, <1>8, <1>9, <1>10, <1>11, <1>12, <1>13, <1>14, <1>15, <1>16, <1>17,
     <1>18, <1>19, <1>20 DEF Next

THEOREM TypeCorrect == Spec => []TypeOK
<1>1. TypeInv => TypeOK
  BY DEF TypeInv
<1>2. QED
  BY <1>1, TypeInit, TypeStep, DomainInit, DomainStep, PTL DEF Spec

-----------------------------------------------------------------------------
(***************************************************************************)
(* What a request carries: the fields of the payloads, of a signed object  *)
(* and of the query, and what they mean.                                   *)
(***************************************************************************)
-----------------------------------------------------------------------------

LEMMA RegistrationPayload ==
  ASSUME NEW o, NEW k
  PROVE  LET part == createRequestRegistrationPayload(o)
         IN  /\ Has(part, k) <=> k = IF MetadataInside(o) THEN MetadataKey(o)
                                     ELSE ReferenceKey[MetadataKey(o)]
             /\ Has(part, k) => part.at[k] = IF MetadataInside(o)
                                  THEN createRPRegistrationMetadataPayload(ClientMetadataOf(o))
                                  ELSE ClientMetadataOf(o).at.referenceUri
  BY DEF createRequestRegistrationPayload, MetadataInside, Object, Has, Keys

\* The fields of a request object before those of the metadata.
RequestObjectTable(o) ==
  LET p == RequestPayloadOf(o)
  IN  [response_type |-> String("id_token"), scope |-> String("openid"),
       client_id |-> ClientId(o, p), redirect_uri |-> At(p, "redirect_uri"),
       response_mode |-> OrElse(p, "response_mode", String("post")),
       id_token_hint |-> At(p, "id_token_hint"),
       registration_uri |-> At(ClientMetadataOf(o), "referenceUri"),
       nonce |-> String("n"), state |-> String("s"),
       claims |-> ClaimsProperties(At(p, "claims"))]

LEMMA RequestObjectMade ==
  ASSUME NEW o, RequestPayloadOf(o) # Undef, NEW k
  PROVE  LET made == createRequestObjectPayload(o)
             part == createRequestRegistrationPayload(o)
             table == RequestObjectTable(o)
         IN  /\ made # Undef /\ IsObject(made)
             /\ Has(made, k) <=> (k \in DOMAIN table /\ table[k] # Undef) \/ Has(part, k)
             /\ At(made, k) = IF Has(part, k) THEN part.at[k]
                              ELSE IF k \in DOMAIN table THEN table[k] ELSE Undef
<1> DEFINE part == createRequestRegistrationPayload(o)
           table == RequestObjectTable(o)
           made == createRequestObjectPayload(o)
<1>1. made = Spread(Defined(table), part)
  BY DEF createRequestObjectPayload, RequestPayloadOf, RequestObjectTable
<1> HIDE DEF table, part, made
<1>2. IsObject(made) /\ made # Undef
  BY <1>1 DEF Spread, Object, IsObject, Undef
<1>3. /\ Has(made, k) <=> (k \in DOMAIN table /\ table[k] # Undef) \/ Has(part, k)
      /\ At(made, k) = IF Has(part, k) THEN part.at[k] ELSE IF k \in DOMAIN table THEN table[k] ELSE Undef
  BY <1>1, Spreading, Defining
<1>4. QED
  BY <1>2, <1>3 DEF table, part, made

LEMMA RequestObjectFields ==
  ASSUME NEW o, RequestPayloadOf(o) # Undef
  PROVE  LET made == createRequestObjectPayload(o)
         IN  /\ made # Undef /\ IsObject(made)
             /\ At(made, "claims") = ClaimsProperties(At(RequestPayloadOf(o), "claims"))
             /\ Has(made, "claims") => made.at["claims"] # Undef
             /\ \A k \in DefinitionPlaces \cup {"request_uri"} : ~Has(made, k)
             /\ \A k \in {"registration", "client_metadata", "client_metadata_uri"} :
                  /\ Has(made, k) <=> Has(createRequestRegistrationPayload(o), k)
                  /\ Has(made, k) => made.at[k] = createRequestRegistrationPayload(o).at[k]
             /\ At(made, "registration_uri") =
                  IF Has(createRequestRegistrationPayload(o), "registration_uri")
                    THEN createRequestRegistrationPayload(o).at["registration_uri"]
                    ELSE At(ClientMetadataOf(o), "referenceUri")
<1> DEFINE p == RequestPayloadOf(o)
           part == createRequestRegistrationPayload(o)
           table == RequestObjectTable(o)
           made == createRequestObjectPayload(o)
<1>1. /\ DOMAIN table = {"response_type", "scope", "client_id", "redirect_uri", "response_mode",
                         "id_token_hint", "registration_uri", "nonce", "state", "claims"}
      /\ table["claims"] = ClaimsProperties(At(p, "claims"))
      /\ table["registration_uri"] = At(ClientMetadataOf(o), "referenceUri")
  BY DEF RequestObjectTable
<1>2. \A k : Has(part, k) => k \in RegistrationKeys
  BY RegistrationPayload DEF MetadataKey, ReferenceKey, RegistrationKeys
<1> HIDE DEF table, part, made
<1>3. \A k : /\ Has(made, k) <=> (k \in DOMAIN table /\ table[k] # Undef) \/ Has(part, k)
             /\ At(made, k) = IF Has(part, k) THEN part.at[k]
                              ELSE IF k \in DOMAIN table THEN table[k] ELSE Undef
  BY RequestObjectMade DEF table, part, made
<1>4. \A k : Has(made, k) => made.at[k] = At(made, k)
  BY DEF At
<1>5. IsObject(made) /\ made # Undef
  BY RequestObjectMade DEF made
<1>6. ~Has(part, "claims")
  BY <1>2 DEF RegistrationKeys
<1>7. /\ At(made, "claims") = ClaimsProperties(At(p, "claims"))
      /\ Has(made, "claims") => made.at["claims"] # Undef
  BY <1>1, <1>3, <1>4, <1>6
<1>8. \A k \in DefinitionPlaces \cup {"request_uri"} : ~Has(made, k)
  BY <1>1, <1>2, <1>3 DEF DefinitionPlaces, RegistrationKeys
<1>9. \A k \in {"registration", "client_metadata", "client_metadata_uri"} :
                  /\ Has(made, k) <=> Has(part, k)
                  /\ Has(made, k) => made.at[k] = part.at[k]
  BY <1>1, <1>3, <1>4
<1>10. At(made, "registration_uri") = IF Has(part, "registration_uri") THEN part.at["registration_uri"]
                                     ELSE At(ClientMetadataOf(o), "referenceUri")
  BY <1>1, <1>3
<1>11. QED
  BY <1>5, <1>7, <1>8, <1>9, <1>10 DEF p, part, made

\* Signing takes the metadata out of a request object that refers to them.
LEMMA SignedFields ==
  ASSUME NEW payload, NEW did, NEW k, k \notin {"iss", "iat", "exp"}
  PROVE  LET dropped == k = "registration" /\ Truthy(payload, "registration_uri")
         IN  /\ Has(Signed(payload, did), k) <=> Has(payload, k) /\ ~dropped
             /\ At(Signed(payload, did), k) = IF dropped THEN Undef ELSE At(payload, k)
<1> DEFINE stamp == Object([iss |-> did, iat |-> Number(1), exp |-> Number(2)])
<1>1. ~Has(stamp, k)
  BY DEF Object, Has, Keys
<1> HIDE DEF stamp
<1>2. QED
  BY <1>1, Spreading, Leaving DEF Signed, stamp

LEMMA OuterFields ==
  ASSUME NEW o, At(o, "payload") # Undef, NEW k, k \notin {"nonce", "state"}
  PROVE  LET p == At(o, "payload")
             part == createRequestRegistrationPayload(o)
         IN  At(createAuthorizationRequestPayload(o), k) =
               IF Has(part, k) THEN part.at[k]
               ELSE IF k = "claims" THEN EitherClaims(o) ELSE At(p, k)
<1> DEFINE p == At(o, "payload")
           part == createRequestRegistrationPayload(o)
           given == [nonce |-> At(p, "nonce"), state |-> At(p, "state"), claims |-> EitherClaims(o)]
           rest == Without(p, {"nonce", "state", "claims"})
<1>1. createAuthorizationRequestPayload(o) = Spread(Spread(rest, Defined(given)), part)
  BY DEF createAuthorizationRequestPayload, EitherClaims, RequestPayloadOf
<1>2. DOMAIN given = {"nonce", "state", "claims"} /\ given["claims"] = EitherClaims(o)
  OBVIOUS
<1> HIDE DEF given, part
<1>3. Has(Defined(given), k) <=> k = "claims" /\ EitherClaims(o) # Undef
  BY <1>2, Defining
<1>4. Has(Defined(given), k) => Defined(given).at[k] = EitherClaims(o)
  BY <1>2, <1>3, Defining DEF At
<1>5. At(rest, k) = IF k = "claims" THEN Undef ELSE At(p, k)
  BY Leaving
<1>6. At(Spread(rest, Defined(given)), k) = IF k = "claims" THEN EitherClaims(o) ELSE At(p, k)
  BY <1>3, <1>4, <1>5, Spreading
<1>7. QED
  BY <1>1, <1>6, Spreading DEF part

LEMMA ClaimsMeaning ==
  ASSUME NEW claims
  PROVE  /\ ClaimsProperties(claims) # Undef <=> AsksFor(claims)
         /\ AsksFor(claims) =>
              \E way \in DefinitionPlaces :
                /\ Truthy(At(claims, "vp_token"), way)
                /\ way = "presentation_definition" \/ Has(At(claims, "vp_token"), "presentation_definition_uri")
                /\ At(ClaimsProperties(claims), "vp_token")
                     = Object([j \in {way} |-> At(claims, "vp_token").at[j]])
<1> DEFINE vpToken == At(claims, "vp_token")
           way == IF Truthy(vpToken, "presentation_definition_uri")
                    THEN "presentation_definition_uri" ELSE "presentation_definition"
           idToken == IF Has(claims, "id_token") THEN {"id_token"} ELSE {}
           all == Object([k \in idToken \cup {"vp_token"} |->
             IF k = "id_token" THEN claims.at[k] ELSE Object([j \in {way} |-> vpToken.at[j]])])
<1>1. ClaimsProperties(claims) = IF ~AsksFor(claims) THEN Undef ELSE all
  BY DEF ClaimsProperties
<1>2. all # Undef
  BY DEF Object, Undef
<1>3. AsksFor(claims) => Truthy(vpToken, way)
  BY DEF AsksFor
<1>4. At(all, "vp_token") = Object([j \in {way} |-> vpToken.at[j]])
  BY DEF Object, At, Has, Keys
<1>5. way = "presentation_definition" \/ Has(vpToken, "presentation_definition_uri")
  BY UndefinedIsFalse DEF Truthy, At
<1>6. way \in DefinitionPlaces
  BY DEF DefinitionPlaces
<1> HIDE DEF all, way
<1>7. QED
  BY <1>1, <1>2, <1>3, <1>4, <1>5, <1>6

-----------------------------------------------------------------------------
LEMMA ClaimsAsRead ==
  ASSUME NEW claims
  PROVE  /\ Keys(At(ReadValue(claims), "vp_token")) = Keys(At(claims, "vp_token"))
         /\ \A k \in Keys(At(claims, "vp_token")) :
              SameShape(At(ReadValue(claims), "vp_token").at[k], At(claims, "vp_token").at[k])
<1>1. CASE IsObject(claims)
  <2>1. ReadValue(claims) = Reread(claims)
    BY <1>1 DEF ReadValue, IsObject
  <2>2. Keys(Reread(claims)) = Keys(claims)
    BY <1>1, RereadKeepsShape DEF SameShape
  <2>3. CASE "vp_token" \in Keys(claims)
    BY <1>1, <2>1, <2>2, <2>3, RereadKeepsShape DEF At, Has, SameShape
  <2>4. CASE "vp_token" \notin Keys(claims)
    BY <2>1, <2>2, <2>4 DEF At, Has, Keys, Undef
  <2>5. QED
    BY <2>3, <2>4
<1>2. CASE ~IsObject(claims)
  <2>1. ReadValue(claims).is # "object"
    BY <1>2 DEF ReadValue, Reread, WithMembers, String, IsObject
  <2>2. QED
    BY <1>2, <2>1 DEF At, Has, Keys, IsObject, Undef
<1>3. QED
  BY <1>1, <1>2

-----------------------------------------------------------------------------
(***************************************************************************)
(* Where everything came from.  A request object that is sent is the one   *)
(* made from the options, signed; the query has the payload made from the  *)
(* options and says where the request object is; and what the OP knows it  *)
(* knows from both together.                                               *)
(***************************************************************************)
AfterReading == {"read", "verified", "answering", "answered", "accepted"}
AfterSigning == {"signed", "sent"} \cup AfterReading

\* A request object was signed.
Issued == stage \in AfterSigning /\ object # Undef

ObjectAsMade ==
  LET made == createRequestObjectPayload(rp)
  IN  /\ stage = "created" => object = made
      /\ stage \in AfterSigning =>
           IF made = Undef THEN object = Undef
           ELSE object = Signed(made, SignatureOfRequest.at.did) /\ SignsRequests(SignatureOfRequest)

Envelope(o) == IF createAuthorizationRequestPayload(o) = Undef THEN EmptyObject
               ELSE createAuthorizationRequestPayload(o)

\* Where the request object is: at a reference, or in the query.
RequestPart ==
  IF PassedBy(RequestObjectOf(rp), "REFERENCE")
    THEN Object([request_uri |-> RequestObjectOf(rp).at.referenceUri])
  ELSE IF object = Undef THEN EmptyObject ELSE Object([request |-> String("ey...")])

OuterAsMade ==
  /\ stage \in {"created", "signed"} => outer = createAuthorizationRequestPayload(rp)
  /\ stage \in {"sent"} \cup AfterReading =>
       outer = encodeJsonAsURI(Spread(Without(Envelope(rp), {"request", "request_uri"}), RequestPart))

KnownFromRequest ==
  /\ stage \in AfterReading => received = decodeUriAsJson(outer) /\ Decodable(outer)
  /\ Understood =>
       /\ object # Undef /\ ~LooksIntoNoClaims(Merged)
       /\ versions = authorizationRequestVersionDiscovery(Merged) /\ versions # <<>>
       /\ \E served : metadata = MetadataAt(Merged, served)
       /\ \E d : /\ found = findPresentationDefinitions(Merged, versions[1], d)
                 /\ DefinitionsValid(Merged, versions[1], d)

AnsweredWithReason ==
  stage \in {"answered", "accepted"} =>
    /\ SupportedSyntaxTypes(Merged) # Undef
    /\ \E matching : PresentationsFit(op, matching)
    /\ subject = TextAt(op, "did")

OptionsHeld ==
  /\ setting \in Settings
  /\ stage \in {"built", "created"} \cup AfterSigning =>
       CreateAuthorizationRequestOpts(rp) /\ AuthorizationResponseOpts(op)
  /\ stage \in {"created"} \cup AfterSigning => assertValidAuthorizationRequestOpts(rp)

DeliveryInv == ObjectAsMade /\ OuterAsMade /\ KnownFromRequest /\ AnsweredWithReason /\ OptionsHeld

LEMMA DeliveryInit == Init => DeliveryInv
  BY DEF Init, DeliveryInv, ObjectAsMade, OuterAsMade, KnownFromRequest, AnsweredWithReason,
         OptionsHeld, AfterReading, AfterSigning, Understood

LEMMA DeliveryStep == DeliveryInv /\ [Next]_vars => DeliveryInv'
<1> SUFFICES ASSUME DeliveryInv, [Next]_vars PROVE DeliveryInv'
  OBVIOUS
<1> USE DEF DeliveryInv, AfterReading, AfterSigning, Understood, Reach, created, verified
<1>1. ASSUME NEW r, Refuse(r) PROVE DeliveryInv'
  BY <1>1 DEF Refuse, ObjectAsMade, OuterAsMade, KnownFromRequest, AnsweredWithReason, OptionsHeld
<1>2. CASE BuildParties
  BY <1>2 DEF BuildParties, ObjectAsMade, OuterAsMade, KnownFromRequest, AnsweredWithReason, OptionsHeld,
              rp, op
<1>3. CASE CreateRequest
  BY <1>3 DEF CreateRequest, ObjectAsMade, OuterAsMade, KnownFromRequest, AnsweredWithReason,
              OptionsHeld, rp, op
<1>4. CASE SignRequest
  <2>1. ObjectAsMade'
    <3>1. SignatureOfRequest' = SignatureOfRequest
      BY <1>4 DEF SignRequest, SignatureOfRequest, rp
    <3>2. QED
      BY <1>4, <3>1 DEF SignRequest, ObjectAsMade, rp
  <2>2. QED
    BY <1>4, <2>1 DEF SignRequest, OuterAsMade, KnownFromRequest, AnsweredWithReason, OptionsHeld, rp, op
<1>5. ASSUME NEW d \in ServedDefs, SendRequest(d)
      PROVE  DeliveryInv'
  <2>1. Envelope(rp) = IF outer = Undef THEN EmptyObject ELSE outer
    BY <1>5 DEF SendRequest, OuterAsMade, Envelope
  <2>2. outer' = encodeJsonAsURI(Spread(Without(Envelope(rp), {"request", "request_uri"}), RequestPart))
    BY <1>5, <2>1 DEF SendRequest, Query, RequestPart
  <2>3. RequestPart' = RequestPart /\ Envelope(rp)' = Envelope(rp) /\ SignatureOfRequest' = SignatureOfRequest
    BY <1>5 DEF SendRequest, RequestPart, Envelope, SignatureOfRequest, rp
  <2>4. OuterAsMade'
    BY <1>5, <2>2, <2>3 DEF SendRequest, OuterAsMade
  <2>5. QED
    BY <1>5, <2>3, <2>4 DEF SendRequest, ObjectAsMade, KnownFromRequest, AnsweredWithReason, OptionsHeld, rp, op
<1>6. ASSUME NEW served \in Served, ReadRequest(served)
      PROVE  DeliveryInv'
  <2>1. RequestPart' = RequestPart /\ Envelope(rp)' = Envelope(rp) /\ SignatureOfRequest' = SignatureOfRequest
    BY <1>6 DEF ReadRequest, RequestPart, Envelope, SignatureOfRequest, rp
  <2>2. QED
    BY <1>6, <2>1 DEF ReadRequest, ObjectAsMade, OuterAsMade, KnownFromRequest, AnsweredWithReason,
                      OptionsHeld, rp, op
<1>7. ASSUME NEW served \in Served, NEW d \in ServedDefs, NEW result \in DomainChecks,
             VerifyRequest(served, d, result)
      PROVE  DeliveryInv'
  <2>1. UNCHANGED <<setting, object, outer, received, Merged>>
    BY <1>7 DEF VerifyRequest, Merged
  <2>2. /\ object # Undef /\ ~LooksIntoNoClaims(Merged)
        /\ authorizationRequestVersionDiscovery(Merged) # <<>>
        /\ DefinitionsValid(Merged, authorizationRequestVersionDiscovery(Merged)[1], d)
    BY <1>7 DEF VerifyRequest, VerifyObstacle
  <2>3. /\ versions' = authorizationRequestVersionDiscovery(Merged)
        /\ metadata' = MetadataAt(Merged, served)
        /\ found' = findPresentationDefinitions(Merged, versions'[1], d)
    BY <1>7 DEF VerifyRequest
  <2>4. /\ stage \in {"read", "verified"} /\ stage' \in {"verified", "answering"}
    BY <1>7 DEF VerifyRequest
  <2>5. KnownFromRequest'
    <3>1. received' = decodeUriAsJson(outer') /\ Decodable(outer')
      BY <2>1, <2>4 DEF KnownFromRequest
    <3>2. Merged' = Merged
      BY <2>1
    <3>3. QED
      BY <2>1, <2>2, <2>3, <2>4, <3>1, <3>2 DEF KnownFromRequest
  <2>6. QED
    BY <2>1, <2>4, <2>5 DEF ObjectAsMade, OuterAsMade, AnsweredWithReason, OptionsHeld, RequestPart, SignatureOfRequest, rp, op
<1>8. ASSUME NEW reachable \in BOOLEAN, NEW matching \in BOOLEAN, Answer(reachable, matching)
      PROVE  DeliveryInv'
  <2>1. UNCHANGED <<setting, object, outer, received, versions, metadata, found>>
    BY <1>8 DEF Answer
  <2>2. Merged' = Merged /\ SupportedSyntaxTypes(Merged) # Undef /\ PresentationsFit(op, matching)
    BY <1>8, <2>1 DEF Answer, AnswerObstacle, Merged
  <2>3. stage = "answering" /\ stage' = "answered"
    BY <1>8 DEF Answer
  <2>4. KnownFromRequest'
    BY <2>1, <2>2, <2>3 DEF KnownFromRequest
  <2>5. AnsweredWithReason'
    BY <1>8, <2>1, <2>2, <2>3 DEF Answer, AnsweredWithReason, PresentationsFit, op
  <2>6. QED
    BY <2>1, <2>3, <2>4, <2>5 DEF ObjectAsMade, OuterAsMade, OptionsHeld, RequestPart, SignatureOfRequest, rp, op
<1>9. ASSUME NEW result \in DomainChecks, CheckSubject(result)
      PROVE  DeliveryInv'
  <2>1. UNCHANGED <<setting, object, outer, received, versions, metadata, found, subject>>
    BY <1>9 DEF CheckSubject
  <2>2. Merged' = Merged /\ stage = "answered" /\ stage' = "accepted"
    BY <1>9, <2>1 DEF CheckSubject, Merged
  <2>3. KnownFromRequest' /\ AnsweredWithReason'
    BY <2>1, <2>2 DEF KnownFromRequest, AnsweredWithReason, PresentationsFit, op
  <2>4. QED
    BY <2>1, <2>2, <2>3 DEF ObjectAsMade, OuterAsMade, OptionsHeld, RequestPart, SignatureOfRequest, rp, op
<1>10. CASE RefuseOptions \/ RefuseToCreate \/ RefuseToSign
  BY <1>1, <1>10 DEF RefuseOptions, RefuseToCreate, RefuseToSign
<1>11. ASSUME NEW d \in ServedDefs, RefuseToSend(d)
       PROVE  DeliveryInv'
  BY <1>1, <1>11 DEF RefuseToSend
<1>12. ASSUME NEW served \in Served, RefuseToRead(served)
       PROVE  DeliveryInv'
  BY <1>1, <1>12 DEF RefuseToRead
<1>13. ASSUME NEW served \in Served, NEW d \in ServedDefs, NEW result \in DomainChecks,
              RefuseToVerify(served, d, result)
       PROVE  DeliveryInv'
  BY <1>1, <1>13 DEF RefuseToVerify
<1>14. ASSUME NEW reachable \in BOOLEAN, NEW matching \in BOOLEAN, RefuseToAnswer(reachable, matching)
       PROVE  DeliveryInv'
  BY <1>1, <1>14 DEF RefuseToAnswer
<1>15. ASSUME NEW result \in DomainChecks, RefuseSubject(result)
       PROVE  DeliveryInv'
  BY <1>1, <1>15 DEF RefuseSubject
<1>16. CASE UNCHANGED vars
  <2>1. UNCHANGED <<setting, stage, object, outer, received, versions, metadata, found, subject>>
    BY <1>16 DEF vars
  <2>2. Merged' = Merged
    BY <2>1 DEF Merged
  <2>3. KnownFromRequest' /\ AnsweredWithReason'
    BY <2>1, <2>2 DEF KnownFromRequest, AnsweredWithReason, PresentationsFit, op
  <2>4. QED
    BY <2>1, <2>3 DEF ObjectAsMade, OuterAsMade, OptionsHeld, RequestPart, SignatureOfRequest, rp, op
<1>17. QED
  BY <1>2, <1>3, <1>4, <1>5, <1>6, <1>7, <1>8, <1>9, <1>10, <1>11, <1>12, <1>13, <1>14,
     <1>15, <1>16 DEF Next

LEMMA Delivery == Spec => []DeliveryInv
  BY DeliveryInit, DeliveryStep, PTL DEF Spec

-----------------------------------------------------------------------------
(***************************************************************************)
(* The metadata that the parties publish satisfy the schemas of what is    *)
(* published, and keep the names in other languages, for all options that  *)
(* satisfy the schemas of options.                                         *)
(***************************************************************************)
THEOREM MetadataPublishedAsSpecified == Spec => []PublishedAsSpecified
<1>1. DeliveryInv => PublishedAsSpecified
  <2> SUFFICES ASSUME DeliveryInv, stage = "built" PROVE PublishedAsSpecified
    BY DEF PublishedAsSpecified
  <2>1. CreateAuthorizationRequestOpts(rp) /\ AuthorizationResponseOpts(op)
    BY DEF DeliveryInv, OptionsHeld
  <2>2. ResponseRegistrationOpts(op.at.registration)
    BY <2>1 DEF AuthorizationResponseOpts
  <2>3. Has(rp, "clientMetadata") => ClientMetadataOpts(ClientMetadataOf(rp))
    BY <2>1 DEF CreateAuthorizationRequestOpts, AuthorizationRequestOptsVID1, AuthorizationRequestOptsVD11,
                Properties, Has, ClientMetadataOf, At
  <2>4. QED
    BY <2>2, <2>3, DiscoveryPublished, RPPublished, LanguagesPublished
    DEF PublishedAsSpecified, LanguagesKept
<1>2. QED
  BY <1>1, Delivery, PTL

-----------------------------------------------------------------------------
(***************************************************************************)
(* What the query has under a key, and what the OP therefore reads there.  *)
(***************************************************************************)
Enclosed(o, k) ==
  IF At(o, "payload") = Undef THEN Undef
  ELSE IF Has(createRequestRegistrationPayload(o), k) THEN createRequestRegistrationPayload(o).at[k]
  ELSE IF k = "claims" THEN EitherClaims(o) ELSE At(At(o, "payload"), k)

LEMMA QueryFields ==
  ASSUME DeliveryInv, stage \in {"sent"} \cup AfterReading,
         NEW k, k \notin {"nonce", "state", "request", "request_uri"}
  PROVE  LET query == decodeUriAsJson(outer)
         IN  /\ Has(query, k) <=> IsTrue(Enclosed(rp, k))
             /\ Has(query, k) => query.at[k] = ReadValue(Enclosed(rp, k))
             /\ Has(outer, k) <=> Has(query, k)
             /\ Has(outer, k) => outer.at[k] = Enclosed(rp, k)
<1>1. PICK request : /\ Keys(request) \subseteq {"request", "request_uri"}
                     /\ outer = encodeJsonAsURI(
                          Spread(Without(Envelope(rp), {"request", "request_uri"}), request))
  <2>1. Keys(RequestPart) \subseteq {"request", "request_uri"}
    BY DEF RequestPart, Keys, Object, EmptyObject
  <2>2. QED
    BY <2>1 DEF DeliveryInv, OuterAsMade
<1>2. ~Has(request, k)
  BY <1>1 DEF Has
<1>3. At(Spread(Without(Envelope(rp), {"request", "request_uri"}), request), k) = At(Envelope(rp), k)
  BY <1>2, Spreading, Leaving
<1>4. At(Envelope(rp), k) = Enclosed(rp, k)
  <2>1. CASE At(rp, "payload") = Undef
    BY <2>1 DEF Envelope, createAuthorizationRequestPayload, Enclosed, EmptyObject, Object, At, Has, Keys
  <2>2. CASE At(rp, "payload") # Undef
    <3>1. createAuthorizationRequestPayload(rp) # Undef
      BY <2>2 DEF createAuthorizationRequestPayload, Spread, Object, Undef
    <3>2. QED
      BY <2>2, <3>1, OuterFields DEF Envelope, Enclosed
  <2>3. QED
    BY <2>1, <2>2
<1>5. /\ Has(outer, k) <=> IsTrue(Enclosed(rp, k))
      /\ Has(outer, k) => outer.at[k] = Enclosed(rp, k)
  BY <1>1, <1>3, <1>4, Encoding
<1>6. QED
  BY <1>5, Reading

LEMMA ReceivedFields ==
  ASSUME DeliveryInv, stage \in AfterReading,
         NEW k, k \notin {"nonce", "state", "request", "request_uri"}
  PROVE  /\ Has(received, k) <=> IsTrue(Enclosed(rp, k))
         /\ Has(received, k) => received.at[k] = ReadValue(Enclosed(rp, k))
         /\ Truthy(received, k) <=> Has(received, k)
         /\ Has(received, k) => Readable(Enclosed(rp, k))
<1>1. received = decodeUriAsJson(outer) /\ Decodable(outer)
  BY DEF DeliveryInv, KnownFromRequest
<1>2. /\ Has(received, k) <=> IsTrue(Enclosed(rp, k))
      /\ Has(received, k) => received.at[k] = ReadValue(Enclosed(rp, k))
      /\ Has(outer, k) <=> Has(received, k)
      /\ Has(outer, k) => outer.at[k] = Enclosed(rp, k)
  BY <1>1, QueryFields
<1>3. Truthy(received, k) <=> Has(received, k)
  BY <1>2, TrueIsReadAsTrue, UndefinedIsFalse DEF Truthy, At
<1>4. Has(received, k) => Readable(Enclosed(rp, k))
  BY <1>1, <1>2 DEF Decodable, Has
<1>5. QED
  BY <1>2, <1>3, <1>4

\* The request object that the OP has.
LEMMA UnderstoodIsIssued ==
  ASSUME DeliveryInv, Understood
  PROVE  Issued /\ stage \in AfterReading
  BY DEF Understood, Issued, AfterSigning, AfterReading, DeliveryInv, KnownFromRequest

LEMMA ObjectFields ==
  ASSUME DeliveryInv, Issued
  PROVE  /\ RequestPayloadOf(rp) # Undef
         /\ \E did : object = Signed(createRequestObjectPayload(rp), did)
<1>2. createRequestObjectPayload(rp) # Undef /\ \E did : object = Signed(createRequestObjectPayload(rp), did)
  BY DEF DeliveryInv, ObjectAsMade, Issued
<1>3. QED
  BY <1>2 DEF createRequestObjectPayload, RequestPayloadOf

LEMMA MergedFields ==
  ASSUME NEW k
  PROVE  /\ Has(Merged, k) <=> Has(received, k) \/ Has(object, k)
         /\ At(Merged, k) = IF Has(object, k) THEN object.at[k] ELSE At(received, k)
  BY Spreading DEF Merged

\* The metadata in the request object, which signing takes out of one that
\* refers to others.
LEMMA ObjectMetadata ==
  ASSUME DeliveryInv, Issued
  PROVE  LET inside == MetadataInside(rp)
             made   == createRPRegistrationMetadataPayload(ClientMetadataOf(rp))
             ref    == At(ClientMetadataOf(rp), "referenceUri")
         IN  /\ Has(object, "registration") <=> ~IsDraft11(rp) /\ inside /\ ~IsTrue(ref)
             /\ Has(object, "registration") => object.at["registration"] = made
             /\ Has(object, "client_metadata") <=> IsDraft11(rp) /\ inside
             /\ Has(object, "client_metadata") => object.at["client_metadata"] = made
             /\ IsTrue(ref) => At(object, "registration_uri") = ref
             /\ ~IsTrue(ref) => ~Truthy(object, "registration_uri")
             /\ Has(object, "client_metadata_uri") <=> IsDraft11(rp) /\ ~inside
             /\ Has(object, "client_metadata_uri") => object.at["client_metadata_uri"] = ref
             /\ ~inside => IsTrue(ref)
<1> DEFINE inside == MetadataInside(rp)
           m == ClientMetadataOf(rp)
           ref == At(m, "referenceUri")
           made == createRequestObjectPayload(rp)
           part == createRequestRegistrationPayload(rp)
<1>1. PICK did : object = Signed(made, did)
  BY ObjectFields
<1>2. ~inside => IsTrue(ref) /\ m.at.referenceUri = ref
  <2>1. assertValidAuthorizationRequestOpts(rp)
    BY DEF DeliveryInv, OptionsHeld, Issued
  <2>2. ~inside => Truthy(m, "referenceUri")
    BY <2>1 DEF assertValidAuthorizationRequestOpts, assertValidRequestRegistrationOpts, PassByValid,
                MetadataInside
  <2>3. QED
    BY <2>2, UndefinedIsFalse DEF Truthy, At
<1>3. /\ \A k \in {"registration", "client_metadata", "client_metadata_uri"} :
           /\ Has(made, k) <=> Has(part, k)
           /\ Has(made, k) => made.at[k] = part.at[k]
      /\ At(made, "registration_uri") = IF Has(part, "registration_uri") THEN part.at["registration_uri"]
                                        ELSE ref
  BY ObjectFields, RequestObjectFields
<1>4. \A k : /\ Has(part, k) <=> k = IF inside THEN MetadataKey(rp) ELSE ReferenceKey[MetadataKey(rp)]
             /\ Has(part, k) => part.at[k] = IF inside THEN createRPRegistrationMetadataPayload(m)
                                             ELSE m.at.referenceUri
  BY RegistrationPayload
<1>5. At(made, "registration_uri") = ref
  BY <1>2, <1>3, <1>4 DEF MetadataKey, ReferenceKey
<1>6. \A k \in RegistrationKeys :
        LET dropped == k = "registration" /\ IsTrue(ref)
        IN  /\ Has(object, k) <=> Has(made, k) /\ ~dropped
            /\ At(object, k) = IF dropped THEN Undef ELSE At(made, k)
  BY <1>1, <1>5, SignedFields DEF RegistrationKeys, Truthy
<1>7. \A k : /\ Has(object, k) => object.at[k] = At(object, k)
             /\ Has(made, k) => made.at[k] = At(made, k)
  BY DEF At
<1> HIDE DEF part, made, inside, ref, m
<1>8. /\ Has(object, "registration") <=> ~IsDraft11(rp) /\ inside /\ ~IsTrue(ref)
      /\ Has(object, "registration") => object.at["registration"] = createRPRegistrationMetadataPayload(m)
  BY <1>3, <1>4, <1>6, <1>7 DEF RegistrationKeys, MetadataKey, ReferenceKey
<1>9. /\ Has(object, "client_metadata") <=> IsDraft11(rp) /\ inside
      /\ Has(object, "client_metadata") => object.at["client_metadata"] = createRPRegistrationMetadataPayload(m)
  BY <1>3, <1>4, <1>6, <1>7 DEF RegistrationKeys, MetadataKey, ReferenceKey
<1>10. /\ Has(object, "client_metadata_uri") <=> IsDraft11(rp) /\ ~inside
       /\ Has(object, "client_metadata_uri") => object.at["client_metadata_uri"] = ref
  BY <1>2, <1>3, <1>4, <1>6, <1>7 DEF RegistrationKeys, MetadataKey, ReferenceKey
<1>11. At(object, "registration_uri") = ref
  BY <1>5, <1>6 DEF RegistrationKeys
<1>12. QED
  BY <1>2, <1>8, <1>9, <1>10, <1>11 DEF inside, ref, m, Truthy

LEMMA MarkedByDraft ==
  ASSUME DeliveryInv, Issued
  PROVE  IF IsDraft11(rp)
           THEN Truthy(Merged, "client_metadata") \/ Truthy(Merged, "client_metadata_uri")
           ELSE Truthy(Merged, "registration") \/ Truthy(Merged, "registration_uri")
<1> DEFINE ref == At(ClientMetadataOf(rp), "referenceUri")
<1>1. IsTrue(createRPRegistrationMetadataPayload(ClientMetadataOf(rp)))
  BY MetadataIsObject, ObjectsAreTrue
<1>2. \A k : Has(object, k) /\ IsTrue(object.at[k]) => Truthy(Merged, k)
  BY MergedFields DEF Truthy
<1>3. CASE IsDraft11(rp)
  BY <1>1, <1>2, <1>3, ObjectMetadata
<1>4. CASE ~IsDraft11(rp) /\ ~IsTrue(ref)
  BY <1>1, <1>2, <1>4, ObjectMetadata
<1>5. CASE IsTrue(ref)
  <2>1. Has(object, "registration_uri") /\ object.at["registration_uri"] = ref
    BY <1>5, ObjectMetadata, UndefinedIsFalse DEF At
  <2>2. QED
    BY <1>2, <1>5, <2>1, <1>3
<1>6. QED
  BY <1>3, <1>4, <1>5

\* What a request may be recognised as, and that it is recognised at all.
LEMMA Recognition ==
  ASSUME DeliveryInv, Understood
  PROVE  /\ versions # <<>>
         /\ \A i \in DOMAIN versions :
              /\ versions[i] \in {70, 71, 110}
              /\ versions[i] = 70 => WithoutDraft11(Merged)
              /\ versions[i] # 70 => WithoutDraft1(Merged)
         /\ ~WithoutDraft1(Merged) => versions = <<70>>
<1>1. versions = authorizationRequestVersionDiscovery(Merged) /\ versions # <<>>
  BY DEF DeliveryInv, KnownFromRequest
<1> DEFINE latest  == IF AuthorizationRequestPayloadVD11(Merged) /\ WithoutDraft1(Merged) THEN <<110>> ELSE <<>>
           profile == IF AuthorizationRequestPayloadVID1(Merged) /\ WithoutDraft1(Merged) THEN <<71>> ELSE <<>>
           draft1  == IF AuthorizationRequestPayloadVID1(Merged) /\ WithoutDraft11(Merged) THEN <<70>> ELSE <<>>
<1>2. versions = latest \o profile \o draft1
  BY <1>1 DEF authorizationRequestVersionDiscovery
<1>3. /\ latest = <<>> \/ (latest = <<110>> /\ WithoutDraft1(Merged))
      /\ profile = <<>> \/ (profile = <<71>> /\ WithoutDraft1(Merged))
      /\ draft1 = <<>> \/ (draft1 = <<70>> /\ WithoutDraft11(Merged))
  OBVIOUS
<1>4. /\ latest \in Seq({70, 71, 110})
      /\ profile \in Seq({70, 71, 110})
      /\ draft1 \in Seq({70, 71, 110})
  <2>1. /\ <<>> \in Seq({70, 71, 110}) /\ <<110>> \in Seq({70, 71, 110})
        /\ <<71>> \in Seq({70, 71, 110}) /\ <<70>> \in Seq({70, 71, 110})
    OBVIOUS
  <2>2. QED
    BY <2>1
<1> HIDE DEF latest, profile, draft1
<1>5. \A a, b \in Seq({70, 71, 110}) : \A i \in DOMAIN (a \o b) :
        (\E j \in DOMAIN a : (a \o b)[i] = a[j]) \/ (\E j \in DOMAIN b : (a \o b)[i] = b[j])
  <2>1. SUFFICES ASSUME NEW a \in Seq({70, 71, 110}), NEW b \in Seq({70, 71, 110}),
                        NEW i \in DOMAIN (a \o b)
                 PROVE  (\E j \in DOMAIN a : (a \o b)[i] = a[j]) \/ (\E j \in DOMAIN b : (a \o b)[i] = b[j])
    OBVIOUS
  <2>2. /\ DOMAIN a = 1..Len(a) /\ DOMAIN b = 1..Len(b) /\ Len(a) \in Nat /\ Len(b) \in Nat
        /\ i \in 1..(Len(a) + Len(b))
    OBVIOUS
  <2>3. CASE i <= Len(a)
    BY <2>2, <2>3
  <2>4. CASE i > Len(a)
    <3>1. i - Len(a) \in 1..Len(b) /\ (a \o b)[i] = b[i - Len(a)]
      BY <2>2, <2>4
    <3>2. QED
      BY <2>2, <3>1
  <2>5. QED
    BY <2>2, <2>3, <2>4
<1>6. ASSUME NEW i \in DOMAIN versions
      PROVE  \/ versions[i] \in {110, 71} /\ WithoutDraft1(Merged)
             \/ versions[i] = 70 /\ WithoutDraft11(Merged)
  <2>1. \/ \E j \in DOMAIN (latest \o profile) : versions[i] = (latest \o profile)[j]
        \/ \E j \in DOMAIN draft1 : versions[i] = draft1[j]
    <3>1. latest \o profile \in Seq({70, 71, 110})
      BY <1>4
    <3>2. QED
      BY <1>2, <1>4, <1>5, <3>1
  <2>2. \A j \in DOMAIN (latest \o profile) :
          (\E n \in DOMAIN latest : (latest \o profile)[j] = latest[n])
            \/ (\E n \in DOMAIN profile : (latest \o profile)[j] = profile[n])
    BY <1>4, <1>5
  <2>3. /\ \A n \in DOMAIN latest : latest[n] = 110 /\ WithoutDraft1(Merged)
        /\ \A n \in DOMAIN profile : profile[n] = 71 /\ WithoutDraft1(Merged)
        /\ \A n \in DOMAIN draft1 : draft1[n] = 70 /\ WithoutDraft11(Merged)
    BY <1>3
  <2>4. QED
    BY <2>1, <2>2, <2>3
<1>7. ASSUME ~WithoutDraft1(Merged)
      PROVE  versions = <<70>>
  <2>1. latest = <<>> /\ profile = <<>>
    BY <1>3, <1>7
  <2>2. (<<>> \o <<>>) \o draft1 = draft1
    BY <1>4
  <2>3. QED
    BY <1>1, <1>2, <1>3, <2>1, <2>2
<1>8. QED
  BY <1>1, <1>6, <1>7

DraftsKeptApart ==
  Understood => /\ VersionOf(rp) = 70 => versions = <<70>>
                /\ IsDraft11(rp) => \A i \in DOMAIN versions : versions[i] # 70

LEMMA DraftsApart == DeliveryInv => DraftsKeptApart
<1> SUFFICES ASSUME DeliveryInv, Understood PROVE DraftsKeptApart
  BY DEF DraftsKeptApart
<1>1. CASE IsDraft11(rp)
  <2>1. ~WithoutDraft11(Merged)
    BY <1>1, MarkedByDraft, UnderstoodIsIssued DEF WithoutDraft11
  <2>2. QED
    BY <1>1, <2>1, Recognition DEF DraftsKeptApart, IsDraft11
<1>2. CASE ~IsDraft11(rp)
  <2>1. ~WithoutDraft1(Merged)
    BY <1>2, MarkedByDraft, UnderstoodIsIssued DEF WithoutDraft1
  <2>2. QED
    BY <1>2, <2>1, Recognition DEF DraftsKeptApart
<1>3. QED
  BY <1>1, <1>2

(***************************************************************************)
(* The drafts do not mix, whatever the options are: a request that the RP  *)
(* issued as draft 1 is verified as that and as nothing else, and one of   *)
(* draft 11 never as draft 1.                                              *)
(***************************************************************************)
THEOREM NeverTheOtherDraft == Spec => []DraftsKeptApart
  BY DraftsApart, Delivery, PTL

-----------------------------------------------------------------------------
(***************************************************************************)
(* Where definitions end up.                                               *)
(***************************************************************************)
LEMMA TopLevelFields ==
  ASSUME DeliveryInv, Issued, stage \in AfterReading, NEW k \in DefinitionPlaces
  PROVE  /\ Has(Merged, k) <=> IsTrue(At(At(rp, "payload"), k))
         /\ Has(Merged, k) => Merged.at[k] = ReadValue(At(At(rp, "payload"), k))
         /\ Has(Merged, k) => Truthy(Merged, k) /\ ~WithoutDraft11(Merged)
         /\ Has(Merged, k) => Readable(At(At(rp, "payload"), k))
<1>1. ~Has(object, k)
  <2>1. PICK did : object = Signed(createRequestObjectPayload(rp), did)
    BY ObjectFields
  <2>2. ~Has(createRequestObjectPayload(rp), k)
    BY ObjectFields, RequestObjectFields
  <2>3. QED
    BY <2>1, <2>2, SignedFields DEF DefinitionPlaces
<1>2. Enclosed(rp, k) = At(At(rp, "payload"), k)
  <2>1. ~Has(createRequestRegistrationPayload(rp), k)
    BY RegistrationPayload DEF DefinitionPlaces, MetadataKey, ReferenceKey
  <2>2. QED
    BY <2>1 DEF Enclosed, DefinitionPlaces, At, Has, Keys, Undef
<1>3. stage \in AfterReading
  BY DEF Understood, AfterReading
<1>4. /\ Has(received, k) <=> IsTrue(At(At(rp, "payload"), k))
      /\ Has(received, k) => received.at[k] = ReadValue(At(At(rp, "payload"), k))
      /\ Truthy(received, k) <=> Has(received, k)
      /\ Has(received, k) => Readable(At(At(rp, "payload"), k))
  BY <1>2, <1>3, ReceivedFields DEF DefinitionPlaces
<1>5. /\ Has(Merged, k) <=> Has(received, k)
      /\ At(Merged, k) = At(received, k)
  BY <1>1, MergedFields
<1>6. Has(Merged, k) => Truthy(Merged, k)
  BY <1>4, <1>5 DEF Truthy
<1>7. Has(Merged, k) => Merged.at[k] = ReadValue(At(At(rp, "payload"), k))
  BY <1>4, <1>5 DEF At
<1>8. QED
  BY <1>4, <1>5, <1>6, <1>7 DEF WithoutDraft11, DefinitionPlaces

\* The claims that the OP finds: the request object has none or those that it
\* asks for, and then those of the query count.
LEMMA MergedClaims ==
  ASSUME DeliveryInv, Issued, stage \in AfterReading
  PROVE  LET own == At(RequestPayloadOf(rp), "claims")
         IN  IF AsksFor(own)
               THEN /\ EitherClaims(rp) = own
                    /\ VpTokenOf(Merged) = At(ClaimsProperties(own), "vp_token")
               ELSE /\ VpTokenOf(Merged) = VpTokenOf(received)
                    /\ Keys(VpTokenOf(received)) \subseteq Keys(At(EitherClaims(rp), "vp_token"))
                    /\ \A k \in Keys(VpTokenOf(received)) :
                         SameShape(VpTokenOf(received).at[k], At(EitherClaims(rp), "vp_token").at[k])
                    /\ AsksFor(EitherClaims(rp)) =>
                         Keys(VpTokenOf(received)) = Keys(At(EitherClaims(rp), "vp_token"))
<1> DEFINE own == At(RequestPayloadOf(rp), "claims")
           either == EitherClaims(rp)
<1>1. /\ At(object, "claims") = ClaimsProperties(own)
      /\ Has(object, "claims") => At(object, "claims") # Undef
  <2>1. PICK did : object = Signed(createRequestObjectPayload(rp), did)
    BY ObjectFields
  <2>2. /\ At(createRequestObjectPayload(rp), "claims") = ClaimsProperties(own)
        /\ Has(createRequestObjectPayload(rp), "claims") =>
             At(createRequestObjectPayload(rp), "claims") # Undef
    BY ObjectFields, RequestObjectFields DEF At
  <2>3. QED
    BY <2>1, <2>2, SignedFields
<1>2. CASE AsksFor(own)
  <2>1. ClaimsProperties(own) # Undef
    BY <1>2, ClaimsMeaning
  <2>2. At(Merged, "claims") = ClaimsProperties(own)
    BY <1>1, <2>1, MergedFields DEF At
  <2>3. Has(RequestPayloadOf(rp), "claims")
    BY <1>2, UndefinedIsFalse DEF AsksFor, Truthy, At, Has, Keys, Undef
  <2>4. either = own
    BY <2>3, Spreading DEF EitherClaims, At
  <2>5. QED
    BY <1>2, <2>2, <2>4 DEF VpTokenOf
<1>3. CASE ~AsksFor(own)
  <2>1. ~Has(object, "claims")
    BY <1>1, <1>3, ClaimsMeaning
  <2>2. VpTokenOf(Merged) = VpTokenOf(received)
    BY <2>1, MergedFields DEF VpTokenOf
  <2>3. stage \in AfterReading
    BY DEF Understood, AfterReading
  <2>4. ~Has(createRequestRegistrationPayload(rp), "claims")
    BY RegistrationPayload DEF MetadataKey, ReferenceKey
  <2>5. At(received, "claims") = IF IsTrue(Enclosed(rp, "claims")) THEN ReadValue(Enclosed(rp, "claims"))
                                 ELSE Undef
    BY <2>3, ReceivedFields DEF At
  <2>6. Enclosed(rp, "claims") = IF At(rp, "payload") = Undef THEN Undef ELSE either
    BY <2>4 DEF Enclosed
  <2>7. CASE Enclosed(rp, "claims") = either /\ IsTrue(either)
    BY <1>3, <2>2, <2>5, <2>7, ClaimsAsRead DEF VpTokenOf
  <2>8. CASE Enclosed(rp, "claims") = Undef \/ ~IsTrue(either)
    <3>1. At(received, "claims") = Undef
      BY <2>5, <2>6, <2>8, UndefinedIsFalse
    <3>2. Keys(VpTokenOf(received)) = {}
      BY <3>1 DEF VpTokenOf, At, Has, Keys, Undef
    <3>3. ~AsksFor(either)
      <4>1. CASE ~IsTrue(either)
        <5>1. ~IsObject(either)
          BY <4>1, ObjectsAreTrue
        <5>2. QED
          BY <5>1, UndefinedIsFalse DEF AsksFor, Truthy, At, Has, Keys, IsObject, Undef
      <4>2. CASE At(rp, "payload") = Undef
        <5>1. ~Has(At(rp, "payload"), "claims")
          BY <4>2 DEF Has, Keys, Undef
        <5>2. either = own
          BY <5>1, Spreading DEF EitherClaims, At
        <5>3. QED
          BY <1>3, <5>2
      <4>3. QED
        BY <2>6, <2>8, <4>1, <4>2, UndefinedIsFalse
    <3>4. QED
      BY <1>3, <2>2, <3>2, <3>3
  <2>9. QED
    BY <2>6, <2>7, <2>8
<1>4. QED
  BY <1>2, <1>3

\* What the RP asked for in the claims is in those that the OP finds.
LEMMA DefinitionInClaims ==
  ASSUME DeliveryInv, Understood, AsksFor(EitherClaims(rp))
  PROVE  \E k \in DefinitionPlaces : Has(VpTokenOf(Merged), k)
<1> DEFINE own == At(RequestPayloadOf(rp), "claims")
           either == EitherClaims(rp)
<1>1. \E k \in DefinitionPlaces : Has(At(either, "vp_token"), k)
  BY UndefinedIsFalse DEF AsksFor, Truthy, At, DefinitionPlaces
<1>2. CASE AsksFor(own)
  <2>1. PICK way \in DefinitionPlaces :
          At(ClaimsProperties(own), "vp_token") = Object([j \in {way} |-> At(own, "vp_token").at[j]])
    BY <1>2, ClaimsMeaning
  <2>2. Has(VpTokenOf(Merged), way)
    BY <1>2, <2>1, MergedClaims, UnderstoodIsIssued DEF Object, Has, Keys
  <2>3. QED
    BY <2>2
<1>3. CASE ~AsksFor(own)
  BY <1>1, <1>3, MergedClaims, UnderstoodIsIssued DEF Has
<1>4. QED
  BY <1>2, <1>3

LEMMA DefinitionsFound ==
  ASSUME NEW place, NEW d
  PROVE  /\ DefinitionsAt(place, d) = <<>> \/ \E e : DefinitionsAt(place, d) = <<e>>
         /\ DefinitionsAt(place, d) = <<>> <=> \A k \in DefinitionPlaces : ~Has(place, k)
         /\ Has(place, "presentation_definition") =>
              DefinitionsAt(place, d) = <<place.at["presentation_definition"]>>
  BY DEF DefinitionsAt, DefinitionPlaces

LEMMA NothingAtTheTop ==
  ASSUME DeliveryInv, Understood, ~IsDraft11(rp), NEW d
  PROVE  /\ DefinitionsAt(Merged, d) = <<>>
         /\ findPresentationDefinitions(Merged, versions[1], d) = DefinitionsAt(VpTokenOf(Merged), d)
<1>1. versions = <<70>>
  BY MarkedByDraft, Recognition, UnderstoodIsIssued DEF WithoutDraft1
<1>2. WithoutDraft11(Merged)
  BY <1>1, Recognition
<1>3. DefinitionsAt(Merged, d) = <<>>
  BY <1>2, TopLevelFields, DefinitionsFound, UnderstoodIsIssued
<1>4. findPresentationDefinitions(Merged, versions[1], d) = DefinitionsAt(VpTokenOf(Merged), d) \o <<>>
  BY <1>1, <1>3 DEF findPresentationDefinitions
<1>5. \A s : (s = <<>> \/ \E e : s = <<e>>) => s \o <<>> = s
  OBVIOUS
<1>6. QED
  BY <1>3, <1>4, <1>5, DefinitionsFound

LEMMA ClaimsAreDraft1 ==
  ASSUME DeliveryInv, Understood, NEW k, Has(VpTokenOf(Merged), k)
  PROVE  versions = <<70>> /\ ~IsDraft11(rp)
<1>1. Truthy(At(Merged, "claims"), "vp_token")
  <2>1. IsObject(VpTokenOf(Merged))
    BY DEF Has, Keys, IsObject
  <2>2. QED
    BY <2>1, ObjectsAreTrue DEF VpTokenOf, Truthy
<1>2. versions = <<70>>
  BY <1>1, Recognition DEF WithoutDraft1
<1>3. WithoutDraft11(Merged)
  BY <1>2, Recognition
<1>4. QED
  BY <1>2, <1>3, MarkedByDraft, UnderstoodIsIssued DEF WithoutDraft11

LEMMA NothingArrives ==
  ASSUME DeliveryInv, Understood, ~AskedAnywhere(rp)
  PROVE  found = <<>>
<1> DEFINE own == At(RequestPayloadOf(rp), "claims")
<1>1. \A k \in DefinitionPlaces : ~Has(Wanted(rp), k) /\ ~Has(At(rp, "payload"), k)
  <2>1. \A k : ~Has(Undef, k)
    BY DEF Has, Keys, Undef
  <2>2. QED
    BY <2>1 DEF AskedAnywhere, DefinitionsIn
<1>2. ~AsksFor(EitherClaims(rp))
  BY <1>1, UndefinedIsFalse DEF AsksFor, Truthy, At, DefinitionPlaces, Wanted
<1>3. ~AsksFor(own)
  BY <1>2, MergedClaims, UnderstoodIsIssued
<1>4. \A k \in DefinitionPlaces : ~Has(VpTokenOf(Merged), k)
  BY <1>1, <1>3, MergedClaims, UnderstoodIsIssued DEF Wanted, Has
<1>5. \A k \in DefinitionPlaces : ~Has(Merged, k)
  BY <1>1, TopLevelFields, UndefinedIsFalse, UnderstoodIsIssued DEF At
<1>6. PICK d : found = findPresentationDefinitions(Merged, versions[1], d)
  BY DEF DeliveryInv, KnownFromRequest
<1>7. DefinitionsAt(VpTokenOf(Merged), d) = <<>> /\ DefinitionsAt(Merged, d) = <<>>
  BY <1>4, <1>5, DefinitionsFound
<1>8. found = <<>> \o <<>>
  BY <1>6, <1>7 DEF findPresentationDefinitions
<1>9. QED
  BY <1>8

LEMMA SomethingArrives ==
  ASSUME DeliveryInv, Understood,
         AsksFor(EitherClaims(rp)) \/ \E k \in DefinitionPlaces : Truthy(At(rp, "payload"), k)
  PROVE  found # <<>>
<1>1. PICK d : found = findPresentationDefinitions(Merged, versions[1], d)
  BY DEF DeliveryInv, KnownFromRequest
<1> DEFINE inClaims == IF versions[1] < 110 THEN DefinitionsAt(VpTokenOf(Merged), d) ELSE <<>>
           atTop    == DefinitionsAt(Merged, d)
<1>2. found = inClaims \o atTop
  BY <1>1 DEF findPresentationDefinitions
<1>3. /\ inClaims = <<>> \/ \E e : inClaims = <<e>>
      /\ atTop = <<>> \/ \E e : atTop = <<e>>
  BY DefinitionsFound
<1>4. ASSUME AsksFor(EitherClaims(rp)) PROVE inClaims # <<>>
  <2>1. PICK k \in DefinitionPlaces : Has(VpTokenOf(Merged), k)
    BY <1>4, DefinitionInClaims
  <2>2. versions = <<70>>
    BY <2>1, ClaimsAreDraft1
  <2>3. DefinitionsAt(VpTokenOf(Merged), d) # <<>>
    BY <2>1, DefinitionsFound
  <2>4. versions[1] < 110
    BY <2>2
  <2>5. QED
    BY <2>3, <2>4
<1>5. ASSUME \E k \in DefinitionPlaces : Truthy(At(rp, "payload"), k) PROVE atTop # <<>>
  <2>1. PICK k \in DefinitionPlaces : Has(Merged, k)
    BY <1>5, TopLevelFields, UnderstoodIsIssued DEF Truthy
  <2>2. QED
    BY <2>1, DefinitionsFound
<1> HIDE DEF inClaims, atTop
<1>6. inClaims # <<>> \/ atTop # <<>>
  BY <1>4, <1>5
<1>7. \A e, f : <<e>> \o <<f>> # <<>> /\ <<e>> \o <<>> # <<>> /\ <<>> \o <<f>> # <<>>
  OBVIOUS
<1>8. QED
  BY <1>2, <1>3, <1>6, <1>7

(***************************************************************************)
(* For any options, a request is answered with one presentation if it asks *)
(* for one in its claims or at the top level of the payload, and with none *)
(* if no option of the RP mentions a definition, whatever the OP holds.    *)
(***************************************************************************)
THEOREM PresentedExactlyIfAsked == Spec => []PresentedAsAsked
<1>1. DeliveryInv => PresentedAsAsked
  <2> SUFFICES ASSUME DeliveryInv, stage \in {"answered", "accepted"} PROVE PresentedAsAsked
    BY DEF PresentedAsAsked
  <2>1. Understood
    BY DEF Understood
  <2>2. PICK matching : PresentationsFit(op, matching)
    BY DEF DeliveryInv, AnsweredWithReason
  <2>3. /\ found = <<>> => Presented(op) = 0
        /\ found # <<>> => Presented(op) = 1
    BY <2>2 DEF PresentationsFit
  <2>4. ~AskedAnywhere(rp) => found = <<>>
    BY <2>1, NothingArrives
  <2>5. AsksFor(EitherClaims(rp)) \/ (\E k \in DefinitionPlaces : Truthy(At(rp, "payload"), k)) => found # <<>>
    BY <2>1, SomethingArrives
  <2>6. QED
    BY <2>3, <2>4, <2>5 DEF PresentedAsAsked
<1>2. QED
  BY <1>1, Delivery, PTL

-----------------------------------------------------------------------------
\* In the query, the metadata are under the key of the draft, if they are there.
LEMMA MetadataInQuery ==
  ASSUME DeliveryInv, stage \in {"sent"} \cup AfterReading, NoMetadataBesides, NEW k \in RegistrationKeys
  PROVE  LET query == decodeUriAsJson(outer)
             part  == createRequestRegistrationPayload(rp)
         IN  /\ Has(query, k) <=> Has(part, k) /\ At(rp, "payload") # Undef /\ IsTrue(part.at[k])
             /\ Has(query, k) => query.at[k] = ReadValue(part.at[k])
<1> DEFINE part == createRequestRegistrationPayload(rp)
           query == decodeUriAsJson(outer)
<1>1. At(At(rp, "payload"), k) = Undef
  BY DEF DeliveryInv, OptionsHeld, NoMetadataBesides, rp, At
<1>2. Enclosed(rp, k) = IF At(rp, "payload") # Undef /\ Has(part, k) THEN part.at[k] ELSE Undef
  BY <1>1 DEF Enclosed, RegistrationKeys
<1>3. /\ Has(query, k) <=> IsTrue(Enclosed(rp, k))
      /\ Has(query, k) => query.at[k] = ReadValue(Enclosed(rp, k))
  BY QueryFields DEF RegistrationKeys
<1> HIDE DEF query, part
<1>4. /\ Has(query, k) <=> Has(part, k) /\ At(rp, "payload") # Undef /\ IsTrue(part.at[k])
      /\ Has(query, k) => query.at[k] = ReadValue(part.at[k])
  BY <1>2, <1>3, UndefinedIsFalse
<1>5. QED
  BY <1>4 DEF query, part

LEMMA MetadataArrive ==
  ASSUME DeliveryInv, Issued, stage \in AfterReading, NoMetadataBesides, MetadataInside(rp), ~Referred(rp)
  PROVE  /\ DiscoveryKey(Merged) = MetadataKey(rp)
         /\ ~IsTrue(At(Merged, ReferenceKey[DiscoveryKey(Merged)]))
         /\ \A served : MetadataAt(Merged, served) = createRPRegistrationMetadataPayload(ClientMetadataOf(rp))
<1> DEFINE made == createRPRegistrationMetadataPayload(ClientMetadataOf(rp))
           key == MetadataKey(rp)
<1>1. ~IsTrue(At(ClientMetadataOf(rp), "referenceUri"))
  BY DEF Referred, Truthy
<1>2. \A k \in RegistrationKeys : Has(received, k) => k = key
  <2>1. received = decodeUriAsJson(outer)
    BY DEF DeliveryInv, KnownFromRequest
  <2>2. QED
    BY <2>1, MetadataInQuery, RegistrationPayload
<1>3. Has(object, key) /\ object.at[key] = made
  BY <1>1, ObjectMetadata DEF MetadataKey
<1>4. At(Merged, key) = made /\ IsTrue(made)
  BY <1>3, MergedFields, MetadataIsObject, ObjectsAreTrue
<1>5. \A k \in RegistrationKeys \ {key} : ~Truthy(Merged, k)
  <2>1. SUFFICES ASSUME NEW k \in RegistrationKeys \ {key} PROVE ~Truthy(Merged, k)
    OBVIOUS
  <2>2. ~Truthy(object, k)
    BY <1>1, <2>1, ObjectMetadata, UndefinedIsFalse DEF RegistrationKeys, MetadataKey, Truthy, At
  <2>3. ~Has(received, k)
    BY <1>2, <2>1
  <2>4. At(Merged, k) = At(object, k)
    BY <2>3, MergedFields DEF At
  <2>5. QED
    BY <2>2, <2>4 DEF Truthy
<1>6. DiscoveryKey(Merged) = key
  BY <1>4, <1>5 DEF DiscoveryKey, MetadataKey, RegistrationKeys, Truthy
<1>7. ~IsTrue(At(Merged, ReferenceKey[key]))
  BY <1>5 DEF ReferenceKey, MetadataKey, RegistrationKeys, Truthy
<1>8. QED
  BY <1>4, <1>6, <1>7 DEF MetadataAt, fetchByReferenceOrUseByValue

LEMMA ClaimedDefinitionArrives ==
  ASSUME DeliveryInv, Understood, NoEmptyDefinition,
         Has(At(At(RequestPayloadOf(rp), "claims"), "vp_token"), "presentation_definition"),
         ~Has(Wanted(rp), "presentation_definition_uri")
  PROVE  found = <<Wanted(rp).at["presentation_definition"]>>
<1> DEFINE own == At(RequestPayloadOf(rp), "claims")
           vpToken == At(own, "vp_token")
<1>1. Has(RequestPayloadOf(rp), "claims")
  BY DEF At, Has, Keys, Undef
<1>2. EitherClaims(rp) = own /\ Wanted(rp) = vpToken
  BY <1>1, Spreading DEF EitherClaims, Wanted, At
<1>3. Truthy(vpToken, "presentation_definition")
  <2>1. setting \in Settings
    BY DEF DeliveryInv, OptionsHeld
  <2>2. QED
    BY <1>2, <2>1 DEF NoEmptyDefinition, rp, DefinitionPlaces
<1>4. AsksFor(own)
  BY <1>3 DEF AsksFor
<1>5. VpTokenOf(Merged) = Object([j \in {"presentation_definition"} |-> vpToken.at[j]])
  BY <1>2, <1>4, ClaimsMeaning, MergedClaims, UnderstoodIsIssued
<1>6. /\ Has(VpTokenOf(Merged), "presentation_definition")
      /\ VpTokenOf(Merged).at["presentation_definition"] = vpToken.at["presentation_definition"]
      /\ IsObject(VpTokenOf(Merged))
  BY <1>5 DEF Object, Has, Keys, IsObject
<1>7. ~IsDraft11(rp)
  BY <1>6, ClaimsAreDraft1
<1>8. PICK d : found = findPresentationDefinitions(Merged, versions[1], d)
  BY DEF DeliveryInv, KnownFromRequest
<1>9. found = DefinitionsAt(VpTokenOf(Merged), d)
  BY <1>7, <1>8, NothingAtTheTop
<1>10. QED
  BY <1>2, <1>6, <1>9, DefinitionsFound

LEMMA TopDefinitionArrives ==
  ASSUME DeliveryInv, Understood, DefinitionsAreValues,
         NEW d, d = At(At(rp, "payload"), "presentation_definition"),
         d # Undef, EscapedLetter \notin TextsOf(d)
  PROVE  found = <<d>>
<1>1. IsTrue(d) /\ JsonValue(d)
  BY DEF DeliveryInv, OptionsHeld, DefinitionsAreValues, At, rp
<1>2. /\ Has(Merged, "presentation_definition") /\ Merged.at["presentation_definition"] = ReadValue(d)
      /\ Readable(d) /\ ~WithoutDraft11(Merged)
  BY <1>1, TopLevelFields, UnderstoodIsIssued DEF DefinitionPlaces
<1>3. WithoutDraft1(Merged)
  BY <1>2, Recognition
<1>4. Keys(VpTokenOf(Merged)) = {}
  BY <1>3, ObjectsAreTrue DEF WithoutDraft1, Truthy, VpTokenOf, Keys, IsObject
<1>5. PICK e : /\ found = findPresentationDefinitions(Merged, versions[1], e)
               /\ DefinitionsValid(Merged, versions[1], e)
  BY DEF DeliveryInv, KnownFromRequest
<1>6. DefinitionsAt(VpTokenOf(Merged), e) = <<>>
  BY <1>4, DefinitionsFound DEF Has
<1>7. DefinitionsAt(Merged, e) = <<ReadValue(d)>>
  BY <1>2, DefinitionsFound
<1>8. found = <<>> \o <<ReadValue(d)>>
  BY <1>5, <1>6, <1>7 DEF findPresentationDefinitions
<1>9. found = <<ReadValue(d)>>
  BY <1>8
\* What PEX accepts has been read from an object: all else is read as a text.
<1>10. IsObject(ReadValue(d))
  <2>1. \A i \in DOMAIN found : PexAccepts(found[i])
    BY <1>5 DEF DefinitionsValid
  <2>2. 1 \in DOMAIN found /\ found[1] = ReadValue(d)
    BY <1>9
  <2>3. QED
    BY <2>1, <2>2 DEF PexAccepts
<1>11. IsObject(d)
  BY <1>10 DEF IsObject, ReadValue, Reread, WithMembers, String
<1>12. ReadValue(d) = d
  BY <1>1, <1>2, <1>11, ReadAsItIs DEF Readable, ReadValue, IsObject
<1>13. QED
  BY <1>9, <1>12

(***************************************************************************)
(* The metadata and the definition that the RP was given are what the OP   *)
(* finds, through signing, the query, and the reading of the query: for    *)
(* any options as above whose definitions in the payload are JSON values.  *)
(***************************************************************************)
THEOREM WhatWasGivenArrives ==
  ASSUME NoMetadataBesides, NoEmptyDefinition, DefinitionsAreValues
  PROVE  Spec => []RequestArrives
<1>1. DeliveryInv => RequestArrives
  <2> SUFFICES ASSUME DeliveryInv, Understood PROVE RequestArrives
    BY DEF RequestArrives
  <2>1. MetadataInside(rp) /\ ~Referred(rp) =>
          metadata = createRPRegistrationMetadataPayload(ClientMetadataOf(rp))
    BY MetadataArrive, UnderstoodIsIssued DEF DeliveryInv, KnownFromRequest
  <2>2. Has(At(At(RequestPayloadOf(rp), "claims"), "vp_token"), "presentation_definition") =>
          Has(Wanted(rp), "presentation_definition_uri") \/ found = <<Wanted(rp).at.presentation_definition>>
    BY ClaimedDefinitionArrives
  <2>3. LET d == At(At(rp, "payload"), "presentation_definition")
        IN  d # Undef /\ EscapedLetter \notin TextsOf(d) => found = <<d>>
    BY TopDefinitionArrives
  <2>4. ~AskedAnywhere(rp) => found = <<>>
    BY NothingArrives
  <2>5. QED
    BY <2>1, <2>2, <2>3, <2>4 DEF RequestArrives
<1>2. QED
  BY <1>1, Delivery, PTL

-----------------------------------------------------------------------------
(***************************************************************************)
(* What the schema of the options says of the parts that a request is made *)
(* from.                                                                   *)
(***************************************************************************)
OptionTexts == {"scope", "response_type", "client_id", "redirect_uri", "id_token_hint", "nonce", "state"}

LEMMA PayloadOptions ==
  ASSUME NEW p, PayloadOptsBesidesClaims(p)
  PROVE  /\ \A k \in OptionTexts : Has(p, k) => IsString(p.at[k])
         /\ Has(p, "response_mode") => ResponseMode(p.at["response_mode"])
  BY DEF PayloadOptsBesidesClaims, Properties, OptionTexts, Has

LEMMA SignatureDid ==
  ASSUME NEW sig, SignatureType(sig)
  PROVE  Has(sig, "did") /\ IsString(sig.at["did"])
<1>1. \A ks, required : SignatureOf(sig, ks, required) /\ "did" \in required \cap ks =>
        Has(sig, "did") /\ IsString(sig.at["did"])
  BY DEF SignatureOf, Requires, Properties, Has
<1>2. QED
  BY <1>1 DEF SignatureType, InternalSignature, ExternalSignature, SuppliedSignature, NoSignature

LEMMA OptionsOfRequests ==
  ASSUME NEW o, CreateAuthorizationRequestOpts(o)
  PROVE  LET p   == At(o, "payload")
             own == RequestPayloadOf(o)
         IN  /\ SignatureType(RequestObjectOf(o).at["signatureType"])
             /\ Has(RequestObjectOf(o), "referenceUri") => IsString(RequestObjectOf(o).at["referenceUri"])
             /\ Has(RequestObjectOf(o), "payload") <=> own # Undef
             /\ own # Undef => PayloadOptsBesidesClaims(own) /\ Requires(own, RequiredOfRequestObject)
             /\ Has(own, "claims") => IsObject(own.at["claims"])
             /\ Has(o, "payload") <=> p # Undef
             /\ p # Undef => PayloadOptsBesidesClaims(p)
             /\ Has(p, "claims") => IsObject(p.at["claims"])
             /\ Has(p, "request_uri") => IsString(p.at["request_uri"])
             /\ Has(o, "clientMetadata") => ClientMetadataOpts(ClientMetadataOf(o))
<1> DEFINE ro == RequestObjectOf(o)
           own == RequestPayloadOf(o)
           p == At(o, "payload")
<1>1. Has(o, "requestObject") /\ RequestObjectOf(o) = o.at["requestObject"]
  BY DEF CreateAuthorizationRequestOpts, AuthorizationRequestOptsVID1, AuthorizationRequestOptsVD11,
         Requires, Has, RequestObjectOf, At
<1>2. RequestObjectOptsVID1(ro) \/ RequestObjectOptsCommon(ro)
  BY <1>1 DEF CreateAuthorizationRequestOpts, AuthorizationRequestOptsVID1, AuthorizationRequestOptsVD11
<1>3. /\ Has(o, "clientMetadata") => ClientMetadataOpts(o.at["clientMetadata"])
      /\ Has(o, "payload") => AuthorizationRequestPayloadOptsVID1(o.at["payload"])
                                \/ AuthorizationRequestPayloadOptsCommon(o.at["payload"])
  BY DEF CreateAuthorizationRequestOpts, AuthorizationRequestOptsVID1, AuthorizationRequestOptsVD11,
         Properties, Has
<1> HIDE DEF ro
<1>4. /\ SignatureType(ro.at["signatureType"])
      /\ Has(ro, "referenceUri") => IsString(ro.at["referenceUri"])
      /\ Has(ro, "payload") => RequestObjectPayloadOptsVID1(ro.at["payload"])
                                 \/ RequestObjectPayloadOptsCommon(ro.at["payload"])
  BY <1>2 DEF RequestObjectOptsVID1, RequestObjectOptsCommon, RequestObjectOptsBesidesPayload,
              Properties, Has
<1>5. \A v : ClaimPayloadOptsVID1(v) \/ ClaimPayloadCommonOpts(v) => IsObject(v)
  BY DEF ClaimPayloadOptsVID1, ClaimPayloadCommonOpts
<1>6. \A v : RequestObjectPayloadOptsVID1(v) \/ RequestObjectPayloadOptsCommon(v) =>
        /\ PayloadOptsBesidesClaims(v) /\ Requires(v, RequiredOfRequestObject)
        /\ Has(v, "claims") => IsObject(v.at["claims"])
  BY <1>5 DEF RequestObjectPayloadOptsVID1, RequestObjectPayloadOptsCommon, Properties, Has
<1>7. \A v : AuthorizationRequestPayloadOptsVID1(v) \/ AuthorizationRequestPayloadOptsCommon(v) =>
        /\ PayloadOptsBesidesClaims(v)
        /\ Has(v, "claims") => IsObject(v.at["claims"])
        /\ Has(v, "request_uri") => IsString(v.at["request_uri"])
  BY <1>5 DEF AuthorizationRequestPayloadOptsVID1, AuthorizationRequestPayloadOptsCommon, Properties, Has
<1>8. \A v : PayloadOptsBesidesClaims(v) => v # Undef
  BY DEF PayloadOptsBesidesClaims, IsObject, Undef
<1>9. /\ own = IF Has(ro, "payload") THEN ro.at["payload"] ELSE Undef
      /\ p = IF Has(o, "payload") THEN o.at["payload"] ELSE Undef
  BY DEF RequestPayloadOf, At, ro
<1>10. Keys(Undef) = {}
  BY DEF Keys, Undef
<1> HIDE DEF own, p
<1>11. /\ Has(ro, "payload") <=> own # Undef
       /\ own # Undef => PayloadOptsBesidesClaims(own) /\ Requires(own, RequiredOfRequestObject)
       /\ Has(own, "claims") => IsObject(own.at["claims"])
  BY <1>4, <1>6, <1>8, <1>9, <1>10 DEF Has
<1>12. /\ Has(o, "payload") <=> p # Undef
       /\ p # Undef => PayloadOptsBesidesClaims(p)
       /\ Has(p, "claims") => IsObject(p.at["claims"])
       /\ Has(p, "request_uri") => IsString(p.at["request_uri"])
  BY <1>3, <1>7, <1>8, <1>9, <1>10 DEF Has
<1>13. Has(o, "clientMetadata") => ClientMetadataOpts(ClientMetadataOf(o))
  BY <1>3 DEF ClientMetadataOf, At
<1>14. QED
  BY <1>4, <1>11, <1>12, <1>13 DEF own, p, ro

LEMMA ClaimsAreObjects ==
  ASSUME NEW o, CreateAuthorizationRequestOpts(o), EitherClaims(o) # Undef
  PROVE  IsObject(EitherClaims(o))
<1>1. EitherClaims(o) = IF Has(RequestPayloadOf(o), "claims") THEN RequestPayloadOf(o).at["claims"]
                        ELSE At(At(o, "payload"), "claims")
  BY Spreading DEF EitherClaims
<1>2. QED
  BY <1>1, OptionsOfRequests DEF At

\* The metadata in the options of an RP that issues a request.
LEMMA OptionsOfMetadata ==
  ASSUME DeliveryInv, stage \in {"created"} \cup AfterSigning
  PROVE  LET m    == ClientMetadataOf(rp)
             made == createRPRegistrationMetadataPayload(m)
         IN  /\ CreateAuthorizationRequestOpts(rp) /\ assertValidAuthorizationRequestOpts(rp)
             /\ ClientMetadataOpts(m) /\ RPRegistrationMetadataPayload(made)
             /\ ~MetadataInside(rp) => Referred(rp)
             /\ Referred(rp) => IsString(At(m, "referenceUri"))
             /\ ~EmptyList(At(m, "subjectSyntaxTypesSupported")) =>
                  /\ assertValidRPRegistrationMetadataPayload(made)
                  /\ assertValidRPRegistrationMetadataPayload(Reread(made))
             /\ At(made, "subject_syntax_types_supported").is = "array"
             /\ At(Reread(made), "subject_syntax_types_supported").is = "array"
<1> DEFINE m == ClientMetadataOf(rp)
           made == createRPRegistrationMetadataPayload(m)
           types == made.at["subject_syntax_types_supported"]
<1>1. CreateAuthorizationRequestOpts(rp) /\ assertValidAuthorizationRequestOpts(rp)
  BY DEF DeliveryInv, OptionsHeld
<1>2. Has(rp, "clientMetadata")
  BY <1>1 DEF assertValidAuthorizationRequestOpts, assertValidRequestRegistrationOpts, ClientMetadataOf, At
<1>3. ClientMetadataOpts(m) /\ RPRegistrationMetadataPayload(made)
  BY <1>1, <1>2, OptionsOfRequests, RPPublished
<1>4. ~MetadataInside(rp) => Referred(rp)
  BY <1>1 DEF assertValidAuthorizationRequestOpts, assertValidRequestRegistrationOpts, PassByValid,
              MetadataInside, Referred
<1>5. Referred(rp) => IsString(At(m, "referenceUri"))
  BY <1>3, UndefinedIsFalse DEF Referred, Truthy, At, ClientMetadataOpts, Properties, Has
<1>6. /\ Has(made, "subject_syntax_types_supported")
      /\ types = OrElse(m, "subjectSyntaxTypesSupported", TextList(<<"did:web:", "did:ion:">>))
  <2>1. "subject_syntax_types_supported" \in MetadataFields
    BY DEF MetadataFields, DiscoveryNames
  <2>2. QED
    BY <2>1, RPFields
<1>7. /\ RPRegistrationMetadataPayload(Reread(made))
      /\ Has(Reread(made), "subject_syntax_types_supported")
      /\ DOMAIN Reread(made).at["subject_syntax_types_supported"].of = DOMAIN types.of
  BY <1>3, <1>6, MetadataRead
<1> HIDE DEF made, m
<1>8. types.is = "array" /\ Reread(made).at["subject_syntax_types_supported"].is = "array"
  BY <1>3, <1>6, <1>7 DEF RPRegistrationMetadataPayload, Properties, Has, Strings, ArrayOf
<1>9. ASSUME ~EmptyList(At(m, "subjectSyntaxTypesSupported")) PROVE DOMAIN types.of # {}
  <2>1. CASE types = TextList(<<"did:web:", "did:ion:">>)
    BY <2>1 DEF TextList, Array
  <2>2. CASE types = At(m, "subjectSyntaxTypesSupported")
    BY <1>8, <1>9, <2>2 DEF EmptyList
  <2>3. QED
    BY <1>6, <2>1, <2>2 DEF OrElse, At
<1>10. \A v : v = Array(<<>>) => DOMAIN v.of = {}
  BY DEF Array
<1>11. QED
  BY <1>1, <1>3, <1>4, <1>5, <1>6, <1>7, <1>8, <1>9, <1>10
  DEF assertValidRPRegistrationMetadataPayload, At, made, m

\* What is signed for a DID says so, in a text.
LEMMA SignedByDid ==
  ASSUME DeliveryInv, stage \in {"created"} \cup AfterSigning
  PROVE  /\ Has(SignatureOfRequest, "did") /\ IsString(SignatureOfRequest.at["did"])
         /\ SignatureOfRequest.at["did"] = RequestObjectOf(rp).at["signatureType"].at["did"]
<1> DEFINE sig == RequestObjectOf(rp).at["signatureType"]
<1>1. CreateAuthorizationRequestOpts(rp)
  BY DEF DeliveryInv, OptionsHeld
<1>2. Has(sig, "did") /\ IsString(sig.at["did"])
  BY <1>1, OptionsOfRequests, SignatureDid
<1>3. sig.at["did"] # Function
  BY <1>2 DEF IsString, Function
<1>4. SignatureOfRequest = JsonCopy(sig)
  BY DEF SignatureOfRequest
<1> HIDE DEF sig
<1>5. Has(SignatureOfRequest, "did") /\ SignatureOfRequest.at["did"] = sig.at["did"]
  BY <1>2, <1>3, <1>4 DEF JsonCopy, Object, Has, Keys
<1>6. QED
  BY <1>2, <1>5 DEF sig

(***************************************************************************)
(* What a signed request object has, and that it is as the schemas demand. *)
(***************************************************************************)
LEMMA SignedStamp ==
  ASSUME NEW payload, NEW did
  PROVE  LET signed == Signed(payload, did)
         IN  /\ IsObject(signed)
             /\ Has(signed, "iss") /\ signed.at["iss"] = did
             /\ Has(signed, "iat") /\ signed.at["iat"] = Number(1)
             /\ Has(signed, "exp") /\ signed.at["exp"] = Number(2)
<1> DEFINE stamp == Object([iss |-> did, iat |-> Number(1), exp |-> Number(2)])
           rest == IF Truthy(payload, "registration_uri") THEN Without(payload, {"registration"}) ELSE payload
<1>1. /\ Has(stamp, "iss") /\ stamp.at["iss"] = did
      /\ Has(stamp, "iat") /\ stamp.at["iat"] = Number(1)
      /\ Has(stamp, "exp") /\ stamp.at["exp"] = Number(2)
  BY DEF Object, Has, Keys
<1> HIDE DEF stamp, rest
<1>2. Signed(payload, did) = Spread(rest, stamp)
  BY DEF Signed, rest, stamp
<1>3. \A k : Has(stamp, k) => Has(Spread(rest, stamp), k) /\ Spread(rest, stamp).at[k] = stamp.at[k]
  BY Spreading DEF At
<1>4. IsObject(Spread(rest, stamp))
  BY DEF Spread, Object, IsObject
<1>5. QED
  BY <1>1, <1>2, <1>3, <1>4

ObjectTexts == {"response_type", "scope", "redirect_uri", "id_token_hint", "nonce", "state"}

LEMMA ObjectFits ==
  ASSUME DeliveryInv, Issued
  PROVE  /\ IsObject(object)
         /\ \A k \in TextFields \ {"client_id"} : Has(object, k) => IsString(object.at[k])
         /\ \A k \in TimeFields : Has(object, k) => IsNumber(object.at[k])
         /\ {"iss", "iat", "exp", "nonce", "state", "client_id", "response_mode"} \subseteq Keys(object)
         /\ ResponseMode(object.at["response_mode"])
         /\ ~Has(object, "aud")
         /\ object.at["client_id"] = ClientId(rp, RequestPayloadOf(rp))
         /\ Has(object, "registration_uri") => IsString(object.at["registration_uri"])
<1> DEFINE made == createRequestObjectPayload(rp)
           part == createRequestRegistrationPayload(rp)
           table == RequestObjectTable(rp)
           p == RequestPayloadOf(rp)
           did == SignatureOfRequest.at["did"]
           m == ClientMetadataOf(rp)
<1>1. stage \in AfterSigning
  BY DEF Issued
<1>2. p # Undef /\ object = Signed(made, did)
  BY DEF DeliveryInv, ObjectAsMade, Issued, createRequestObjectPayload, RequestPayloadOf
<1>3. IsString(did)
  BY <1>1, SignedByDid
<1>4. PayloadOptsBesidesClaims(p) /\ Requires(p, RequiredOfRequestObject)
  BY <1>1, <1>2, OptionsOfMetadata, OptionsOfRequests
<1>5. /\ DOMAIN table = {"response_type", "scope", "client_id", "redirect_uri", "response_mode",
                         "id_token_hint", "registration_uri", "nonce", "state", "claims"}
      /\ table["response_type"] = String("id_token") /\ table["scope"] = String("openid")
      /\ table["nonce"] = String("n") /\ table["state"] = String("s")
      /\ table["client_id"] = ClientId(rp, p)
      /\ table["redirect_uri"] = At(p, "redirect_uri") /\ table["id_token_hint"] = At(p, "id_token_hint")
      /\ table["response_mode"] = OrElse(p, "response_mode", String("post"))
      /\ table["registration_uri"] = At(m, "referenceUri")
  BY DEF RequestObjectTable
<1>6. \A k : Has(part, k) => k \in RegistrationKeys
  BY RegistrationPayload DEF MetadataKey, ReferenceKey, RegistrationKeys
<1>7. Has(part, "registration_uri") => Referred(rp) /\ part.at["registration_uri"] = At(m, "referenceUri")
  <2>1. Has(part, "registration_uri") => ~MetadataInside(rp) /\ part.at["registration_uri"] = m.at.referenceUri
    BY RegistrationPayload DEF MetadataKey, ReferenceKey
  <2>2. ~MetadataInside(rp) => Referred(rp) /\ Has(m, "referenceUri")
    BY <1>1, OptionsOfMetadata, UndefinedIsFalse DEF Referred, Truthy, At
  <2>3. QED
    BY <2>1, <2>2 DEF At
<1> HIDE DEF made, part, table, did, m
<1>8. \A k : /\ Has(made, k) <=> (k \in DOMAIN table /\ table[k] # Undef) \/ Has(part, k)
             /\ At(made, k) = IF Has(part, k) THEN part.at[k]
                              ELSE IF k \in DOMAIN table THEN table[k] ELSE Undef
  BY <1>2, RequestObjectMade DEF made, part, table
<1>9. /\ IsObject(object)
      /\ Has(object, "iss") /\ object.at["iss"] = did
      /\ Has(object, "iat") /\ object.at["iat"] = Number(1)
      /\ Has(object, "exp") /\ object.at["exp"] = Number(2)
  BY <1>2, SignedStamp
<1>10. \A k : k \notin {"iss", "iat", "exp", "registration"} =>
         /\ Has(object, k) <=> Has(made, k)
         /\ Has(object, k) => object.at[k] = At(made, k)
  BY <1>2, SignedFields DEF At
<1>11. \A k : k \notin {"iss", "iat", "exp"} \cup RegistrationKeys =>
         /\ Has(object, k) <=> k \in DOMAIN table /\ table[k] # Undef
         /\ Has(object, k) => object.at[k] = table[k]
  BY <1>6, <1>8, <1>10 DEF RegistrationKeys
<1>12. \A t : String(t) # Undef /\ IsString(String(t))
  BY DEF String, Undef, IsString
<1>13. Has(p, "redirect_uri") /\ IsString(At(p, "redirect_uri"))
  BY <1>4, PayloadOptions DEF Requires, RequiredOfRequestObject, Has, At, OptionTexts
<1>14. Has(p, "id_token_hint") => IsString(At(p, "id_token_hint"))
  BY <1>4, PayloadOptions DEF At, OptionTexts
<1>15. \A k \in ObjectTexts : Has(object, k) => IsString(object.at[k])
  BY <1>5, <1>11, <1>12, <1>13, <1>14 DEF ObjectTexts, RegistrationKeys, At
<1>16. \A k \in TextFields \ (ObjectTexts \cup {"client_id", "iss"}) : ~Has(object, k)
  BY <1>5, <1>11 DEF TextFields, ObjectTexts, RegistrationKeys
<1>17. \A k \in (TimeFields \ {"iat", "exp"}) \cup {"aud"} : ~Has(object, k)
  BY <1>5, <1>11 DEF TimeFields, RegistrationKeys
<1>18. Has(object, "nonce") /\ Has(object, "state")
  BY <1>5, <1>11, <1>12 DEF RegistrationKeys
<1>19. ResponseMode(table["response_mode"]) /\ table["response_mode"] # Undef
  <2>1. ResponseMode(String("post"))
    BY DEF ResponseMode, OneOf, String
  <2>2. Has(p, "response_mode") => ResponseMode(p.at["response_mode"])
    BY <1>4, PayloadOptions
  <2>3. ResponseMode(table["response_mode"])
    BY <1>5, <2>1, <2>2 DEF OrElse
  <2>4. ~ResponseMode(Undef)
    BY DEF ResponseMode, OneOf, Undef
  <2>5. QED
    BY <2>3, <2>4
<1>20. Has(object, "response_mode") /\ ResponseMode(object.at["response_mode"])
  BY <1>5, <1>11, <1>19 DEF RegistrationKeys
<1>21. ClientId(rp, p) # Undef
  <2>1. Has(p, "client_id") /\ IsString(p.at["client_id"])
    BY <1>4, PayloadOptions DEF Requires, RequiredOfRequestObject, Has, OptionTexts
  <2>2. createRPRegistrationMetadataPayload(ClientMetadataOf(rp)) # Undef
    BY MetadataIsObject DEF IsObject, Undef
  <2>3. RequestObjectOf(rp).at["signatureType"].at["did"] # Undef
    BY <1>1, SignedByDid DEF IsString, Undef
  <2>4. p.at["client_id"] # Undef
    BY <2>1 DEF IsString, Undef
  <2>5. QED
    BY <2>2, <2>3, <2>4 DEF ClientId, OrElse
<1>22. Has(object, "client_id") /\ object.at["client_id"] = ClientId(rp, p)
  BY <1>5, <1>11, <1>21 DEF RegistrationKeys
<1>23. Has(object, "registration_uri") => IsString(object.at["registration_uri"])
  <2>1. Has(object, "registration_uri") => object.at["registration_uri"] = At(m, "referenceUri")
    BY <1>5, <1>7, <1>8, <1>10
  <2>2. Has(object, "registration_uri") => At(m, "referenceUri") # Undef
    BY <1>5, <1>7, <1>8, <1>10, UndefinedIsFalse DEF Referred, Truthy, m
  <2>3. At(m, "referenceUri") # Undef => IsString(At(m, "referenceUri"))
    BY <1>1, OptionsOfMetadata DEF ClientMetadataOpts, Properties, At, Has, m
  <2>4. QED
    BY <2>1, <2>2, <2>3
<1>24. \A k \in TextFields \ {"client_id"} : Has(object, k) => IsString(object.at[k])
  BY <1>3, <1>9, <1>15, <1>16
<1>25. \A k \in TimeFields : Has(object, k) => IsNumber(object.at[k])
  BY <1>9, <1>17 DEF Number, IsNumber
<1>26. {"iss", "iat", "exp", "nonce", "state", "client_id", "response_mode"} \subseteq Keys(object)
  BY <1>9, <1>18, <1>20, <1>22 DEF Has
<1>27. QED
  BY <1>9, <1>17, <1>20, <1>22, <1>23, <1>24, <1>25, <1>26

-----------------------------------------------------------------------------
(***************************************************************************)
(* What travels in the query is never empty, and says where the request    *)
(* object is in texts.                                                     *)
(***************************************************************************)
LEMMA WithoutObject ==
  ASSUME DeliveryInv, stage \in AfterSigning
  PROVE  object = Undef <=> RequestPayloadOf(rp) = Undef
<1>1. createRequestObjectPayload(rp) = Undef <=> RequestPayloadOf(rp) = Undef
  BY RequestObjectMade DEF createRequestObjectPayload, RequestPayloadOf
<1>2. \A payload, did : Signed(payload, did) # Undef
  BY DEF Signed, Spread, Object, Undef
<1>3. QED
  BY <1>1, <1>2 DEF DeliveryInv, ObjectAsMade

LEMMA RequestInQuery ==
  ASSUME DeliveryInv, stage \in {"sent"} \cup AfterReading
  PROVE  /\ Keys(outer) # {}
         /\ Has(outer, "request_uri") => PassedBy(RequestObjectOf(rp), "REFERENCE")
         /\ \A k \in {"request", "request_uri"} : Has(outer, k) => IsString(outer.at[k])
<1> DEFINE ro == RequestObjectOf(rp)
           envelope == Without(Envelope(rp), {"request", "request_uri"})
<1>1. stage \in AfterSigning /\ outer = encodeJsonAsURI(Spread(envelope, RequestPart))
  BY DEF DeliveryInv, OuterAsMade, AfterSigning
<1>2. /\ CreateAuthorizationRequestOpts(rp) /\ PassByValid(ro)
      /\ Has(rp, "payload") \/ Has(ro, "payload")
      /\ PassByValid(ClientMetadataOf(rp))
  BY <1>1, OptionsOfMetadata DEF assertValidAuthorizationRequestOpts, assertValidRequestObjectOpts,
     assertValidRequestRegistrationOpts
<1>3. Has(ro, "referenceUri") => IsString(ro.at["referenceUri"])
  BY <1>2, OptionsOfRequests
<1>4. PassedBy(ro, "REFERENCE") => Has(ro, "referenceUri") /\ IsTrue(ro.at["referenceUri"])
  <2>1. PassedBy(ro, "REFERENCE") => Truthy(ro, "referenceUri")
    BY <1>2 DEF PassByValid, PassedBy
  <2>2. QED
    BY <2>1, UndefinedIsFalse DEF Truthy, At
<1>5. RequestPart = IF PassedBy(ro, "REFERENCE") THEN Object([request_uri |-> ro.at["referenceUri"]])
                    ELSE IF object = Undef THEN EmptyObject ELSE Object([request |-> String("ey...")])
  BY DEF RequestPart
<1>6. \A k : \A w : /\ Has(Object([request_uri |-> w]), k) <=> k = "request_uri"
                    /\ Object([request_uri |-> w]).at["request_uri"] = w
                    /\ Has(Object([request |-> w]), k) <=> k = "request"
                    /\ Object([request |-> w]).at["request"] = w
                    /\ ~Has(EmptyObject, k)
  BY DEF Object, Has, Keys, EmptyObject
<1>7. IsString(String("ey...")) /\ IsTrue(String("ey..."))
  BY DEF String, IsString, IsTrue
<1> HIDE DEF ro, envelope
<1>8. /\ Has(RequestPart, "request_uri") <=> PassedBy(ro, "REFERENCE")
      /\ Has(RequestPart, "request_uri") =>
           IsString(RequestPart.at["request_uri"]) /\ IsTrue(RequestPart.at["request_uri"])
      /\ Has(RequestPart, "request") <=> ~PassedBy(ro, "REFERENCE") /\ object # Undef
      /\ Has(RequestPart, "request") =>
           IsString(RequestPart.at["request"]) /\ IsTrue(RequestPart.at["request"])
  BY <1>3, <1>4, <1>5, <1>6, <1>7
<1>9. \A k \in {"request", "request_uri"} :
        /\ Has(outer, k) <=> Has(RequestPart, k)
        /\ Has(outer, k) => outer.at[k] = RequestPart.at[k]
  <2>1. SUFFICES ASSUME NEW k \in {"request", "request_uri"}
                 PROVE  /\ Has(outer, k) <=> Has(RequestPart, k)
                        /\ Has(outer, k) => outer.at[k] = RequestPart.at[k]
    OBVIOUS
  <2>2. At(envelope, k) = Undef
    BY Leaving DEF envelope
  <2>3. At(Spread(envelope, RequestPart), k) = IF Has(RequestPart, k) THEN RequestPart.at[k] ELSE Undef
    BY <2>2, Spreading
  <2>4. QED
    BY <1>1, <1>8, <2>3, Encoding, UndefinedIsFalse
<1>10. Keys(outer) # {}
  <2>1. CASE PassedBy(ro, "REFERENCE") \/ object # Undef
    BY <1>8, <1>9, <2>1 DEF Has
  <2>2. CASE ~PassedBy(ro, "REFERENCE") /\ object = Undef
    <3> DEFINE part == createRequestRegistrationPayload(rp)
               key == IF MetadataInside(rp) THEN MetadataKey(rp) ELSE ReferenceKey[MetadataKey(rp)]
    <3>1. RequestPayloadOf(rp) = Undef
      BY <1>1, <2>2, WithoutObject
    <3>2. ~Has(ro, "payload")
      BY <1>2, <3>1, OptionsOfRequests DEF ro
    <3>3. At(rp, "payload") # Undef
      BY <1>2, <3>2, OptionsOfRequests
    <3>4. /\ Has(part, key)
          /\ part.at[key] = IF MetadataInside(rp) THEN createRPRegistrationMetadataPayload(ClientMetadataOf(rp))
                            ELSE ClientMetadataOf(rp).at["referenceUri"]
      BY RegistrationPayload
    <3>5. IsTrue(part.at[key])
      <4>1. ~MetadataInside(rp) => IsTrue(ClientMetadataOf(rp).at["referenceUri"])
        BY <1>2, UndefinedIsFalse DEF PassByValid, MetadataInside, Truthy, At
      <4>2. QED
        BY <3>4, <4>1, MetadataIsObject, ObjectsAreTrue
    <3>6. key \notin {"nonce", "state", "request", "request_uri"}
      BY DEF MetadataKey, ReferenceKey
    <3> HIDE DEF part, key
    <3>7. Enclosed(rp, key) = part.at[key]
      BY <3>3, <3>4 DEF Enclosed, part
    <3>8. Has(outer, key)
      BY <3>5, <3>6, <3>7, QueryFields
    <3>9. QED
      BY <3>8 DEF Has
  <2>3. QED
    BY <2>1, <2>2
<1>11. QED
  BY <1>8, <1>9, <1>10 DEF ro

-----------------------------------------------------------------------------
(***************************************************************************)
(* The claims and definitions of the two payloads.                         *)
(***************************************************************************)
LEMMA ObjectClaims ==
  ASSUME DeliveryInv, Issued
  PROVE  LET own == At(RequestPayloadOf(rp), "claims")
         IN  /\ Has(object, "claims") <=> AsksFor(own)
             /\ At(object, "claims") = ClaimsProperties(own)
             /\ AsksFor(own) => EitherClaims(rp) = own
             /\ \A k \in DefinitionPlaces \cup {"id_token_type"} : ~Has(object, k)
<1> DEFINE made == createRequestObjectPayload(rp)
           table == RequestObjectTable(rp)
           part == createRequestRegistrationPayload(rp)
           own == At(RequestPayloadOf(rp), "claims")
<1>1. PICK did : object = Signed(made, did)
  BY ObjectFields
<1>2. /\ RequestPayloadOf(rp) # Undef
      /\ At(made, "claims") = ClaimsProperties(own)
      /\ Has(made, "claims") => made.at["claims"] # Undef
      /\ \A k \in DefinitionPlaces : ~Has(made, k)
  BY ObjectFields, RequestObjectFields
<1>3. ~Has(made, "id_token_type")
  <2>1. "id_token_type" \notin DOMAIN table
    BY DEF RequestObjectTable
  <2>2. ~Has(part, "id_token_type")
    BY RegistrationPayload DEF MetadataKey, ReferenceKey
  <2>3. QED
    BY <1>2, <2>1, <2>2, RequestObjectMade
<1> HIDE DEF made
<1>4. /\ Has(object, "claims") <=> Has(made, "claims")
      /\ At(object, "claims") = At(made, "claims")
      /\ \A k \in DefinitionPlaces \cup {"id_token_type"} : ~Has(object, k)
  BY <1>1, <1>2, <1>3, SignedFields DEF DefinitionPlaces
<1>5. Has(object, "claims") <=> AsksFor(own)
  BY <1>2, <1>4, ClaimsMeaning DEF At
<1>6. AsksFor(own) => EitherClaims(rp) = own
  <2>1. AsksFor(own) => Has(RequestPayloadOf(rp), "claims")
    BY UndefinedIsFalse DEF AsksFor, Truthy, At, Has, Keys, Undef
  <2>2. QED
    BY <2>1, Spreading DEF EitherClaims, At
<1>7. QED
  BY <1>2, <1>4, <1>5, <1>6

\* In the query the claims are those of either options, if these are not undefined.
LEMMA ReceivedClaims ==
  ASSUME DeliveryInv, stage \in AfterReading
  PROVE  LET either == EitherClaims(rp)
         IN  /\ Has(received, "claims") <=> At(rp, "payload") # Undef /\ either # Undef
             /\ Has(received, "claims") => IsObject(either) /\ received.at["claims"] = Reread(either)
<1>1. ~Has(createRequestRegistrationPayload(rp), "claims")
  BY RegistrationPayload DEF MetadataKey, ReferenceKey
<1>2. Enclosed(rp, "claims") = IF At(rp, "payload") = Undef THEN Undef ELSE EitherClaims(rp)
  BY <1>1 DEF Enclosed
<1>3. EitherClaims(rp) # Undef => IsObject(EitherClaims(rp)) /\ IsTrue(EitherClaims(rp))
  BY OptionsOfMetadata, ClaimsAreObjects, ObjectsAreTrue DEF AfterSigning
<1>4. \A v : IsObject(v) => ReadValue(v) = Reread(v)
  BY DEF ReadValue, IsObject
<1>5. QED
  BY <1>2, <1>3, <1>4, ReceivedFields, UndefinedIsFalse

\* What is good in the options is good where a request carries it.
LEMMA GoodIsValid ==
  ASSUME NEW place, NEW options, GoodDefinition(options),
         Keys(place) \subseteq Keys(options),
         \A k \in Keys(place) : SameShape(place.at[k], options.at[k])
  PROVE  /\ Exclusive(place)
         /\ \A d : \A i \in DOMAIN DefinitionsAt(place, d) : PexAccepts(DefinitionsAt(place, d)[i])
<1>1. ~Has(place, "presentation_definition_uri")
  BY DEF GoodDefinition, Has
<1>2. Exclusive(place)
  BY <1>1 DEF Exclusive, Has
<1>3. Has(place, "presentation_definition") => PexAccepts(place.at["presentation_definition"])
  <2>1. SUFFICES ASSUME Has(place, "presentation_definition")
                 PROVE  PexAccepts(place.at["presentation_definition"])
    OBVIOUS
  <2>2. PexAccepts(options.at["presentation_definition"])
    BY <2>1 DEF GoodDefinition, Has
  <2>3. SameShape(place.at["presentation_definition"], options.at["presentation_definition"])
    BY <2>1 DEF Has
  <2>4. QED
    BY <2>2, <2>3 DEF PexAccepts, SameShape, Requires, IsObject
<1>4. SUFFICES ASSUME NEW d, NEW i \in DOMAIN DefinitionsAt(place, d)
               PROVE  PexAccepts(DefinitionsAt(place, d)[i])
  BY <1>2
<1>5. DefinitionsAt(place, d) = IF Has(place, "presentation_definition")
                                  THEN <<place.at["presentation_definition"]>> ELSE <<>>
  BY <1>1 DEF DefinitionsAt
<1>6. Has(place, "presentation_definition")
  BY <1>4, <1>5
<1>7. DefinitionsAt(place, d) = <<place.at["presentation_definition"]>> /\ i = 1
  BY <1>4, <1>5, <1>6
<1>8. QED
  BY <1>3, <1>6, <1>7

GoodPlace(place) ==
  /\ Exclusive(place)
  /\ \A d : \A i \in DOMAIN DefinitionsAt(place, d) : PexAccepts(DefinitionsAt(place, d)[i])

LEMMA NoPlace == ASSUME NEW place, \A k \in DefinitionPlaces : ~Has(place, k) PROVE GoodPlace(place)
  BY DEF GoodPlace, DefinitionPlaces, Exclusive, Has, DefinitionsAt

LEMMA GoodPlaces ==
  ASSUME NEW m, GoodPlace(m), GoodPlace(VpTokenOf(m)), NEW version, NEW d
  PROVE  DefinitionsValid(m, version, d)
<1> DEFINE inClaims == DefinitionsAt(VpTokenOf(m), d)
           atTop == DefinitionsAt(m, d)
<1>1. /\ inClaims = <<>> \/ \E e : inClaims = <<e>>
      /\ atTop = <<>> \/ \E e : atTop = <<e>>
  BY DefinitionsFound
<1>2. /\ \A i \in DOMAIN inClaims : PexAccepts(inClaims[i])
      /\ \A i \in DOMAIN atTop : PexAccepts(atTop[i])
  BY DEF GoodPlace
<1>3. \/ findPresentationDefinitions(m, version, d) = inClaims \o atTop
      \/ findPresentationDefinitions(m, version, d) = <<>> \o atTop
  BY DEF findPresentationDefinitions
<1> HIDE DEF inClaims, atTop
<1>4. ASSUME NEW a, NEW b, a = <<>> \/ \E e : a = <<e>>, b = <<>> \/ \E e : b = <<e>>,
             \A i \in DOMAIN a : PexAccepts(a[i]), \A i \in DOMAIN b : PexAccepts(b[i])
      PROVE  \A i \in DOMAIN (a \o b) : PexAccepts((a \o b)[i])
  <2>1. PICK S : a \in Seq(S) /\ b \in Seq(S)
    <3>1. <<>> \in Seq({}) /\ \A e : <<e>> \in Seq({e})
      OBVIOUS
    <3>2. PICK A : a \in Seq(A)
      BY <1>4, <3>1
    <3>3. PICK B : b \in Seq(B)
      BY <1>4, <3>1
    <3>4. Seq(A) \subseteq Seq(A \cup B) /\ Seq(B) \subseteq Seq(A \cup B)
      OBVIOUS
    <3>5. QED
      BY <3>2, <3>3, <3>4
  <2>2. a \o b \in Seq(S) /\ Elements(a \o b) = Elements(a) \cup Elements(b)
    BY <2>1, ElementsOfConcatenation
  <2>3. DOMAIN a = 1..Len(a) /\ DOMAIN b = 1..Len(b) /\ DOMAIN (a \o b) = 1..Len(a \o b)
    BY <2>1, <2>2
  <2>4. QED
    BY <1>4, <2>2, <2>3 DEF Elements
<1>5. \A i \in DOMAIN findPresentationDefinitions(m, version, d) :
        PexAccepts(findPresentationDefinitions(m, version, d)[i])
  BY <1>1, <1>2, <1>3, <1>4
<1>6. QED
  BY <1>5 DEF DefinitionsValid, GoodPlace

\* The definition in what a request object says of the claims.
LEMMA ClaimedPlace ==
  ASSUME NEW claims, AsksFor(claims), GoodDefinition(At(claims, "vp_token"))
  PROVE  GoodPlace(At(ClaimsProperties(claims), "vp_token"))
<1> DEFINE vpToken == At(claims, "vp_token")
           place == At(ClaimsProperties(claims), "vp_token")
<1>1. PICK way \in DefinitionPlaces : /\ Truthy(vpToken, way)
                                      /\ place = Object([j \in {way} |-> vpToken.at[j]])
  BY ClaimsMeaning
<1>2. Has(vpToken, way)
  BY <1>1, UndefinedIsFalse DEF Truthy, At
<1>3. Keys(place) = {way} /\ place.at[way] = vpToken.at[way]
  BY <1>1 DEF Object, Keys
<1> HIDE DEF place, vpToken
<1>4. Keys(place) \subseteq Keys(vpToken) /\ \A k \in Keys(place) : SameShape(place.at[k], vpToken.at[k])
  BY <1>2, <1>3 DEF Has, SameShape
<1>5. QED
  BY <1>4, GoodIsValid DEF GoodPlace, place, vpToken

LEMMA AskedIsHad ==
  ASSUME NEW claims, AsksFor(claims)
  PROVE  At(claims, "vp_token") # Undef
  BY UndefinedIsFalse DEF AsksFor, Truthy, At, Has, Keys, Undef

GoodDefinitions == \A p \in DefinitionsIn(rp) : GoodDefinition(p)

LEMMA GoodObject ==
  ASSUME DeliveryInv, Issued, GoodDefinitions, NEW d
  PROVE  DefinitionsValid(object, 0, d)
<1> DEFINE own == At(RequestPayloadOf(rp), "claims")
<1>1. GoodPlace(object)
  BY ObjectClaims, NoPlace
<1>2. CASE AsksFor(own)
  <2>1. At(own, "vp_token") \in DefinitionsIn(rp)
    BY <1>2, AskedIsHad, ObjectClaims DEF DefinitionsIn, Wanted
  <2>2. GoodPlace(At(ClaimsProperties(own), "vp_token"))
    BY <1>2, <2>1, ClaimedPlace DEF GoodDefinitions
  <2>3. VpTokenOf(object) = At(ClaimsProperties(own), "vp_token")
    BY ObjectClaims DEF VpTokenOf
  <2>4. QED
    BY <1>1, <2>2, <2>3, GoodPlaces
<1>3. CASE ~AsksFor(own)
  <2>1. At(object, "claims") = Undef
    BY <1>3, ObjectClaims DEF At
  <2>2. \A k : ~Has(VpTokenOf(object), k)
    BY <2>1 DEF VpTokenOf, At, Has, Keys, Undef
  <2>3. QED
    BY <1>1, <2>2, NoPlace, GoodPlaces
<1>4. QED
  BY <1>2, <1>3

LEMMA GoodMerged ==
  ASSUME DeliveryInv, Issued, stage \in AfterReading, GoodDefinitions, NEW version, NEW d
  PROVE  DefinitionsValid(Merged, version, d)
<1> DEFINE own == At(RequestPayloadOf(rp), "claims")
           p == At(rp, "payload")
           wanted == At(EitherClaims(rp), "vp_token")
<1>1. GoodPlace(Merged)
  <2>1. CASE p = Undef
    <3>1. \A k \in DefinitionPlaces : ~Has(Merged, k)
      BY <2>1, TopLevelFields, UndefinedIsFalse DEF At, Has, Keys, Undef
    <3>2. QED
      BY <3>1, NoPlace
  <2>2. CASE p # Undef
    <3>1. GoodDefinition(p)
      BY <2>2 DEF GoodDefinitions, DefinitionsIn, Wanted
    <3>2. ~Has(Merged, "presentation_definition_uri")
      <4>1. At(p, "presentation_definition_uri") = Undef
        BY <3>1 DEF GoodDefinition, At
      <4>2. QED
        BY <4>1, TopLevelFields, UndefinedIsFalse DEF DefinitionPlaces
    <3> DEFINE definition == Merged.at["presentation_definition"]
               given == p.at["presentation_definition"]
    <3>3. Has(Merged, "presentation_definition") =>
            Has(p, "presentation_definition") /\ definition = ReadValue(given)
      BY TopLevelFields, UndefinedIsFalse DEF DefinitionPlaces, At
    <3>4. Has(Merged, "presentation_definition") => PexAccepts(definition)
      <4>1. SUFFICES ASSUME Has(Merged, "presentation_definition") PROVE PexAccepts(definition)
        OBVIOUS
      <4>2. PexAccepts(given)
        BY <3>1, <3>3, <4>1 DEF GoodDefinition
      <4>3. SameShape(Reread(given), given) /\ ReadValue(given) = Reread(given)
        BY <4>2, RereadKeepsShape DEF PexAccepts, ReadValue, IsObject
      <4>4. QED
        BY <3>3, <4>1, <4>2, <4>3 DEF PexAccepts, SameShape, Requires, IsObject
    <3> HIDE DEF definition
    <3>5. \A e : DefinitionsAt(Merged, e) = IF Has(Merged, "presentation_definition") THEN <<definition>> ELSE <<>>
      BY <3>2 DEF DefinitionsAt, definition
    <3>6. \A e : \A i \in DOMAIN DefinitionsAt(Merged, e) : PexAccepts(DefinitionsAt(Merged, e)[i])
      <4>1. CASE Has(Merged, "presentation_definition")
        BY <3>4, <3>5, <4>1
      <4>2. CASE ~Has(Merged, "presentation_definition")
        BY <3>5, <4>2
      <4>3. QED
        BY <4>1, <4>2
    <3>7. QED
      BY <3>2, <3>6 DEF GoodPlace, Exclusive, Has
  <2>3. QED
    BY <2>1, <2>2
<1>2. CASE AsksFor(own)
  <2>1. At(own, "vp_token") \in DefinitionsIn(rp)
    BY <1>2, AskedIsHad, ObjectClaims DEF DefinitionsIn, Wanted
  <2>2. GoodPlace(At(ClaimsProperties(own), "vp_token"))
    BY <1>2, <2>1, ClaimedPlace DEF GoodDefinitions
  <2>3. QED
    BY <1>1, <1>2, <2>2, MergedClaims, GoodPlaces
<1>3. CASE ~AsksFor(own)
  <2>1. /\ VpTokenOf(Merged) = VpTokenOf(received)
        /\ Keys(VpTokenOf(received)) \subseteq Keys(wanted)
        /\ \A k \in Keys(VpTokenOf(received)) : SameShape(VpTokenOf(received).at[k], wanted.at[k])
    BY <1>3, MergedClaims
  <2>2. GoodPlace(VpTokenOf(Merged))
    <3>1. CASE wanted = Undef
      <4>1. Keys(VpTokenOf(Merged)) = {}
        BY <2>1, <3>1 DEF Keys, Undef
      <4>2. QED
        BY <4>1, NoPlace DEF Has
    <3>2. CASE wanted # Undef
      <4>1. GoodDefinition(wanted)
        BY <3>2 DEF GoodDefinitions, DefinitionsIn, Wanted
      <4>2. QED
        BY <2>1, <4>1, GoodIsValid DEF GoodPlace
    <3>3. QED
      BY <3>1, <3>2
  <2>3. QED
    BY <1>1, <2>2, GoodPlaces
<1>4. QED
  BY <1>2, <1>3

\* The faults of a definition that are found before anything is signed.
LEMMA GoodCreation ==
  ASSUME GoodDefinitions
  PROVE  ~DefinitionsMayFail(At(RequestPayloadOf(rp), "claims"))
<1> DEFINE own == At(RequestPayloadOf(rp), "claims")
           vpToken == At(own, "vp_token")
<1> SUFFICES ASSUME AsksFor(own) PROVE PexAccepts(At(vpToken, "presentation_definition"))
  BY DEF DefinitionsMayFail
<1>1. Has(RequestPayloadOf(rp), "claims")
  BY UndefinedIsFalse DEF AsksFor, Truthy, At, Has, Keys, Undef
<1>2. EitherClaims(rp) = own
  BY <1>1, Spreading DEF EitherClaims, At
<1>3. GoodDefinition(vpToken)
  BY <1>2, AskedIsHad DEF GoodDefinitions, DefinitionsIn, Wanted
<1>4. Has(vpToken, "presentation_definition")
  BY <1>3, UndefinedIsFalse DEF GoodDefinition, AsksFor, Truthy, At
<1>5. QED
  BY <1>3, <1>4 DEF GoodDefinition, At

-----------------------------------------------------------------------------
(***************************************************************************)
(* The payload that the OP merges satisfies the schemas as far as the      *)
(* options that it was made from do.                                       *)
(***************************************************************************)
LEMMA TextsAreRead ==
  ASSUME NEW v, IsString(v)
  PROVE  IsString(ReadValue(v))
<1>1. ReadValue(v) = Reread(v)
  BY DEF ReadValue, IsString
<1>2. \A parts : IsString(WithMembers(v, parts))
  BY DEF WithMembers, IsString, String
<1>3. QED
  BY <1>1, <1>2 DEF Reread

NewTexts  == {"sub", "type", "jti", "aud", "id_token_type", "presentation_definition_uri"}
NewFields == {"nbf", "rexp"}

LEMMA ReceivedFits ==
  ASSUME DeliveryInv, stage \in AfterReading, FieldsOfOptions
  PROVE  /\ \A k \in (TextFields \ {"iss", "nonce", "state"}) \cup {"aud", "id_token_type", "presentation_definition_uri"} :
              Has(received, k) => IsString(received.at[k])
         /\ \A k \in NewFields : ~Has(received, k)
<1> DEFINE p == At(rp, "payload")
           part == createRequestRegistrationPayload(rp)
<1>1. received = decodeUriAsJson(outer)
  BY DEF DeliveryInv, KnownFromRequest
<1>2. /\ \A k \in NewFields : ~Has(p, k)
      /\ \A k \in NewTexts : Has(p, k) => IsString(p.at[k])
  BY DEF DeliveryInv, OptionsHeld, FieldsOfOptions, Properties, NewFields, NewTexts, Has, rp
<1>3. p # Undef => PayloadOptsBesidesClaims(p)
  BY OptionsOfMetadata, OptionsOfRequests DEF AfterSigning
<1>4. p # Undef => \A k \in OptionTexts : Has(p, k) => IsString(p.at[k])
  BY <1>3, PayloadOptions
<1>5. \A k : Has(part, k) => k \in RegistrationKeys
  BY RegistrationPayload DEF MetadataKey, ReferenceKey, RegistrationKeys
<1> HIDE DEF part
<1>6. \A k \in NewFields \cup OptionTexts \cup NewTexts :
        Enclosed(rp, k) = At(p, k)
  <2>1. SUFFICES ASSUME NEW k \in NewFields \cup OptionTexts \cup NewTexts
                 PROVE  Enclosed(rp, k) = At(p, k)
    OBVIOUS
  <2>2. k # "claims" /\ ~Has(part, k)
    BY <1>5 DEF NewFields, NewTexts, OptionTexts, RegistrationKeys
  <2>3. At(Undef, k) = Undef
    BY DEF At, Has, Keys, Undef
  <2>4. QED
    BY <2>2, <2>3 DEF Enclosed, part
<1> HIDE DEF p
<1>7. \A k \in NewFields : ~Has(received, k)
  <2>1. \A k \in NewFields : k \notin {"nonce", "state", "request", "request_uri"}
    BY DEF NewFields
  <2>2. \A k \in NewFields : At(p, k) = Undef
    BY <1>2 DEF At
  <2>3. QED
    BY <1>6, <2>1, <2>2, ReceivedFields, UndefinedIsFalse
<1>8. \A k \in (OptionTexts \ {"nonce", "state"}) \cup NewTexts :
        Has(received, k) => IsString(received.at[k])
  <2>1. SUFFICES ASSUME NEW k \in (OptionTexts \ {"nonce", "state"}) \cup NewTexts,
                        Has(received, k)
                 PROVE  IsString(received.at[k])
    OBVIOUS
  <2>2. k \notin {"nonce", "state", "request", "request_uri"}
    BY DEF OptionTexts, NewTexts
  <2>3. received.at[k] = ReadValue(At(p, k)) /\ IsTrue(At(p, k))
    BY <1>6, <2>1, <2>2, ReceivedFields
  <2>4. Has(p, k) /\ At(p, k) = p.at[k] /\ p # Undef
    BY <2>3, UndefinedIsFalse DEF At, Has, Keys, Undef
  <2>5. IsString(p.at[k])
    BY <1>2, <1>4, <2>4
  <2>6. QED
    BY <2>3, <2>4, <2>5, TextsAreRead
<1>9. \A k \in {"request", "request_uri"} : Has(received, k) => IsString(received.at[k])
  BY <1>1, RequestInQuery, Reading, TextsAreRead
<1>10. \A k \in (TextFields \ {"iss", "nonce", "state"}) \cup {"aud", "id_token_type", "presentation_definition_uri"} :
         k \in OptionTexts \ {"nonce", "state"} \/ k \in NewTexts \/ k \in {"request", "request_uri"}
  BY DEF TextFields, OptionTexts, NewTexts
<1>11. QED
  <2>1. \A k \in (TextFields \ {"iss", "nonce", "state"}) \cup {"aud", "id_token_type", "presentation_definition_uri"} :
          Has(received, k) => IsString(received.at[k])
    BY <1>8, <1>9, <1>10
  <2>2. QED
    BY <1>7, <2>1

LEMMA MergedBesidesClaims ==
  ASSUME DeliveryInv, Issued, stage \in AfterReading, FieldsOfOptions, IsString(At(Merged, "client_id"))
  PROVE  PayloadBesidesClaims(Merged)
<1>1. /\ \A k \in TextFields \ {"client_id"} : Has(object, k) => IsString(object.at[k])
      /\ \A k \in TimeFields : Has(object, k) => IsNumber(object.at[k])
      /\ \A k \in {"iss", "iat", "exp", "nonce", "state", "client_id", "response_mode"} : Has(object, k)
      /\ ResponseMode(object.at["response_mode"])
      /\ ~Has(object, "aud")
  BY ObjectFits DEF Has
<1>2. /\ \A k \in (TextFields \ {"iss", "nonce", "state"}) \cup {"aud"} : Has(received, k) => IsString(received.at[k])
      /\ \A k \in NewFields : ~Has(received, k)
  BY ReceivedFits
<1>3. \A k : /\ Has(Merged, k) <=> Has(received, k) \/ Has(object, k)
             /\ Has(Merged, k) => Merged.at[k] = IF Has(object, k) THEN object.at[k] ELSE received.at[k]
  BY MergedFields DEF At
<1>4. IsObject(Merged)
  BY DEF Merged, Spread, Object, IsObject
<1>5. \A k \in TextFields : Has(Merged, k) => IsString(Merged.at[k])
  <2>1. Has(Merged, "client_id") => IsString(Merged.at["client_id"])
    BY DEF At
  <2>2. \A k \in {"iss", "nonce", "state"} : k \in TextFields \ {"client_id"}
    BY DEF TextFields
  <2>3. QED
    BY <1>1, <1>2, <1>3, <2>1, <2>2
<1>6. \A k \in TimeFields : Has(Merged, k) => IsNumber(Merged.at[k])
  <2>1. \A k \in TimeFields : k \in {"iat", "exp"} \/ k \in NewFields
    BY DEF TimeFields, NewFields
  <2>2. QED
    BY <1>1, <1>2, <1>3, <2>1
<1>7. Has(Merged, "aud") => Audience(Merged.at["aud"])
  BY <1>1, <1>2, <1>3 DEF Audience, SomeOf
<1>8. ResponseMode(Merged.at["response_mode"])
  BY <1>1, <1>3
<1>9. QED
  BY <1>4, <1>5, <1>6, <1>7, <1>8 DEF PayloadBesidesClaims, Properties, Has

LEMMA MergedMetadata ==
  ASSUME DeliveryInv, Issued, stage \in AfterReading, NoMetadataBesides
  PROVE  LET made == createRPRegistrationMetadataPayload(ClientMetadataOf(rp))
         IN  /\ \A k \in {"registration", "client_metadata"} : Has(Merged, k) =>
                  /\ k = MetadataKey(rp)
                  /\ Merged.at[k] \in {made, Reread(made)}
             /\ \A k \in {"registration_uri", "client_metadata_uri"} :
                  Has(Merged, k) => IsString(Merged.at[k])
             /\ Truthy(Merged, "registration_uri") => Referred(rp)
             /\ Has(Merged, "client_metadata_uri") => IsDraft11(rp)
             /\ Has(Merged, MetadataKey(rp)) \/ ~MetadataInside(rp) \/ ~Has(rp, "payload")
<1> DEFINE made == createRPRegistrationMetadataPayload(ClientMetadataOf(rp))
           part == createRequestRegistrationPayload(rp)
           ref == At(ClientMetadataOf(rp), "referenceUri")
<1>1. received = decodeUriAsJson(outer)
  BY DEF DeliveryInv, KnownFromRequest
<1>2. \A k \in RegistrationKeys :
        /\ Has(received, k) <=> Has(part, k) /\ At(rp, "payload") # Undef /\ IsTrue(part.at[k])
        /\ Has(received, k) => received.at[k] = ReadValue(part.at[k])
  BY <1>1, MetadataInQuery
<1>3. \A k : /\ Has(part, k) <=> k = IF MetadataInside(rp) THEN MetadataKey(rp) ELSE ReferenceKey[MetadataKey(rp)]
             /\ Has(part, k) => part.at[k] = IF MetadataInside(rp) THEN made ELSE ClientMetadataOf(rp).at["referenceUri"]
  BY RegistrationPayload
<1>4. /\ Has(object, "registration") => ~IsDraft11(rp) /\ object.at["registration"] = made
      /\ Has(object, "client_metadata") => IsDraft11(rp) /\ object.at["client_metadata"] = made
      /\ Has(object, "client_metadata_uri") => IsDraft11(rp) /\ ~MetadataInside(rp)
      /\ Has(object, "client_metadata_uri") => object.at["client_metadata_uri"] = ref
      /\ ~IsTrue(ref) => ~Truthy(object, "registration_uri")
      /\ ~MetadataInside(rp) => IsTrue(ref)
  BY ObjectMetadata
<1>5. Has(object, "registration_uri") => IsString(object.at["registration_uri"])
  BY ObjectFits
<1>6. IsTrue(ref) => IsString(ref) /\ ClientMetadataOf(rp).at["referenceUri"] = ref
  BY OptionsOfMetadata, UndefinedIsFalse DEF Issued, Referred, Truthy, At
<1>7. IsObject(made) /\ IsTrue(made) /\ ReadValue(made) = Reread(made)
  BY MetadataIsObject, ObjectsAreTrue DEF ReadValue, IsObject
<1>8. Referred(rp) <=> IsTrue(ref)
  BY DEF Referred, Truthy
<1>9. Has(rp, "payload") <=> At(rp, "payload") # Undef
  BY OptionsOfMetadata, OptionsOfRequests DEF Issued
<1>10. MetadataKey(rp) = IF IsDraft11(rp) THEN "client_metadata" ELSE "registration"
  BY DEF MetadataKey
<1>11. /\ ReferenceKey["registration"] = "registration_uri"
       /\ ReferenceKey["client_metadata"] = "client_metadata_uri"
  BY DEF ReferenceKey
<1> HIDE DEF made, part, ref
<1>12. \A k : /\ Has(Merged, k) <=> Has(received, k) \/ Has(object, k)
              /\ Has(Merged, k) => Merged.at[k] = IF Has(object, k) THEN object.at[k] ELSE received.at[k]
  BY MergedFields DEF At
<1>13. /\ Has(received, "registration") => ~IsDraft11(rp) /\ received.at["registration"] = Reread(made)
       /\ Has(received, "client_metadata") => IsDraft11(rp) /\ received.at["client_metadata"] = Reread(made)
  BY <1>2, <1>3, <1>7, <1>10, <1>11 DEF RegistrationKeys
<1>14. /\ Has(received, "registration_uri") => ~MetadataInside(rp) /\ IsString(received.at["registration_uri"])
       /\ Has(received, "client_metadata_uri") => IsDraft11(rp) /\ IsString(received.at["client_metadata_uri"])
  BY <1>2, <1>3, <1>4, <1>6, <1>10, <1>11, TextsAreRead DEF RegistrationKeys
<1>15. \A k \in {"registration", "client_metadata"} : Has(Merged, k) =>
         k = MetadataKey(rp) /\ Merged.at[k] \in {made, Reread(made)}
  BY <1>4, <1>10, <1>12, <1>13
<1>16. \A k \in {"registration_uri", "client_metadata_uri"} : Has(Merged, k) => IsString(Merged.at[k])
  BY <1>4, <1>5, <1>6, <1>12, <1>14
<1>17. Truthy(Merged, "registration_uri") => Referred(rp)
  <2>1. SUFFICES ASSUME ~IsTrue(ref) PROVE ~Truthy(Merged, "registration_uri")
    BY <1>8
  <2>2. ~Has(received, "registration_uri")
    BY <1>4, <1>14, <2>1
  <2>3. At(Merged, "registration_uri") = At(object, "registration_uri")
    BY <2>2, MergedFields DEF At
  <2>4. QED
    BY <1>4, <2>1, <2>3 DEF Truthy
<1>18. Has(Merged, "client_metadata_uri") => IsDraft11(rp)
  BY <1>4, <1>12, <1>14
<1>19. Has(Merged, MetadataKey(rp)) \/ ~MetadataInside(rp) \/ ~Has(rp, "payload")
  BY <1>2, <1>3, <1>7, <1>9, <1>10, <1>12 DEF RegistrationKeys
<1>20. QED
  BY <1>15, <1>16, <1>17, <1>18, <1>19 DEF made

\* The claims that RequestExchange calls known are those of the schema.
LEMMA ClaimsKnown ==
  ASSUME NEW claims
  PROVE  KnownClaims(claims) <=> ClaimPayloadVID1(claims)
<1> DEFINE vpToken == At(claims, "vp_token")
<1>1. \A place : Properties(place, {"presentation_definition"}, PresentationDefinition) <=> KnownDefinition(place)
  BY DEF Properties, PresentationDefinition, KnownDefinition, Has
<1>2. Has(claims, "vp_token") => vpToken = claims.at["vp_token"]
  BY DEF At
<1>3. VpTokenClaimPayload(vpToken) <=>
        /\ Closed(vpToken, DefinitionPlaces) /\ KnownDefinition(vpToken)
        /\ Properties(vpToken, {"presentation_definition_uri"}, IsString)
  BY <1>1 DEF VpTokenClaimPayload, DefinitionPlaces
<1> HIDE DEF vpToken
<1>4. Properties(claims, {"vp_token"}, VpTokenClaimPayload) <=>
        (Has(claims, "vp_token") => VpTokenClaimPayload(vpToken))
  BY <1>2 DEF Properties, Has
<1>5. Properties(claims, {"id_token"}, IdTokenClaimPayload) <=> Properties(claims, {"id_token"}, IsObject)
  BY DEF Properties, IdTokenClaimPayload
<1>6. QED
  BY <1>3, <1>4, <1>5 DEF KnownClaims, ClaimPayloadVID1, vpToken

LEMMA AskedClaims ==
  ASSUME NEW claims, AsksFor(claims), KnownClaims(claims)
  PROVE  ClaimPayloadVID1(ClaimsProperties(claims))
<1> DEFINE vpToken == At(claims, "vp_token")
           made == ClaimsProperties(claims)
           way == IF Truthy(vpToken, "presentation_definition_uri")
                    THEN "presentation_definition_uri" ELSE "presentation_definition"
           idToken == IF Has(claims, "id_token") THEN {"id_token"} ELSE {}
           asked == Object([j \in {way} |-> vpToken.at[j]])
<1>1. made = Object([k \in idToken \cup {"vp_token"} |-> IF k = "id_token" THEN claims.at[k] ELSE asked])
  BY DEF ClaimsProperties
<1>2. Has(vpToken, way)
  BY UndefinedIsFalse DEF AsksFor, Truthy, At
<1>3. Has(claims, "vp_token")
  BY <1>2 DEF At, Has, Keys, Undef
<1>4. /\ KnownDefinition(vpToken) /\ Properties(vpToken, {"presentation_definition_uri"}, IsString)
      /\ Has(claims, "id_token") => IsObject(claims.at["id_token"])
  BY <1>3 DEF KnownClaims, Properties, Has
<1>5. IsObject(asked) /\ Keys(asked) = {way} /\ asked.at[way] = vpToken.at[way]
  BY DEF Object, Keys, IsObject
<1>6. way \in DefinitionPlaces
  BY DEF DefinitionPlaces
<1> HIDE DEF asked, way, vpToken
<1>7. VpTokenClaimPayload(asked)
  <2>1. way = "presentation_definition" => PresentationDefinition(vpToken.at[way])
    BY <1>2, <1>4 DEF KnownDefinition, PresentationDefinition
  <2>2. way = "presentation_definition_uri" => IsString(vpToken.at[way])
    BY <1>2, <1>4 DEF Properties, Has
  <2>3. QED
    BY <1>5, <1>6, <2>1, <2>2 DEF VpTokenClaimPayload, DefinitionPlaces, Closed, Properties, IsObject
<1>8. /\ IsObject(made) /\ Keys(made) \subseteq {"id_token", "vp_token"}
      /\ Has(made, "id_token") => Has(claims, "id_token") /\ made.at["id_token"] = claims.at["id_token"]
      /\ Has(made, "vp_token") => made.at["vp_token"] = asked
  BY <1>1 DEF Object, Has, Keys, IsObject
<1> HIDE DEF made
<1>9. QED
  BY <1>4, <1>7, <1>8 DEF ClaimPayloadVID1, Closed, Properties, IdTokenClaimPayload, Has, IsObject, made

LEMMA ClaimsMerged ==
  ASSUME DeliveryInv, Issued, stage \in AfterReading, ClaimsAreValues, Has(Merged, "claims")
  PROVE  LET own    == At(RequestPayloadOf(rp), "claims")
             either == EitherClaims(rp)
             claims == Merged.at["claims"]
         IN  /\ either # Undef /\ IsObject(either) /\ JsonValue(either)
             /\ \/ AsksFor(own) /\ either = own /\ claims = ClaimsProperties(own)
                \/ ~AsksFor(own) /\ Has(received, "claims") /\ claims = Reread(either)
             /\ KnownClaims(either) => ClaimPayloadVID1(claims)
             /\ Truthy(claims, "vp_token") => Truthy(either, "vp_token")
<1> DEFINE own == At(RequestPayloadOf(rp), "claims")
           either == EitherClaims(rp)
           claims == Merged.at["claims"]
<1>1. /\ Has(object, "claims") <=> AsksFor(own)
      /\ At(object, "claims") = ClaimsProperties(own)
      /\ AsksFor(own) => either = own
  BY ObjectClaims
<1>2. /\ Has(received, "claims") => either # Undef
      /\ Has(received, "claims") => received.at["claims"] = Reread(either)
  BY ReceivedClaims
<1>3. /\ Has(object, "claims") \/ Has(received, "claims")
      /\ claims = IF Has(object, "claims") THEN At(object, "claims") ELSE At(received, "claims")
  BY MergedFields DEF At
<1>4. AsksFor(own) => own # Undef
  BY UndefinedIsFalse DEF AsksFor, Truthy, At, Has, Keys, Undef
<1>5. either # Undef
  BY <1>1, <1>2, <1>3, <1>4
<1>6. IsObject(either)
  BY <1>5, OptionsOfMetadata, ClaimsAreObjects DEF Issued
<1>7. JsonValue(either)
  BY <1>5 DEF DeliveryInv, OptionsHeld, ClaimsAreValues, rp
<1> HIDE DEF own, either, claims
<1>8. \/ AsksFor(own) /\ either = own /\ claims = ClaimsProperties(own)
      \/ ~AsksFor(own) /\ Has(received, "claims") /\ claims = Reread(either)
  BY <1>1, <1>2, <1>3 DEF At
<1>9. KnownClaims(either) => ClaimPayloadVID1(claims)
  <2>1. AsksFor(own) => (KnownClaims(own) => ClaimPayloadVID1(ClaimsProperties(own)))
    BY AskedClaims
  <2>2. KnownClaims(either) => ClaimPayloadVID1(Reread(either))
    BY <1>7, ClaimsKnown, SchemasReadTheSame
  <2>3. QED
    BY <1>8, <2>1, <2>2
<1>10. Truthy(claims, "vp_token") => Truthy(either, "vp_token")
  <2>1. AsksFor(own) => IsTrue(At(own, "vp_token"))
    <3>1. AsksFor(own) => IsObject(At(own, "vp_token"))
      BY UndefinedIsFalse DEF AsksFor, Truthy, At, Has, Keys, Undef, IsObject
    <3>2. QED
      BY <3>1, ObjectsAreTrue
  <2>2. IsTrue(At(Reread(either), "vp_token")) <=> IsTrue(At(either, "vp_token"))
    BY <1>7, SchemasReadTheSame
  <2>3. QED
    BY <1>8, <2>1, <2>2 DEF Truthy
<1>11. QED
  BY <1>5, <1>6, <1>7, <1>8, <1>9, <1>10 DEF own, either, claims

LEMMA MetadataFit ==
  ASSUME DeliveryInv, Issued, stage \in AfterReading, NoMetadataBesides, NEW k \in {"registration", "client_metadata"},
         Has(Merged, k)
  PROVE  RPRegistrationMetadataPayload(Merged.at[k])
<1> DEFINE made == createRPRegistrationMetadataPayload(ClientMetadataOf(rp))
<1>1. RPRegistrationMetadataPayload(made)
  BY OptionsOfMetadata DEF Issued
<1>2. RPRegistrationMetadataPayload(Reread(made))
  BY <1>1, MetadataRead
<1>3. Merged.at[k] \in {made, Reread(made)}
  BY MergedMetadata
<1> HIDE DEF made
<1>4. QED
  BY <1>1, <1>2, <1>3

LEMMA FitsDraft1 ==
  ASSUME DeliveryInv, Issued, stage \in AfterReading, NoMetadataBesides, FieldsOfOptions, ClaimsAreValues,
         IsString(At(Merged, "client_id")), EitherClaims(rp) # Undef => KnownClaims(EitherClaims(rp))
  PROVE  AuthorizationRequestPayloadVID1(Merged)
<1>1. PayloadBesidesClaims(Merged)
  BY MergedBesidesClaims
<1>2. Has(Merged, "claims") => ClaimPayloadVID1(Merged.at["claims"])
  BY ClaimsMerged
<1>3. Has(Merged, "registration") => RPRegistrationMetadataPayload(Merged.at["registration"])
  BY MetadataFit
<1>4. Has(Merged, "registration_uri") => IsString(Merged.at["registration_uri"])
  BY MergedMetadata
<1>5. QED
  BY <1>1, <1>2, <1>3, <1>4 DEF AuthorizationRequestPayloadVID1, Properties, Has

\* Where each version has its definitions and its metadata, the requests of
\* the others have none.
LEMMA MarkedAsFits ==
  ASSUME DeliveryInv, Issued, stage \in AfterReading, NoMetadataBesides, ClaimsAreValues, VersionFits(rp)
  PROVE  IF IsDraft11(rp) THEN WithoutDraft1(Merged) ELSE WithoutDraft11(Merged)
<1>1. \A k \in {"registration", "client_metadata"} : Has(Merged, k) => k = MetadataKey(rp)
  BY MergedMetadata
<1>2. /\ Truthy(Merged, "registration_uri") => Referred(rp)
      /\ Has(Merged, "client_metadata_uri") => IsDraft11(rp)
  BY MergedMetadata
<1>3. \A k : Truthy(Merged, k) => Has(Merged, k)
  BY UndefinedIsFalse DEF Truthy, At
<1>4. CASE IsDraft11(rp)
  <2>1. ~Truthy(Merged, "registration_uri") /\ ~Truthy(Merged, "registration")
    BY <1>1, <1>2, <1>3, <1>4 DEF VersionFits, MetadataKey
  <2>2. ~Truthy(At(Merged, "claims"), "vp_token")
    <3>1. Truthy(At(Merged, "claims"), "vp_token") => Has(Merged, "claims")
      BY UndefinedIsFalse DEF Truthy, At, Has, Keys, Undef
    <3>2. Has(Merged, "claims") => (Truthy(Merged.at["claims"], "vp_token") => Truthy(EitherClaims(rp), "vp_token"))
      BY ClaimsMerged
    <3>3. QED
      BY <1>4, <3>1, <3>2 DEF VersionFits, At
  <2>3. QED
    BY <1>4, <2>1, <2>2 DEF WithoutDraft1
<1>5. CASE ~IsDraft11(rp)
  <2>1. ~Truthy(Merged, "client_metadata_uri") /\ ~Truthy(Merged, "client_metadata")
    BY <1>1, <1>2, <1>3, <1>5 DEF MetadataKey
  <2>2. \A k \in DefinitionPlaces : ~Has(Merged, k)
    <3>1. \A k \in DefinitionPlaces : At(At(rp, "payload"), k) = Undef
      BY <1>5 DEF VersionFits, At
    <3>2. QED
      BY <3>1, TopLevelFields, UndefinedIsFalse
  <2>3. QED
    BY <1>3, <1>5, <2>1, <2>2 DEF WithoutDraft11, DefinitionPlaces
<1>6. QED
  BY <1>4, <1>5

LEMMA FitsAVersion ==
  ASSUME DeliveryInv, Issued, stage \in AfterReading, NoMetadataBesides, FieldsOfOptions, ClaimsAreValues,
         IsString(At(Merged, "client_id")), VersionFits(rp)
  PROVE  authorizationRequestVersionDiscovery(Merged) # <<>>
<1>1. AuthorizationRequestPayloadVID1(Merged)
  BY FitsDraft1 DEF VersionFits
<1>2. WithoutDraft1(Merged) \/ WithoutDraft11(Merged)
  BY MarkedAsFits
<1> DEFINE latest  == IF AuthorizationRequestPayloadVD11(Merged) /\ WithoutDraft1(Merged) THEN <<110>> ELSE <<>>
           profile == IF AuthorizationRequestPayloadVID1(Merged) /\ WithoutDraft1(Merged) THEN <<71>> ELSE <<>>
           draft1  == IF AuthorizationRequestPayloadVID1(Merged) /\ WithoutDraft11(Merged) THEN <<70>> ELSE <<>>
<1>3. authorizationRequestVersionDiscovery(Merged) = latest \o profile \o draft1
  BY DEF authorizationRequestVersionDiscovery
<1>4. profile = <<71>> \/ draft1 = <<70>>
  BY <1>1, <1>2
<1>5. /\ latest \in Seq(Nat) /\ profile \in Seq(Nat) /\ draft1 \in Seq(Nat)
  <2>1. <<>> \in Seq(Nat) /\ <<110>> \in Seq(Nat) /\ <<71>> \in Seq(Nat) /\ <<70>> \in Seq(Nat)
    OBVIOUS
  <2>2. QED
    BY <2>1
<1> HIDE DEF latest, profile, draft1
<1>6. /\ Len(latest \o profile \o draft1) = Len(latest) + Len(profile) + Len(draft1)
      /\ Len(latest) \in Nat /\ Len(profile) \in Nat /\ Len(draft1) \in Nat
  BY <1>5
<1>7. Len(profile) = 1 \/ Len(draft1) = 1
  BY <1>4
<1>8. Len(latest \o profile \o draft1) # 0
  BY <1>6, <1>7
<1>9. QED
  BY <1>3, <1>8

-----------------------------------------------------------------------------
(***************************************************************************)
(* Every refusal is explained by the options.                              *)
(***************************************************************************)
ExplainedDelivery(r) ==
  /\ r = "signature"    => ~OwnKey(RequestObjectOf(rp).at.signatureType)
  /\ r = "definition"   => ~GoodDefinitions
  /\ r = "metadata"     => Referred(rp) \/ EmptyList(At(ClientMetadataOf(rp), "subjectSyntaxTypesSupported"))
  /\ r = "unreadable"   => \E k \in Keys(outer) : \E t \in TextsOf(outer.at[k]) : Unreadable(t)
  /\ r = "unreachable"  => PassedBy(RequestObjectOf(rp), "REFERENCE")
  /\ r = "request object" => ~Has(RequestObjectOf(rp), "payload")
  /\ r = "client_id"    => ~Truthy(RequestPayloadOf(rp), "client_id") /\ MetadataInside(rp)

ExplainedAcceptance(r) ==
  /\ r = "claims"       => IsDraft11(rp) /\ NoClaims(rp)
  /\ r = "version"      => ~VersionFits(rp)
  /\ r = "syntax types" => IsDraft11(rp) \/ ~MetadataInside(rp) \/ ~Has(rp, "payload")
  /\ r = "answer signature" => ~Truthy(op, "did") \/ ~OwnKey(op.at.signatureType)
  /\ r = "presentations" => AskedAnywhere(rp) \/ Presents(op)
  /\ r = "domain"       => setting.modes # [op |-> "never", rp |-> "never"]
  /\ r = "subject"      => TextAt(op, "did") \notin Dids

Explained(r) == ExplainedDelivery(r) /\ ExplainedAcceptance(r)

LEMMA ExplainedAlike ==
  ASSUME setting' = setting, outer' = outer
  PROVE  RefusalsExplained' <=> Explained(reason')
<1>1. rp' = rp /\ op' = op
  BY DEF rp, op
<1>2. (\E p \in DefinitionsIn(rp) : ~GoodDefinition(p)) <=> ~GoodDefinitions
  BY DEF GoodDefinitions
<1>3. DeliveryExplained' <=> ExplainedDelivery(reason')
  BY <1>1, <1>2, Zenon DEF DeliveryExplained, ExplainedDelivery
<1>4. AcceptanceExplained' <=> ExplainedAcceptance(reason')
  BY <1>1, Zenon DEF AcceptanceExplained, ExplainedAcceptance
<1>5. QED
  BY <1>3, <1>4 DEF RefusalsExplained, Explained

LEMMA RefusedWithReason ==
  ASSUME NEW r, Refuse(r), Explained(r)
  PROVE  RefusalsExplained'
<1>1. reason' = r /\ setting' = setting /\ outer' = outer
  BY DEF Refuse, created
<1>2. QED
  BY <1>1, ExplainedAlike

LEMMA SigningExplained ==
  ASSUME DeliveryInv, stage = "created", OwnKey(RequestObjectOf(rp).at["signatureType"])
  PROVE  SignsRequests(SignatureOfRequest)
<1> DEFINE sig == RequestObjectOf(rp).at["signatureType"]
<1>1. /\ Has(sig, "hexPrivateKey") /\ Has(sig, "did")
      /\ TextAt(sig, "alg") # "RS256" /\ TextAt(sig, "hexPrivateKey") # ""
  BY DEF OwnKey, isInternalSignature, Has
<1>2. IsString(sig.at["hexPrivateKey"]) /\ sig.at["hexPrivateKey"].text # ""
  BY <1>1 DEF TextAt
<1>3. SignatureOfRequest = JsonCopy(sig) /\ Has(SignatureOfRequest, "did")
  BY SignedByDid DEF SignatureOfRequest
<1> HIDE DEF sig
<1>4. \A k : /\ Has(JsonCopy(sig), k) <=> Has(sig, k) /\ sig.at[k] # Function
             /\ Has(JsonCopy(sig), k) => JsonCopy(sig).at[k] = sig.at[k]
  BY DEF JsonCopy, Object, Has, Keys
<1>5. sig.at["hexPrivateKey"] # Function /\ IsTrue(sig.at["hexPrivateKey"])
  <2>1. \A v : IsString(v) => v # Function
    BY DEF IsString, Function
  <2>2. \A v : IsString(v) /\ v.text # "" => IsTrue(v)
    BY DEF IsString, IsTrue
  <2>3. QED
    BY <1>2, <2>1, <2>2
<1>6. Has(JsonCopy(sig), "hexPrivateKey") /\ Truthy(JsonCopy(sig), "hexPrivateKey")
  BY <1>1, <1>4, <1>5 DEF Truthy, At
<1>7. TextAt(JsonCopy(sig), "alg") # "RS256"
  BY <1>1, <1>4 DEF TextAt
<1>8. QED
  BY <1>3, <1>6, <1>7 DEF SignsRequests, isInternalSignature, HasSigner, Has

LEMMA SendingExplained ==
  ASSUME DeliveryInv, stage = "signed", NEW d, ~UriPossible(d)
  PROVE  Explained(IF DefinitionsValid(object, 0, d) THEN "metadata" ELSE "definition")
<1>1. Issued
  BY DEF Issued, UriPossible, AfterSigning
<1>2. CASE ~DefinitionsValid(object, 0, d)
  <2>1. ~GoodDefinitions
    BY <1>1, <1>2, GoodObject
  <2>2. QED
    BY <1>2, <2>1 DEF Explained, ExplainedDelivery, ExplainedAcceptance
<1>3. CASE DefinitionsValid(object, 0, d)
  <2>1. Has(object, "registration") /\ ~assertValidRPRegistrationMetadataPayload(object.at["registration"])
    BY <1>3 DEF UriPossible
  <2>2. object.at["registration"] = createRPRegistrationMetadataPayload(ClientMetadataOf(rp))
    BY <1>1, <2>1, ObjectMetadata
  <2>3. EmptyList(At(ClientMetadataOf(rp), "subjectSyntaxTypesSupported"))
    BY <1>1, <2>1, <2>2, OptionsOfMetadata DEF Issued
  <2>4. QED
    BY <1>3, <2>3 DEF Explained, ExplainedDelivery, ExplainedAcceptance
<1>4. QED
  BY <1>2, <1>3

LEMMA ReadingExplained ==
  ASSUME DeliveryInv, NoMetadataBesides, NEW served, RefuseToRead(served)
  PROVE  RefusalsExplained'
<1>1. stage = "sent"
  BY DEF RefuseToRead
<1> DEFINE query == decodeUriAsJson(outer)
           read == fetchByReferenceOrUseByValue(MetadataReference(query), MetadataValue(query), served)
           made == createRPRegistrationMetadataPayload(ClientMetadataOf(rp))
           part == createRequestRegistrationPayload(rp)
<1>2. CASE ~Decodable(outer)
  <2>1. PICK k \in Keys(outer) : ~Readable(outer.at[k])
    BY <1>1, <1>2, RequestInQuery DEF Decodable
  <2>2. \E t \in TextsOf(outer.at[k]) : Unreadable(t)
    <3>1. IsString(outer.at[k]) => outer.at[k].text \in TextsOf(outer.at[k])
      BY PartsOfMembers DEF TextsOf
    <3>2. QED
      BY <2>1, <3>1 DEF Readable, Unreadable, IsString
  <2>3. Explained("unreadable")
    BY <2>2 DEF Explained, ExplainedDelivery, ExplainedAcceptance
  <2>4. Refuse("unreadable")
    BY <1>2 DEF RefuseToRead
  <2>5. QED
    BY <2>3, <2>4, RefusedWithReason
<1>3. CASE Truthy(query, "request_uri") /\ Refuse("unreachable")
  <2>1. Has(outer, "request_uri")
    BY <1>3, Reading, UndefinedIsFalse DEF Truthy, At
  <2>2. Explained("unreachable")
    BY <1>1, <2>1, RequestInQuery DEF Explained, ExplainedDelivery, ExplainedAcceptance
  <2>3. QED
    BY <1>3, <2>2, RefusedWithReason
<1>4. CASE ~MetadataValid(MetadataReference(query), read) /\ Refuse("metadata")
  <2>1. ASSUME ~Referred(rp), ~EmptyList(At(ClientMetadataOf(rp), "subjectSyntaxTypesSupported"))
        PROVE  FALSE
    <3>1. /\ assertValidRPRegistrationMetadataPayload(Reread(made)) /\ MetadataInside(rp)
      BY <1>1, <2>1, OptionsOfMetadata DEF AfterSigning
    <3>2. \A k \in RegistrationKeys : Has(query, k) =>
            k \in {"registration", "client_metadata"} /\ query.at[k] = Reread(made)
      <4>1. \A k : Has(part, k) => k \in {"registration", "client_metadata"} /\ part.at[k] = made
        BY <3>1, RegistrationPayload DEF MetadataKey
      <4>2. \A k \in RegistrationKeys : Has(query, k) => Has(part, k) /\ query.at[k] = ReadValue(part.at[k])
        BY <1>1, MetadataInQuery
      <4>3. ReadValue(made) = Reread(made)
        BY MetadataIsObject DEF ReadValue, IsObject
      <4> HIDE DEF made, part, query
      <4>4. QED
        BY <4>1, <4>2, <4>3
    <3> HIDE DEF made, query
    <3>3. MetadataReference(query) = Undef
      BY <3>2 DEF MetadataReference, RegistrationKeys, At
    <3>4. MetadataValue(query) = Undef \/ MetadataValue(query) = Reread(made)
      BY <3>2 DEF MetadataValue, RegistrationKeys, At
    <3>5. read = MetadataValue(query)
      BY <3>3, UndefinedIsFalse DEF fetchByReferenceOrUseByValue
    <3>6. MetadataValid(MetadataReference(query), read)
      BY <3>1, <3>3, <3>4, <3>5, UndefinedIsFalse DEF MetadataValid
    <3>7. QED
      BY <1>4, <3>6 DEF query
  <2>2. Explained("metadata")
    BY <2>1 DEF Explained, ExplainedDelivery, ExplainedAcceptance
  <2>3. QED
    BY <1>4, <2>2, RefusedWithReason
<1>5. QED
  BY <1>2, <1>3, <1>4 DEF RefuseToRead

LEMMA ClientExplained ==
  ASSUME DeliveryInv, Issued, ~IsString(At(Merged, "client_id"))
  PROVE  ~Truthy(RequestPayloadOf(rp), "client_id") /\ MetadataInside(rp)
<1> DEFINE p == RequestPayloadOf(rp)
           made == createRPRegistrationMetadataPayload(ClientMetadataOf(rp))
           did == RequestObjectOf(rp).at["signatureType"].at["did"]
<1>1. At(Merged, "client_id") = ClientId(rp, p)
  BY ObjectFits, MergedFields DEF Has
<1>2. ClientId(rp, p) = OrElse(p, "client_id", IF MetadataInside(rp) THEN made ELSE did)
  BY DEF ClientId, MetadataInside
<1>3. IsString(did)
  BY SignedByDid DEF Issued
<1>4. Has(p, "client_id") => IsString(p.at["client_id"])
  <2>1. p # Undef
    BY ObjectFields
  <2>2. PayloadOptsBesidesClaims(p)
    BY <2>1, OptionsOfMetadata, OptionsOfRequests DEF Issued
  <2>3. QED
    BY <2>2, PayloadOptions DEF OptionTexts
<1>5. Truthy(p, "client_id") => Has(p, "client_id") /\ p.at["client_id"] # String("")
  <2>1. ~IsTrue(String(""))
    BY DEF IsTrue, String
  <2>2. QED
    BY <2>1, UndefinedIsFalse DEF Truthy, At
<1> HIDE DEF p, made, did
<1>6. QED
  BY <1>1, <1>2, <1>3, <1>4, <1>5 DEF OrElse, p

LEMMA ClaimsExplained ==
  ASSUME DeliveryInv, Issued, stage \in AfterReading, LooksIntoNoClaims(Merged)
  PROVE  IsDraft11(rp) /\ NoClaims(rp)
<1>1. IsDraft11(rp)
  BY MarkedByDraft DEF LooksIntoNoClaims
<1>2. ~Has(received, "claims")
  BY MergedFields DEF LooksIntoNoClaims
<1>3. Has(rp, "payload") <=> At(rp, "payload") # Undef
  BY OptionsOfMetadata, OptionsOfRequests DEF Issued
<1>4. QED
  BY <1>1, <1>2, <1>3, ReceivedClaims DEF NoClaims

LEMMA VerifyingExplained ==
  ASSUME DeliveryInv, stage \in {"read", "verified"}, NoMetadataBesides, FieldsOfOptions, ClaimsAreValues,
         NEW served, NEW d, NEW result, VerifyObstacle(served, d, result) # "none"
  PROVE  Explained(VerifyObstacle(served, d, result))
<1> DEFINE m == Merged
           vs == authorizationRequestVersionDiscovery(m)
           r == VerifyObstacle(served, d, result)
<1>1. stage \in AfterReading /\ stage \in AfterSigning
  BY DEF AfterReading, AfterSigning
<1>2. CASE object = Undef
  <2>1. ~Has(RequestObjectOf(rp), "payload")
    BY <1>1, <1>2, WithoutObject, OptionsOfMetadata, OptionsOfRequests
  <2>2. r = "request object"
    BY <1>2 DEF VerifyObstacle
  <2>3. QED
    BY <2>1, <2>2 DEF Explained, ExplainedDelivery, ExplainedAcceptance
<1>3. CASE object # Undef
  <2>1. Issued
    BY <1>1, <1>3 DEF Issued
  <2> DEFINE metadataValid == MetadataValid(At(m, ReferenceKey[DiscoveryKey(m)]), MetadataAt(m, served))
             refused == TextAt(m, "client_id") \in Dids /\ ~DomainAccepted(setting.modes.op, result)
  <2>2. r = IF ~metadataValid THEN "metadata"
            ELSE IF ~IsString(At(m, "client_id")) THEN "client_id"
            ELSE IF refused THEN "domain"
            ELSE IF LooksIntoNoClaims(m) THEN "claims"
            ELSE IF vs = <<>> THEN "version"
            ELSE IF ~DefinitionsValid(m, vs[1], d) THEN "definition"
            ELSE "none"
    BY <1>3 DEF VerifyObstacle
  <2>3. ~metadataValid =>
          Referred(rp) \/ EmptyList(At(ClientMetadataOf(rp), "subjectSyntaxTypesSupported"))
    <3>1. SUFFICES ASSUME ~Referred(rp), ~EmptyList(At(ClientMetadataOf(rp), "subjectSyntaxTypesSupported"))
                   PROVE  metadataValid
      OBVIOUS
    <3> DEFINE made == createRPRegistrationMetadataPayload(ClientMetadataOf(rp))
    <3>2. MetadataInside(rp) /\ assertValidRPRegistrationMetadataPayload(made)
      BY <1>1, <3>1, OptionsOfMetadata
    <3>3. MetadataAt(m, served) = made
      BY <1>1, <2>1, <3>1, <3>2, MetadataArrive
    <3>4. made # Undef
      BY MetadataIsObject DEF IsObject, Undef
    <3> HIDE DEF made
    <3>5. QED
      BY <3>2, <3>3, <3>4 DEF MetadataValid
  <2>4. ~IsString(At(m, "client_id")) => ~Truthy(RequestPayloadOf(rp), "client_id") /\ MetadataInside(rp)
    BY <2>1, ClientExplained
  <2>5. refused => setting.modes # [op |-> "never", rp |-> "never"]
    BY DEF DomainAccepted, Asked
  <2>6. LooksIntoNoClaims(m) => IsDraft11(rp) /\ NoClaims(rp)
    BY <1>1, <2>1, ClaimsExplained
  <2>7. IsString(At(m, "client_id")) /\ vs = <<>> => ~VersionFits(rp)
    BY <1>1, <2>1, FitsAVersion
  <2>8. ~DefinitionsValid(m, vs[1], d) => ~GoodDefinitions
    BY <1>1, <2>1, GoodMerged
  <2> HIDE DEF m, vs, metadataValid, refused, r
  <2>9. CASE r = "metadata"
    BY <2>2, <2>3, <2>9 DEF Explained, ExplainedDelivery, ExplainedAcceptance, r
  <2>10. CASE r = "client_id"
    BY <2>2, <2>4, <2>10 DEF Explained, ExplainedDelivery, ExplainedAcceptance, r
  <2>11. CASE r = "domain"
    BY <2>2, <2>5, <2>11 DEF Explained, ExplainedDelivery, ExplainedAcceptance, r
  <2>12. CASE r = "claims"
    BY <2>2, <2>6, <2>12 DEF Explained, ExplainedDelivery, ExplainedAcceptance, r
  <2>13. CASE r = "version"
    BY <2>2, <2>7, <2>13 DEF Explained, ExplainedDelivery, ExplainedAcceptance, r
  <2>14. CASE r = "definition"
    BY <2>2, <2>8, <2>14 DEF Explained, ExplainedDelivery, ExplainedAcceptance, r
  <2>15. QED
    BY <2>2, <2>9, <2>10, <2>11, <2>12, <2>13, <2>14 DEF r
<1>4. QED
  BY <1>2, <1>3

LEMMA OwnKeySigns ==
  ASSUME NEW sig, OwnKey(sig)
  PROVE  isInternalSignature(sig) /\ HasSigner(sig)
<1>1. /\ isInternalSignature(sig) /\ Has(sig, "hexPrivateKey")
      /\ TextAt(sig, "alg") # "RS256" /\ TextAt(sig, "hexPrivateKey") # ""
  BY DEF OwnKey, isInternalSignature, Has
<1>2. IsString(sig.at["hexPrivateKey"]) /\ sig.at["hexPrivateKey"].text # ""
  BY <1>1 DEF TextAt
<1>3. Truthy(sig, "hexPrivateKey")
  BY <1>1, <1>2 DEF Truthy, At, IsTrue, IsString
<1>4. QED
  BY <1>1, <1>3 DEF HasSigner

\* Without a definition, and with nothing to present, what is presented fits.
LEMMA NothingToPresent ==
  ASSUME DeliveryInv, stage = "answering", ~AskedAnywhere(rp), ~Presents(op), NEW matching
  PROVE  Cardinality(VpsAt(op, "vp_token")) = 0 /\ PresentationsFit(op, matching)
<1>1. found = <<>>
  BY NothingArrives DEF Understood
<1>2. VpsAt(op, "vp_token") = {} /\ VpsAt(op, "id_token") = {} /\ ~Has(At(op, "presentationExchange"), "_vp_token")
  BY DEF Presents
<1>3. Cardinality({}) = 0
  BY FS_EmptySet
<1>4. Presented(op) = 0
  BY <1>2, <1>3 DEF Presented
<1>5. QED
  BY <1>1, <1>2, <1>3, <1>4 DEF PresentationsFit

LEMMA AnsweringExplained ==
  ASSUME DeliveryInv, stage = "answering", NoMetadataBesides, NEW reachable, NEW matching,
         AnswerObstacle(reachable, matching) # "none"
  PROVE  Explained(AnswerObstacle(reachable, matching))
<1> DEFINE r == AnswerObstacle(reachable, matching)
           made == createRPRegistrationMetadataPayload(ClientMetadataOf(rp))
<1>1. stage \in AfterReading /\ Issued
  BY UnderstoodIsIssued DEF Understood
<1>2. received = decodeUriAsJson(outer)
  BY <1>1 DEF DeliveryInv, KnownFromRequest
<1>3. Has(received, "request_uri") => PassedBy(RequestObjectOf(rp), "REFERENCE")
  BY <1>1, <1>2, RequestInQuery, Reading
<1>4. ~IsDraft11(rp) /\ MetadataInside(rp) /\ Has(rp, "payload") => SupportedSyntaxTypes(Merged) # Undef
  <2>1. SUFFICES ASSUME ~IsDraft11(rp), MetadataInside(rp), Has(rp, "payload")
                 PROVE  SupportedSyntaxTypes(Merged) # Undef
    OBVIOUS
  <2>2. Has(Merged, "registration") /\ Merged.at["registration"] \in {made, Reread(made)}
    BY <1>1, <2>1, MergedMetadata DEF MetadataKey
  <2>3. /\ At(made, "subject_syntax_types_supported").is = "array"
        /\ At(Reread(made), "subject_syntax_types_supported").is = "array"
    BY <1>1, OptionsOfMetadata DEF Issued
  <2> HIDE DEF made
  <2>4. SupportedSyntaxTypes(Merged).is = "array"
    BY <2>2, <2>3 DEF SupportedSyntaxTypes, At
  <2>5. Undef.is # "array"
    BY DEF Undef
  <2>6. QED
    BY <2>4, <2>5
<1>5. \/ r = "unreachable" /\ Has(received, "request_uri")
      \/ r = "syntax types" /\ SupportedSyntaxTypes(Merged) = Undef
      \/ r = "answer signature" /\ ~SignsAnswers(op.at["signatureType"], reachable)
      \/ /\ r = "presentations"
         /\ Cardinality(VpsAt(op, "vp_token")) > 1 \/ ~PresentationsFit(op, matching)
  BY DEF AnswerObstacle
<1> HIDE DEF r
<1>6. Explained(r)
  <2>1. CASE r = "unreachable"
    BY <1>3, <1>5, <2>1 DEF Explained, ExplainedDelivery, ExplainedAcceptance
  <2>2. CASE r = "syntax types"
    BY <1>4, <1>5, <2>2 DEF Explained, ExplainedDelivery, ExplainedAcceptance
  <2>3. CASE r = "answer signature"
    <3>1. ~OwnKey(op.at["signatureType"])
      BY <1>5, <2>3, OwnKeySigns DEF SignsAnswers
    <3>2. QED
      BY <2>3, <3>1 DEF Explained, ExplainedDelivery, ExplainedAcceptance
  <2>4. CASE r = "presentations"
    <3>1. AskedAnywhere(rp) \/ Presents(op)
      BY <1>5, <2>4, NothingToPresent
    <3>2. QED
      BY <2>4, <3>1 DEF Explained, ExplainedDelivery, ExplainedAcceptance
  <2>5. QED
    BY <1>5, <2>1, <2>2, <2>3, <2>4
<1>7. QED
  BY <1>6 DEF r

LEMMA ExplainedStep ==
  ASSUME NoMetadataBesides, FieldsOfOptions, ClaimsAreValues, DeliveryInv, TypeOK, RefusalsExplained, [Next]_vars
  PROVE  RefusalsExplained'
<1>1. \A r \in {"options", "request options", "none"} : Explained(r)
  BY DEF Explained, ExplainedDelivery, ExplainedAcceptance
<1>2. ASSUME NEW r, Reach(r), reason = "none" PROVE RefusalsExplained'
  BY <1>2 DEF Reach, RefusalsExplained, DeliveryExplained, AcceptanceExplained
<1>3. CASE BuildParties \/ CreateRequest \/ SignRequest
  <2>1. reason = "none"
    BY <1>3 DEF TypeOK, BuildParties, CreateRequest, SignRequest
  <2>2. QED
    BY <1>2, <1>3, <2>1 DEF BuildParties, CreateRequest, SignRequest
<1>4. ASSUME NEW d, SendRequest(d) PROVE RefusalsExplained'
  BY <1>2, <1>4 DEF TypeOK, SendRequest
<1>5. ASSUME NEW served, ReadRequest(served) PROVE RefusalsExplained'
  BY <1>2, <1>5 DEF TypeOK, ReadRequest
<1>6. ASSUME NEW served, NEW d, NEW result, VerifyRequest(served, d, result) PROVE RefusalsExplained'
  BY <1>2, <1>6 DEF TypeOK, VerifyRequest
<1>7. ASSUME NEW reachable, NEW matching, Answer(reachable, matching) PROVE RefusalsExplained'
  BY <1>2, <1>7 DEF TypeOK, Answer
<1>8. ASSUME NEW result, CheckSubject(result) PROVE RefusalsExplained'
  BY <1>2, <1>8 DEF TypeOK, CheckSubject
<1>9. CASE RefuseOptions
  BY <1>1, <1>9, RefusedWithReason DEF RefuseOptions
<1>10. CASE RefuseToCreate
  <2>1. CASE Refuse("request options")
    BY <1>1, <2>1, RefusedWithReason
  <2>2. CASE Refuse("definition") /\ DefinitionsMayFail(At(At(RequestObjectOf(rp), "payload"), "claims"))
    <3>1. Explained("definition")
      BY <2>2, GoodCreation DEF Explained, ExplainedDelivery, ExplainedAcceptance, RequestPayloadOf
    <3>2. QED
      BY <2>2, <3>1, RefusedWithReason
  <2>3. QED
    BY <1>10, <2>1, <2>2 DEF RefuseToCreate
<1>11. CASE RefuseToSign
  <2>1. Explained("signature")
    BY <1>11, SigningExplained DEF RefuseToSign, Explained, ExplainedDelivery, ExplainedAcceptance
  <2>2. QED
    BY <1>11, <2>1, RefusedWithReason DEF RefuseToSign
<1>12. ASSUME NEW d, RefuseToSend(d) PROVE RefusalsExplained'
  BY <1>12, SendingExplained, RefusedWithReason DEF RefuseToSend
<1>13. ASSUME NEW served, RefuseToRead(served) PROVE RefusalsExplained'
  BY <1>13, ReadingExplained
<1>14. ASSUME NEW served, NEW d, NEW result, RefuseToVerify(served, d, result) PROVE RefusalsExplained'
  BY <1>14, VerifyingExplained, RefusedWithReason DEF RefuseToVerify
<1>15. ASSUME NEW reachable, NEW matching, RefuseToAnswer(reachable, matching) PROVE RefusalsExplained'
  <2>1. CASE ~assertValidResponseOpts(op) /\ Refuse("answer signature")
    <3>1. ~Truthy(op, "did") \/ ~OwnKey(op.at["signatureType"])
      BY <2>1, OwnKeySigns DEF assertValidResponseOpts
    <3>2. Explained("answer signature")
      BY <3>1 DEF Explained, ExplainedDelivery, ExplainedAcceptance
    <3>3. QED
      BY <2>1, <3>2, RefusedWithReason
  <2>2. QED
    BY <1>15, <2>1, AnsweringExplained, RefusedWithReason DEF RefuseToAnswer
<1>16. ASSUME NEW result, RefuseSubject(result) PROVE RefusalsExplained'
  <2>1. CASE subject \notin Dids /\ Refuse("subject")
    <3>1. subject = TextAt(op, "did")
      BY <1>16 DEF RefuseSubject, DeliveryInv, AnsweredWithReason
    <3>2. Explained("subject")
      BY <2>1, <3>1 DEF Explained, ExplainedDelivery, ExplainedAcceptance
    <3>3. QED
      BY <2>1, <3>2, RefusedWithReason
  <2>2. CASE ~DomainAccepted(setting.modes.rp, result) /\ Refuse("domain")
    <3>1. Explained("domain")
      BY <2>2 DEF Explained, ExplainedDelivery, ExplainedAcceptance, DomainAccepted, Asked
    <3>2. QED
      BY <2>2, <3>1, RefusedWithReason
  <2>3. QED
    BY <1>16, <2>1, <2>2 DEF RefuseSubject
<1>17. CASE UNCHANGED vars
  <2>1. reason' = reason /\ setting' = setting /\ outer' = outer
    BY <1>17 DEF vars
  <2>2. RefusalsExplained <=> Explained(reason)
    BY DEF RefusalsExplained, DeliveryExplained, AcceptanceExplained,
           Explained, ExplainedDelivery, ExplainedAcceptance, GoodDefinitions
  <2>3. QED
    BY <2>1, <2>2, ExplainedAlike
<1>18. QED
  BY <1>3, <1>4, <1>5, <1>6, <1>7, <1>8, <1>9, <1>10, <1>11, <1>12, <1>13, <1>14, <1>15, <1>16, <1>17 DEF Next

(***************************************************************************)
(* A request that the RP's schema lets pass is refused for nothing but     *)
(* what is in the options: whatever the parties, the references and the    *)
(* domains are, as long as a payload brings no metadata and none but texts *)
(* in the fields that options do not have, and claims are JSON values.     *)
(***************************************************************************)
THEOREM NothingElseRefuses ==
  ASSUME NoMetadataBesides, FieldsOfOptions, ClaimsAreValues
  PROVE  Spec => []RefusalsExplained
<1>1. Init => RefusalsExplained
  BY DEF Init, RefusalsExplained, DeliveryExplained, AcceptanceExplained
<1>2. DeliveryInv /\ TypeOK /\ RefusalsExplained /\ [Next]_vars => RefusalsExplained'
  BY ExplainedStep
<1>3. QED
  BY <1>1, <1>2, Delivery, TypeCorrect, PTL DEF Spec

-----------------------------------------------------------------------------
(***************************************************************************)
(* What a request of draft 11 is recognised as.                            *)
(***************************************************************************)

\* The latest version is the first that is recognised if its schema is
\* satisfied and nothing of draft 1 is there.
LEMMA LatestRecognised ==
  ASSUME DeliveryInv, Understood
  PROVE  /\ AuthorizationRequestPayloadVD11(Merged) /\ WithoutDraft1(Merged) => versions[1] = 110
         /\ AuthorizationRequestPayloadVD11(Merged) \/ AuthorizationRequestPayloadVID1(Merged)
<1> DEFINE latest  == IF AuthorizationRequestPayloadVD11(Merged) /\ WithoutDraft1(Merged) THEN <<110>> ELSE <<>>
           profile == IF AuthorizationRequestPayloadVID1(Merged) /\ WithoutDraft1(Merged) THEN <<71>> ELSE <<>>
           draft1  == IF AuthorizationRequestPayloadVID1(Merged) /\ WithoutDraft11(Merged) THEN <<70>> ELSE <<>>
<1>1. versions = latest \o profile \o draft1 /\ versions # <<>>
  BY DEF DeliveryInv, KnownFromRequest, authorizationRequestVersionDiscovery
<1>2. /\ latest = <<>> \/ latest = <<110>>
      /\ profile = <<>> \/ profile = <<71>>
      /\ draft1 = <<>> \/ draft1 = <<70>>
      /\ ~AuthorizationRequestPayloadVID1(Merged) => profile = <<>> /\ draft1 = <<>>
      /\ ~AuthorizationRequestPayloadVD11(Merged) => latest = <<>>
      /\ AuthorizationRequestPayloadVD11(Merged) /\ WithoutDraft1(Merged) => latest = <<110>>
  OBVIOUS
<1> HIDE DEF latest, profile, draft1
<1>3. latest = <<110>> => versions[1] = 110
  <2>1. \A a, b \in {<<>>, <<71>>, <<70>>} : (<<110>> \o a \o b)[1] = 110
    OBVIOUS
  <2>2. QED
    BY <1>1, <1>2, <2>1
<1>4. AuthorizationRequestPayloadVD11(Merged) \/ AuthorizationRequestPayloadVID1(Merged)
  <2>1. SUFFICES ASSUME ~AuthorizationRequestPayloadVD11(Merged), ~AuthorizationRequestPayloadVID1(Merged)
                 PROVE  FALSE
    OBVIOUS
  <2>2. latest = <<>> /\ profile = <<>> /\ draft1 = <<>>
    BY <1>2, <2>1
  <2>3. (<<>> \o <<>>) \o <<>> = <<>>
    OBVIOUS
  <2>4. QED
    BY <1>1, <2>2, <2>3
<1>5. QED
  BY <1>2, <1>3, <1>4

LEMMA NoClaimsLeft ==
  ASSUME DeliveryInv, Issued, stage \in AfterReading, ClaimsAreValues, Has(Merged, "claims")
  PROVE  Closed(Merged.at["claims"], {}) <=> EitherClaims(rp) = EmptyObject
<1> DEFINE own == At(RequestPayloadOf(rp), "claims")
           either == EitherClaims(rp)
           claims == Merged.at["claims"]
<1>1. /\ IsObject(either) /\ JsonValue(either)
      /\ \/ AsksFor(own) /\ either = own /\ claims = ClaimsProperties(own)
         \/ ~AsksFor(own) /\ claims = Reread(either)
  BY ClaimsMerged
<1>2. AsksFor(own) => Has(own, "vp_token") /\ Has(ClaimsProperties(own), "vp_token")
  <2>1. AsksFor(own) => Has(own, "vp_token")
    BY UndefinedIsFalse DEF AsksFor, Truthy, At, Has, Keys, Undef
  <2>2. AsksFor(own) => At(ClaimsProperties(own), "vp_token") # Undef
    <3>1. \A f : Object(f) # Undef
      BY DEF Object, Undef
    <3>2. QED
      BY <3>1, ClaimsMeaning
  <2>3. QED
    BY <2>1, <2>2 DEF At
<1>3. \A k : ~Has(EmptyObject, k)
  BY DEF EmptyObject, Object, Has, Keys
<1>4. IsObject(either) => (Keys(either) = {} <=> either = EmptyObject)
  <2>1. SUFFICES ASSUME IsObject(either), Keys(either) = {} PROVE either = EmptyObject
    BY <1>3 DEF Has
  <2>2. Canonical(either)
    BY <1>1, PartsOfMembers DEF JsonValue
  <2>3. either = Object([k \in DOMAIN either.at |-> either.at[k]])
    BY <2>1, <2>2 DEF Canonical, IsObject
  <2>4. DOMAIN either.at = {}
    BY <2>1 DEF Keys, IsObject
  <2>5. [k \in {} |-> either.at[k]] = [k \in {} |-> NullValue]
    OBVIOUS
  <2> HIDE DEF either
  <2>6. QED
    BY <2>3, <2>4, <2>5 DEF EmptyObject
<1>5. /\ Keys(Reread(either)) = Keys(either) /\ IsObject(Reread(either))
  BY <1>1, RereadKeepsShape DEF SameShape, IsObject
<1>6. \A v : Closed(v, {}) <=> IsObject(v) /\ Keys(v) = {}
  BY DEF Closed, IsObject
<1> HIDE DEF own, either, claims
<1>7. CASE AsksFor(own)
  <2>1. ~Closed(claims, {})
    BY <1>1, <1>2, <1>6, <1>7 DEF Has
  <2>2. either # EmptyObject
    BY <1>1, <1>2, <1>3, <1>7
  <2>3. QED
    BY <2>1, <2>2 DEF claims, either
<1>8. CASE ~AsksFor(own)
  BY <1>1, <1>4, <1>5, <1>6, <1>8 DEF claims, either
<1>9. QED
  BY <1>7, <1>8

LEMMA DefinitionKnownAsRead ==
  ASSUME DeliveryInv, Issued, stage \in AfterReading, DefinitionsAreValues
  PROVE  /\ Has(Merged, "presentation_definition") <=> Has(At(rp, "payload"), "presentation_definition")
         /\ Has(Merged, "presentation_definition") =>
              (TopLevelDefinition(Merged.at["presentation_definition"]) <=> KnownDefinition(At(rp, "payload")))
<1> DEFINE p == At(rp, "payload")
           d == At(p, "presentation_definition")
<1>1. Has(p, "presentation_definition") => IsTrue(d) /\ JsonValue(d)
  BY DEF DeliveryInv, OptionsHeld, DefinitionsAreValues, rp
<1>2. /\ Has(Merged, "presentation_definition") <=> IsTrue(d)
      /\ Has(Merged, "presentation_definition") => Merged.at["presentation_definition"] = ReadValue(d)
  BY TopLevelFields DEF DefinitionPlaces
<1>3. Has(p, "presentation_definition") => d = p.at["presentation_definition"]
  BY DEF At
<1>4. ~Has(p, "presentation_definition") => ~IsTrue(d)
  BY UndefinedIsFalse DEF At
<1>5. Has(p, "presentation_definition") => (KnownDefinition(p) <=> PresentationDefinition(d))
  BY <1>3 DEF KnownDefinition, PresentationDefinition
<1>6. TopLevelDefinition(ReadValue(d)) <=> PresentationDefinition(ReadValue(d))
  <2>1. ReadValue(d).is # "array"
    BY ReadIsTextOrObject DEF IsString, IsObject
  <2>2. QED
    BY <2>1 DEF TopLevelDefinition, ArrayOf
<1>7. \A v : PresentationDefinition(v) => IsObject(v)
  BY DEF PresentationDefinition, PresentationDefinitionV1, PresentationDefinitionV2,
         DefinitionBesidesDescriptors, Closed, IsObject
<1>8. IsObject(ReadValue(d)) <=> IsObject(d)
  <2>1. IsObject(d) => ReadValue(d) = Reread(d) /\ IsObject(Reread(d))
    BY RereadKeepsShape DEF ReadValue, SameShape, IsObject
  <2>2. ~IsObject(d) => ~IsObject(ReadValue(d))
    BY DEF IsObject, ReadValue, Reread, WithMembers, String
  <2>3. QED
    BY <2>1, <2>2
<1>9. JsonValue(d) => (PresentationDefinition(ReadValue(d)) <=> PresentationDefinition(d))
  <2>1. IsObject(d) => ReadValue(d) = Reread(d)
    BY DEF ReadValue, IsObject
  <2>2. JsonValue(d) => (PresentationDefinition(Reread(d)) <=> PresentationDefinition(d))
    BY SchemasReadTheSame
  <2> HIDE DEF d
  <2>3. QED
    BY <1>7, <1>8, <2>1, <2>2
<1> HIDE DEF p, d
<1>10. QED
  BY <1>1, <1>2, <1>4, <1>5, <1>6, <1>9 DEF p

LEMMA FitsDraft11 ==
  ASSUME DeliveryInv, Issued, stage \in AfterReading, IsDraft11(rp), ~LooksIntoNoClaims(Merged),
         NoMetadataBesides, FieldsOfOptions, ClaimsAreValues, DefinitionsAreValues,
         AuthorizationRequestPayloadVD11(Merged) \/ AuthorizationRequestPayloadVID1(Merged),
         WithoutDraft1(Merged)
  PROVE  AuthorizationRequestPayloadVD11(Merged) <=>
           EitherClaims(rp) = EmptyObject /\ KnownDefinition(At(rp, "payload"))
<1> DEFINE definition == Merged.at["presentation_definition"]
           p == At(rp, "payload")
<1>1. Has(Merged, "client_metadata") => RPRegistrationMetadataPayload(Merged.at["client_metadata"])
  BY MetadataFit
<1>2. Has(Merged, "client_metadata_uri") => IsString(Merged.at["client_metadata_uri"])
  BY MergedMetadata
<1>3. \A k \in {"id_token_type", "presentation_definition_uri"} : Has(Merged, k) => IsString(Merged.at[k])
  <2>1. \A k \in {"id_token_type", "presentation_definition_uri"} : ~Has(object, k)
    BY ObjectClaims DEF DefinitionPlaces
  <2>2. \A k \in {"id_token_type", "presentation_definition_uri"} : Has(received, k) => IsString(received.at[k])
    BY ReceivedFits
  <2>3. QED
    BY <2>1, <2>2, MergedFields DEF At
<1>4. Has(Merged, "claims") => (ClaimPayloadCommon(Merged.at["claims"]) <=> EitherClaims(rp) = EmptyObject)
  BY NoClaimsLeft DEF ClaimPayloadCommon
<1>5. /\ Has(Merged, "presentation_definition") <=> Has(p, "presentation_definition")
      /\ Has(Merged, "presentation_definition") => (TopLevelDefinition(definition) <=> KnownDefinition(p))
  BY DefinitionKnownAsRead
<1>6. ~Has(p, "presentation_definition") => KnownDefinition(p)
  BY DEF KnownDefinition
<1>7. PayloadBesidesClaims(Merged)
  BY DEF AuthorizationRequestPayloadVD11, AuthorizationRequestPayloadVID1
<1>8. Has(Merged, "claims")
  BY DEF LooksIntoNoClaims, WithoutDraft1
<1>9. AuthorizationRequestPayloadVD11(Merged) <=>
        /\ ClaimPayloadCommon(Merged.at["claims"])
        /\ Has(Merged, "presentation_definition") => TopLevelDefinition(definition)
  BY <1>1, <1>2, <1>3, <1>7, <1>8 DEF AuthorizationRequestPayloadVD11, Properties, Has
<1> HIDE DEF definition, p
<1>10. AuthorizationRequestPayloadVD11(Merged) <=> EitherClaims(rp) = EmptyObject /\ KnownDefinition(p)
  BY <1>4, <1>5, <1>6, <1>8, <1>9
<1>11. QED
  BY <1>10 DEF p

(***************************************************************************)
(* A request of draft 1 is recognised as that alone, one of draft 11 never *)
(* as draft 1, and first as draft 11 if the options make no claims and the *)
(* schema knows the definition in the payload: for any options as above.   *)
(***************************************************************************)
THEOREM IssuedIsRecognised ==
  ASSUME NoMetadataBesides, FieldsOfOptions, ClaimsAreValues, DefinitionsAreValues
  PROVE  Spec => []RecognisedAsIssued
<1>1. DeliveryInv => DraftsKeptApart
  BY DraftsApart
<1>2. DeliveryInv => RecognisedAsIssued
  <2> SUFFICES ASSUME DeliveryInv, Understood PROVE RecognisedAsIssued
    BY DEF RecognisedAsIssued
  <2>1. VersionOf(rp) = 70 => versions = <<70>>
    BY <1>1 DEF DraftsKeptApart
  <2>2. ASSUME IsDraft11(rp)
        PROVE  /\ \A i \in DOMAIN versions : versions[i] # 70
               /\ EitherClaims(rp) = EmptyObject /\ KnownDefinition(At(rp, "payload")) => versions[1] = 110
    <3>1. \A i \in DOMAIN versions : versions[i] # 70
      BY <1>1, <2>2 DEF DraftsKeptApart
    <3>2. Issued /\ stage \in AfterReading
      BY UnderstoodIsIssued
    <3>3. WithoutDraft1(Merged)
      <4>1. versions # <<70>>
        <5>1. versions = <<70>> => 1 \in DOMAIN versions /\ versions[1] = 70
          OBVIOUS
        <5>2. QED
          BY <3>1, <5>1
      <4>2. QED
        BY <4>1, Recognition
    <3>4. ~LooksIntoNoClaims(Merged)
      BY DEF DeliveryInv, KnownFromRequest
    <3>5. AuthorizationRequestPayloadVD11(Merged) <=>
            EitherClaims(rp) = EmptyObject /\ KnownDefinition(At(rp, "payload"))
      BY <2>2, <3>2, <3>3, <3>4, LatestRecognised, FitsDraft11
    <3>6. QED
      BY <3>1, <3>3, <3>5, LatestRecognised
  <2>3. QED
    BY <2>1, <2>2 DEF RecognisedAsIssued
<1>3. QED
  BY <1>2, Delivery, PTL

=============================================================================
