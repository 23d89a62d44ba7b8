---------------------------- MODULE SessionProofs ----------------------------
(***************************************************************************)
(* Proofs about Session for every number of network errors and relogins,   *)
(* with and without a token.                                               *)
(***************************************************************************)
EXTENDS Session, SequenceLemmas

\* Everything that may wait somewhere, and the callback that brings its answer.
Things == Tasks \union Others
Answers(A) == [what : A, how : Hows]

\* The copies in a bag of the elements of a set.
CopiesOf(B, A) == {c \in A \X Nat : c[1] \in DOMAIN B /\ c[2] \in 1..B[c[1]]}

\* How many tasks of the fetch thread, waiting callbacks and awaited answers are
\* members of a set.
Total(tasks, callbacks, answers, A) ==
    Among(tasks, A) + Among(callbacks, Answers(A)) + Cardinality(CopiesOf(answers, A))

Flag(b) == IF b THEN 1 ELSE 0

Starts == {p \in Things : p.kind = "start"}
Looping(s) ==
    {p \in Things : \/ p.kind \in {"start", "loads", "cached"}
                    \/ p.kind \in {"fetch", "events"} /\ p.session = s}
Continuing(s) ==
    {p \in Things : p \in Looping(s) \/ p.kind \in {"login", "oauth", "retry", "logout", "end"}}

Queued ==
    /\ fetcher \in Seq(Tasks)
    /\ core \in Seq(Callbacks)
    /\ IsABag(away) /\ BagToSet(away) \subseteq Others
    /\ IsFiniteSet(BagToSet(away)) /\ IsFiniteSet(CopiesOf(away, Others))
Flags ==
    /\ {alive, oauth, leaving, hasUrl, dropped} \subseteq BOOLEAN
    /\ relogins \in 0..MaxRelogins
Control == {running, overtaken} \subseteq BOOLEAN /\ session \in Sessions

\* A start is waited for exactly when the flag says so, and there is one; something
\* continues the loop of an im that lives; it is one thing unless a start left
\* another behind.
SessionInv ==
    /\ Queued /\ Flags /\ Control
    /\ alive \/ ~running
    /\ Total(fetcher, core, away, Starts) = Flag(running)
    /\ alive /\ ~dropped => Total(fetcher, core, away, Continuing(session)) # 0
    /\ ~overtaken => Total(fetcher, core, away, Looping(session)) <= 1

-----------------------------------------------------------------------------
(* Bags. *)

\* One copy more, and one less.
OneMore(B, x) == B (+) One(x)
OneLess(B, x) == B (-) One(x)

\* What one more answer to wait for adds to a bag of them: one copy, which counts if
\* it is one of those counted.
LEMMA BagGrows ==
    ASSUME NEW B, IsABag(B), NEW x, NEW A, IsFiniteSet(CopiesOf(B, A)),
           NEW C, C = OneMore(B, x)
    PROVE  /\ IsABag(C)
           /\ DOMAIN C \subseteq DOMAIN B \union {x}
           /\ IsFiniteSet(CopiesOf(C, A))
           /\ Cardinality(CopiesOf(C, A)) = Cardinality(CopiesOf(B, A)) + Weight(x, A)
<1>1. DOMAIN C = DOMAIN B \union {x}
  BY DEF OneMore, (+), One, SetToBag
<1>2. \A e \in DOMAIN B : B[e] \in Nat /\ B[e] > 0
  BY DEF IsABag
<1>3. \A e \in DOMAIN C \ {x} : C[e] = B[e]
  BY <1>1, <1>2 DEF OneMore, (+), One, SetToBag
<1>4. C[x] = IF x \in DOMAIN B THEN B[x] + 1 ELSE 1
  BY <1>1, <1>2 DEF OneMore, (+), One, SetToBag
<1>5. IsABag(C)
  <2>1. \A e \in DOMAIN C : C[e] \in Nat /\ C[e] > 0
    BY <1>1, <1>2, <1>3, <1>4
  <2>2. C = [e \in DOMAIN C |-> C[e]]
    BY DEF OneMore, (+)
  <2> QED  BY <2>1, <2>2 DEF IsABag
<1>6. CASE x \in A
  <2>1. C[x] \in Nat /\ C[x] > 0
    BY <1>2, <1>4
  <2>2. CopiesOf(C, A) = CopiesOf(B, A) \union {<<x, C[x]>>}
    <3>1. ASSUME NEW c \in A \X Nat
          PROVE  c \in CopiesOf(C, A) <=> c \in CopiesOf(B, A) \/ c = <<x, C[x]>>
      <4>1. PICK e \in A, n \in Nat : c = <<e, n>>
        BY <3>1
      <4>2. CASE e = x
        BY <1>1, <1>2, <1>4, <4>1, <4>2 DEF CopiesOf
      <4>3. CASE e # x
        BY <1>1, <1>3, <4>1, <4>3 DEF CopiesOf
      <4> QED  BY <4>2, <4>3
    <3>2. CopiesOf(C, A) \subseteq A \X Nat /\ CopiesOf(B, A) \subseteq A \X Nat
      BY DEF CopiesOf
    <3>3. <<x, C[x]>> \in A \X Nat
      BY <1>6, <2>1
    <3> QED  BY <3>1, <3>2, <3>3
  <2>3. <<x, C[x]>> \notin CopiesOf(B, A)
    BY <1>2, <1>4 DEF CopiesOf
  <2>4. /\ IsFiniteSet(CopiesOf(C, A))
        /\ Cardinality(CopiesOf(C, A)) = Cardinality(CopiesOf(B, A)) + 1
    BY <2>2, <2>3, FS_AddElement
  <2>5. Weight(x, A) = 1
    BY <1>6 DEF Weight
  <2> QED  BY <1>1, <1>5, <2>4, <2>5
<1>7. CASE x \notin A
  <2>1. CopiesOf(C, A) = CopiesOf(B, A)
    BY <1>1, <1>3, <1>7 DEF CopiesOf
  <2>2. Cardinality(CopiesOf(B, A)) \in Nat
    BY FS_CardinalityType
  <2> QED  BY <1>1, <1>5, <1>7, <2>1, <2>2 DEF Weight
<1> QED  BY <1>6, <1>7

\* What an answer that has come takes from a bag of those waited for.
LEMMA BagShrinks ==
    ASSUME NEW B, IsABag(B), NEW x \in DOMAIN B, NEW A, IsFiniteSet(CopiesOf(B, A)),
           NEW C, C = OneLess(B, x)
    PROVE  /\ IsABag(C)
           /\ DOMAIN C \subseteq DOMAIN B
           /\ IsFiniteSet(CopiesOf(C, A))
           /\ Cardinality(CopiesOf(B, A)) = Cardinality(CopiesOf(C, A)) + Weight(x, A)
<1>2. \A e \in DOMAIN B : B[e] \in Nat /\ B[e] > 0
  BY DEF IsABag
<1>1. /\ DOMAIN C = {e \in DOMAIN B : e # x \/ B[e] > 1}
      /\ \A e \in DOMAIN C : C[e] = IF e = x THEN B[e] - 1 ELSE B[e]
  BY <1>2 DEF OneLess, (-), One, SetToBag
<1>5. IsABag(C)
  <2>1. \A e \in DOMAIN C : C[e] \in Nat /\ C[e] > 0
    BY <1>1, <1>2
  <2>2. C = [e \in DOMAIN C |-> C[e]]
    BY DEF OneLess, (-)
  <2> QED  BY <2>1, <2>2 DEF IsABag
<1>6. CASE x \in A
  <2>1. B[x] \in Nat /\ B[x] > 0
    BY <1>2
  <2>2. CopiesOf(C, A) = CopiesOf(B, A) \ {<<x, B[x]>>}
    <3>1. ASSUME NEW c \in A \X Nat
          PROVE  c \in CopiesOf(C, A) <=> c \in CopiesOf(B, A) /\ c # <<x, B[x]>>
      <4>1. PICK e \in A, n \in Nat : c = <<e, n>>
        BY <3>1
      <4>2. CASE e = x
        BY <1>1, <1>2, <4>1, <4>2 DEF CopiesOf
      <4>3. CASE e # x
        BY <1>1, <4>1, <4>3 DEF CopiesOf
      <4> QED  BY <4>2, <4>3
    <3>2. CopiesOf(C, A) \subseteq A \X Nat /\ CopiesOf(B, A) \subseteq A \X Nat
      BY DEF CopiesOf
    <3> QED  BY <3>1, <3>2
  <2>3. <<x, B[x]>> \in CopiesOf(B, A)
    BY <1>6, <2>1 DEF CopiesOf
  <2>4. /\ IsFiniteSet(CopiesOf(C, A))
        /\ Cardinality(CopiesOf(C, A)) = Cardinality(CopiesOf(B, A)) - 1
    BY <2>2, <2>3, FS_RemoveElement
  <2>5. Cardinality(CopiesOf(B, A)) \in Nat /\ Cardinality(CopiesOf(C, A)) \in Nat
    BY <2>4, FS_CardinalityType
  <2>6. Weight(x, A) = 1
    BY <1>6 DEF Weight
  <2> QED  BY <1>1, <1>5, <2>4, <2>5, <2>6
<1>7. CASE x \notin A
  <2>1. CopiesOf(C, A) = CopiesOf(B, A)
    BY <1>1, <1>7 DEF CopiesOf
  <2>2. Cardinality(CopiesOf(B, A)) \in Nat
    BY FS_CardinalityType
  <2> QED  BY <1>1, <1>5, <1>7, <2>1, <2>2 DEF Weight
<1> QED  BY <1>6, <1>7

-----------------------------------------------------------------------------
(* What is waited for. *)

\* The tasks and answers there are, and what they weigh.
LEMMA ThingTypes ==
    /\ \A s \in Sessions, first \in BOOLEAN, e \in 0..(MaxNetErrors + 1) :
          Fetch(s, first, e) \in Tasks
    /\ \A ping, login \in BOOLEAN : /\ Start(ping, login) \in Tasks
                                    /\ OAuth(ping, login) \in Others
                                    /\ Retry(ping, login) \in Others
    /\ \A s \in Sessions, first, relogin \in BOOLEAN : Events(s, first, relogin) \in Others
    /\ {Loads, Cached, Login, EndSession, Logout} \subseteq Others
BY DEF Tasks, Others, Fetch, Start, OAuth, Retry, Events, Loads, Cached, Login, EndSession,
       Logout

\* The kinds of the tasks and the answers.
LEMMA ThingKinds ==
    /\ \A p \in Tasks : /\ p.kind \in {"fetch", "start"}
                        /\ p.kind = "fetch" => /\ p.session \in Sessions /\ p.first \in BOOLEAN
                                               /\ p.errors \in 0..(MaxNetErrors + 1)
                        /\ p.kind = "start" => p.ping \in BOOLEAN /\ p.login \in BOOLEAN
    /\ \A p \in Others :
          /\ p.kind \in {"events", "oauth", "retry", "loads", "cached", "login", "end", "logout"}
          /\ p.kind = "events" => /\ p.session \in Sessions /\ p.first \in BOOLEAN
                                  /\ p.relogin \in BOOLEAN
          /\ p.kind \in {"oauth", "retry"} => p.ping \in BOOLEAN /\ p.login \in BOOLEAN
<1>1. ASSUME NEW p \in Tasks
      PROVE  /\ p.kind \in {"fetch", "start"}
             /\ p.kind = "fetch" => /\ p.session \in Sessions /\ p.first \in BOOLEAN
                                    /\ p.errors \in 0..(MaxNetErrors + 1)
             /\ p.kind = "start" => p.ping \in BOOLEAN /\ p.login \in BOOLEAN
  BY DEF Tasks
<1>2. ASSUME NEW p \in Others
      PROVE  /\ p.kind \in {"events", "oauth", "retry", "loads", "cached", "login", "end",
                            "logout"}
             /\ p.kind = "events" => /\ p.session \in Sessions /\ p.first \in BOOLEAN
                                     /\ p.relogin \in BOOLEAN
             /\ p.kind \in {"oauth", "retry"} => p.ping \in BOOLEAN /\ p.login \in BOOLEAN
  BY DEF Others, Loads, Cached, Login, EndSession, Logout
<1> QED  BY <1>1, <1>2

\* What a thing counts.
LEMMA ThingWeights ==
    ASSUME NEW p \in Things, NEW s
    PROVE  /\ Weight(p, Starts) = Flag(p.kind = "start")
           /\ Weight(p, Looping(s)) = Flag(\/ p.kind \in {"start", "loads", "cached"}
                                           \/ p.kind \in {"fetch", "events"} /\ p.session = s)
           /\ Weight(p, Continuing(s))
                = Flag(\/ p.kind \in {"start", "loads", "cached"}
                       \/ p.kind \in {"fetch", "events"} /\ p.session = s
                       \/ p.kind \in {"login", "oauth", "retry", "logout", "end"})
BY DEF Weight, Starts, Looping, Continuing, Flag

\* A callback and what it answers.
LEMMA CallbackType ==
    ASSUME NEW c \in Callbacks
    PROVE  /\ c.what \in Things /\ c.how \in Hows /\ c.how \in Outcomes(c.what)
           /\ c = Answer(c.what, c.how)
           /\ \A A : c \in Answers(A) <=> c.what \in A
<1>1. c \in [what : Things, how : Hows] /\ c.how \in Outcomes(c.what)
  BY DEF Callbacks, Things
<1>2. c = [what |-> c.what, how |-> c.how]
  BY <1>1
<1> QED  BY <1>1, <1>2 DEF Answer, Answers

\* An answer to something, in one of the ways it may be answered, is a callback.
LEMMA AnswerType ==
    ASSUME NEW p \in Things, NEW how \in Outcomes(p)
    PROVE  Answer(p, how) \in Callbacks /\ Answer(p, how).what = p
<1>1. how \in Hows
  BY DEF Outcomes, Hows
<1> QED  BY <1>1 DEF Callbacks, Answer, Things

\* The numbers are numbers, and zero when there is nothing.
LEMMA TotalType ==
    ASSUME NEW f \in Seq(Tasks), NEW c \in Seq(Callbacks), NEW b, IsABag(b),
           BagToSet(b) \subseteq Others, IsFiniteSet(CopiesOf(b, Others)), NEW A
    PROVE  /\ IsFiniteSet(CopiesOf(b, A))
           /\ Among(f, A) \in Nat /\ Among(c, Answers(A)) \in Nat
           /\ Cardinality(CopiesOf(b, A)) \in Nat
           /\ Total(f, c, b, A) \in Nat
           /\ Total(f, c, b, A) = 0 <=> /\ \A i \in DOMAIN f : f[i] \notin A
                                        /\ \A i \in DOMAIN c : c[i].what \notin A
                                        /\ \A p \in BagToSet(b) : p \notin A
<1>1. /\ IsFiniteSet(CopiesOf(b, A)) /\ Cardinality(CopiesOf(b, A)) \in Nat
  <2>1. CopiesOf(b, A) \subseteq CopiesOf(b, Others)
    BY DEF CopiesOf, BagToSet
  <2>2. IsFiniteSet(CopiesOf(b, A))
    BY <2>1, FS_Subset
  <2> QED  BY <2>2, FS_CardinalityType
<1>2. Among(f, A) \in Nat /\ (Among(f, A) = 0 <=> \A i \in DOMAIN f : f[i] \notin A)
  BY AmongType, AmongZero
<1>3. /\ Among(c, Answers(A)) \in Nat
      /\ Among(c, Answers(A)) = 0 <=> \A i \in DOMAIN c : c[i].what \notin A
  <2>1. \A i \in DOMAIN c : c[i] \in Answers(A) <=> c[i].what \in A
    <3> SUFFICES ASSUME NEW i \in DOMAIN c PROVE c[i] \in Answers(A) <=> c[i].what \in A
      OBVIOUS
    <3>1. c[i] \in Callbacks
      BY ElementOfSeq, LenProperties
    <3> QED  BY <3>1, CallbackType
  <2>2. /\ Among(c, Answers(A)) \in Nat
        /\ Among(c, Answers(A)) = 0 <=> \A i \in DOMAIN c : c[i] \notin Answers(A)
    BY AmongType, AmongZero
  <2> QED  BY <2>1, <2>2
<1>4. Cardinality(CopiesOf(b, A)) = 0 <=> \A p \in BagToSet(b) : p \notin A
  <2>1. Cardinality(CopiesOf(b, A)) = 0 <=> CopiesOf(b, A) = {}
    BY <1>1, FS_EmptySet
  <2>2. ASSUME NEW p \in DOMAIN b, p \in A PROVE CopiesOf(b, A) # {}
    <3>1. b[p] \in Nat /\ b[p] > 0
      BY DEF IsABag
    <3>2. <<p, 1>> \in CopiesOf(b, A)
      BY <2>2, <3>1 DEF CopiesOf
    <3> QED  BY <3>2
  <2>3. ASSUME NEW x \in CopiesOf(b, A) PROVE x[1] \in DOMAIN b /\ x[1] \in A
    BY DEF CopiesOf
  <2> QED  BY <2>1, <2>2, <2>3 DEF BagToSet
<1> QED  BY <1>1, <1>2, <1>3, <1>4 DEF Total

\* The callback that runs was one of those that waited.
LEMMA HeadGone ==
    ASSUME Queued, core # <<>>
    PROVE  /\ Tail(core) \in Seq(Callbacks) /\ Head(core) \in Callbacks
           /\ ToSet(core) = ToSet(Tail(core)) \union {Head(core)}
           /\ \A A : Total(fetcher, core, away, A)
                       = Total(fetcher, Tail(core), away, A) + Weight(Head(core).what, A)
<1>1. core \in Seq(Callbacks)
  BY DEF Queued
<1>2. /\ Tail(core) \in Seq(Callbacks) /\ Head(core) \in Callbacks
      /\ ToSet(core) = ToSet(Tail(core)) \union {Head(core)}
  BY <1>1, ToSetTail
<1>3. ASSUME NEW A
      PROVE  Total(fetcher, core, away, A)
               = Total(fetcher, Tail(core), away, A) + Weight(Head(core).what, A)
  <2>1. Among(core, Answers(A)) = Among(Tail(core), Answers(A)) + Weight(Head(core), Answers(A))
    BY <1>1, AmongTail
  <2>2. Weight(Head(core), Answers(A)) = Weight(Head(core).what, A)
    BY <1>2, CallbackType DEF Weight
  <2>3. /\ Among(fetcher, A) \in Nat /\ Among(Tail(core), Answers(A)) \in Nat
        /\ Cardinality(CopiesOf(away, A)) \in Nat
    BY <1>2, TotalType DEF Queued
  <2>4. Weight(Head(core).what, A) \in Nat
    BY DEF Weight
  <2> QED  BY <2>1, <2>2, <2>3, <2>4 DEF Total
<1> QED  BY <1>2, <1>3

\* What a callback leaves: one task, one answer to wait for, a logout, or nothing.
Adds(x, rest) ==
    \/ /\ x \in Tasks
       /\ fetcher' = Append(fetcher, x) /\ core' = rest /\ away' = away
    \/ /\ x \in Others
       /\ away' = away (+) One(x) /\ core' = rest /\ fetcher' = fetcher
    \/ /\ x = Logout
       /\ core' = Append(rest, Answer(Logout, "ok")) /\ fetcher' = fetcher /\ away' = away
AddsNothing(rest) == core' = rest /\ fetcher' = fetcher /\ away' = away

\* A callback that leaves one thing behind: the numbers of those counted grow by it.
LEMMA Added ==
    ASSUME Queued, NEW x, NEW rest \in Seq(Callbacks), Adds(x, rest)
    PROVE  /\ Queued' /\ x \in Things
           /\ \A A : /\ Total(fetcher', core', away', A)
                          = Total(fetcher, rest, away, A) + Weight(x, A)
                     /\ Total(fetcher, rest, away, A) \in Nat
<1>q. /\ fetcher \in Seq(Tasks) /\ IsABag(away) /\ BagToSet(away) \subseteq Others
      /\ IsFiniteSet(BagToSet(away)) /\ IsFiniteSet(CopiesOf(away, Others))
  BY DEF Queued
<1>n. ASSUME NEW A
      PROVE  /\ IsFiniteSet(CopiesOf(away, A)) /\ Among(fetcher, A) \in Nat
             /\ Among(rest, Answers(A)) \in Nat /\ Cardinality(CopiesOf(away, A)) \in Nat
             /\ Total(fetcher, rest, away, A) \in Nat /\ Weight(x, A) \in Nat
  BY <1>q, TotalType DEF Weight
<1>1. CASE x \in Tasks /\ fetcher' = Append(fetcher, x) /\ core' = rest /\ away' = away
  <2>1. fetcher' \in Seq(Tasks)
    BY <1>q, <1>1, AppendProperties
  <2>2. ASSUME NEW A
        PROVE  Total(fetcher', core', away', A) = Total(fetcher, rest, away, A) + Weight(x, A)
    <3>1. Among(fetcher', A) = Among(fetcher, A) + Weight(x, A)
      BY <1>q, <1>1, AmongAppend
    <3>2. Total(fetcher', core', away', A)
            = Among(fetcher', A) + Among(rest, Answers(A)) + Cardinality(CopiesOf(away, A))
      BY <1>1 DEF Total
    <3> QED  BY <1>n, <3>1, <3>2 DEF Total
  <2>3. Queued'
    BY <1>q, <1>1, <2>1 DEF Queued
  <2> QED  BY <1>n, <1>1, <2>2, <2>3 DEF Things
<1>2. CASE x \in Others /\ away' = away (+) One(x) /\ core' = rest /\ fetcher' = fetcher
  <2>1. PICK b : b = OneMore(away, x)
    OBVIOUS
  <2>z. away' = b
    BY <1>2, <2>1 DEF OneMore
  <2>2. /\ IsABag(b) /\ DOMAIN b \subseteq DOMAIN away \union {x} /\ IsFiniteSet(CopiesOf(b, Others))
    BY <1>q, <2>1, BagGrows
  <2>3. IsFiniteSet(DOMAIN b)
    BY <1>q, <2>2, FS_AddElement, FS_Subset DEF BagToSet
  <2>4. Queued'
    BY <1>q, <1>2, <2>z, <2>2, <2>3 DEF Queued, BagToSet
  <2>5. ASSUME NEW A
        PROVE  Total(fetcher', core', away', A) = Total(fetcher, rest, away, A) + Weight(x, A)
    <3>1. /\ IsFiniteSet(CopiesOf(b, A))
          /\ Cardinality(CopiesOf(b, A)) = Cardinality(CopiesOf(away, A)) + Weight(x, A)
      <4>1. IsFiniteSet(CopiesOf(away, A)) /\ IsABag(away)
        BY <1>n, <1>q
      <4> QED  BY <2>1, <4>1, BagGrows
    <3>2. Total(fetcher', core', away', A)
            = Among(fetcher, A) + Among(rest, Answers(A)) + Cardinality(CopiesOf(b, A))
      BY <1>2, <2>z DEF Total
    <3> QED  BY <1>n, <3>1, <3>2 DEF Total
  <2> QED  BY <1>n, <1>2, <2>4, <2>5 DEF Things
<1>3. CASE /\ x = Logout
           /\ core' = Append(rest, Answer(Logout, "ok")) /\ fetcher' = fetcher /\ away' = away
  <2>1. PICK c : c = Answer(Logout, "ok")
    OBVIOUS
  <2>2. c \in Callbacks /\ c.what = Logout /\ Logout \in Things
    <3>1. Logout \in Things
      BY ThingTypes DEF Things
    <3>2. "ok" \in Outcomes(Logout)
      BY DEF Outcomes, Logout
    <3> QED  BY <2>1, <3>1, <3>2, AnswerType
  <2>3. Append(rest, c) \in Seq(Callbacks)
    BY <2>2, AppendProperties
  <2>4. Queued'
    BY <1>q, <1>3, <2>1, <2>3 DEF Queued
  <2>5. ASSUME NEW A
        PROVE  Total(fetcher', core', away', A) = Total(fetcher, rest, away, A) + Weight(x, A)
    <3>1. Among(Append(rest, c), Answers(A)) = Among(rest, Answers(A)) + Weight(c, Answers(A))
      BY <2>2, AmongAppend
    <3>2. Weight(c, Answers(A)) = Weight(x, A)
      BY <1>3, <2>2, CallbackType DEF Weight
    <3>3. Total(fetcher', core', away', A)
            = Among(fetcher, A) + Among(Append(rest, c), Answers(A))
                + Cardinality(CopiesOf(away, A))
      BY <1>3, <2>1 DEF Total
    <3> QED  BY <1>n, <3>1, <3>2, <3>3 DEF Total
  <2> QED  BY <1>3, <1>n, <2>2, <2>4, <2>5
<1> QED  BY <1>1, <1>2, <1>3 DEF Adds

\* A callback that leaves nothing behind changes no number.
LEMMA AddedNothing ==
    ASSUME Queued, NEW rest \in Seq(Callbacks), AddsNothing(rest)
    PROVE  /\ Queued'
           /\ \A A : /\ Total(fetcher', core', away', A) = Total(fetcher, rest, away, A)
                     /\ Total(fetcher, rest, away, A) \in Nat
<1>1. Queued'
  BY DEF Queued, AddsNothing
<1>2. ASSUME NEW A PROVE Total(fetcher, rest, away, A) \in Nat
  BY TotalType DEF Queued
<1> QED  BY <1>1, <1>2 DEF AddsNothing

\* The fetch thread executes a task, or an answer arrives: nothing is gained or lost.
LEMMA Moved ==
    ASSUME Queued, Execute \/ \E x \in BagToSet(away) : Arrive(x)
    PROVE  /\ Queued'
           /\ \A A : Total(fetcher', core', away', A) = Total(fetcher, core, away, A)
<1>q. /\ fetcher \in Seq(Tasks) /\ core \in Seq(Callbacks)
      /\ IsABag(away) /\ BagToSet(away) \subseteq Others
      /\ IsFiniteSet(BagToSet(away)) /\ IsFiniteSet(CopiesOf(away, Others))
  BY DEF Queued
<1>n. ASSUME NEW A
      PROVE  /\ IsFiniteSet(CopiesOf(away, A)) /\ Among(fetcher, A) \in Nat
             /\ Among(core, Answers(A)) \in Nat /\ Cardinality(CopiesOf(away, A)) \in Nat
  BY <1>q, TotalType
<1>a. ASSUME NEW p \in Things, NEW how \in Outcomes(p), core' = Append(core, Answer(p, how))
      PROVE  /\ core' \in Seq(Callbacks)
             /\ \A A : Among(core', Answers(A)) = Among(core, Answers(A)) + Weight(p, A)
  <2>1. PICK c \in Callbacks : c = Answer(p, how) /\ c.what = p
    BY AnswerType
  <2>2. core' = Append(core, c)
    BY <1>a, <2>1
  <2>3. ASSUME NEW A
        PROVE  Among(core', Answers(A)) = Among(core, Answers(A)) + Weight(p, A)
    <3>1. Among(core', Answers(A)) = Among(core, Answers(A)) + Weight(c, Answers(A))
      BY <1>q, <2>2, AmongAppend
    <3>2. Weight(c, Answers(A)) = Weight(p, A)
      BY <2>1, CallbackType DEF Weight
    <3> QED  BY <3>1, <3>2
  <2> QED  BY <1>q, <2>2, <2>3, AppendProperties
<1>1. CASE Execute
  <2>1. fetcher # <<>> /\ fetcher' = Tail(fetcher) /\ away' = away
    BY <1>1 DEF Execute
  <2>2. Head(fetcher) \in Tasks /\ Tail(fetcher) \in Seq(Tasks)
    BY <1>q, <2>1, ToSetTail
  <2>3. PICK how \in Outcomes(Head(fetcher)) : core' = Append(core, Answer(Head(fetcher), how))
    BY <1>1 DEF Execute
  <2>4. /\ core' \in Seq(Callbacks)
        /\ \A A : Among(core', Answers(A)) = Among(core, Answers(A)) + Weight(Head(fetcher), A)
    BY <1>a, <2>2, <2>3 DEF Things
  <2>5. Queued'
    BY <1>q, <2>1, <2>2, <2>4 DEF Queued
  <2>6. ASSUME NEW A
        PROVE  Total(fetcher', core', away', A) = Total(fetcher, core, away, A)
    <3>1. Among(fetcher, A) = Among(fetcher', A) + Weight(Head(fetcher), A)
      BY <1>q, <2>1, AmongTail
    <3>2. Among(fetcher', A) \in Nat /\ Weight(Head(fetcher), A) \in Nat
      BY <2>1, <2>2, AmongType DEF Weight
    <3>3. Total(fetcher', core', away', A)
            = Among(fetcher', A) + Among(core', Answers(A)) + Cardinality(CopiesOf(away, A))
      BY <2>1 DEF Total
    <3> QED  BY <1>n, <2>4, <3>1, <3>2, <3>3 DEF Total
  <2> QED  BY <2>5, <2>6
<1>2. CASE \E x \in BagToSet(away) : Arrive(x)
  <2>1. PICK x \in BagToSet(away) : Arrive(x)
    BY <1>2
  <2>2. PICK b : b = OneLess(away, x)
    OBVIOUS
  <2>3. x \in Others /\ away' = b /\ fetcher' = fetcher
    BY <1>q, <2>1, <2>2 DEF Arrive, OneLess
  <2>4. PICK how \in Outcomes(x) : core' = Append(core, Answer(x, how))
    BY <2>1 DEF Arrive
  <2>5. /\ core' \in Seq(Callbacks)
        /\ \A A : Among(core', Answers(A)) = Among(core, Answers(A)) + Weight(x, A)
    BY <1>a, <2>3, <2>4 DEF Things
  <2>6. IsABag(b) /\ DOMAIN b \subseteq DOMAIN away /\ IsFiniteSet(CopiesOf(b, Others))
    BY <1>q, <2>1, <2>2, BagShrinks DEF BagToSet
  <2>7. IsFiniteSet(DOMAIN b)
    BY <1>q, <2>6, FS_Subset DEF BagToSet
  <2>8. Queued'
    BY <1>q, <2>3, <2>5, <2>6, <2>7 DEF Queued, BagToSet
  <2>9. ASSUME NEW A
        PROVE  Total(fetcher', core', away', A) = Total(fetcher, core, away, A)
    <3>1. /\ Cardinality(CopiesOf(away, A)) = Cardinality(CopiesOf(b, A)) + Weight(x, A)
          /\ IsFiniteSet(CopiesOf(b, A))
      BY <1>n, <1>q, <2>1, <2>2, BagShrinks DEF BagToSet
    <3>2. Cardinality(CopiesOf(b, A)) \in Nat /\ Weight(x, A) \in Nat
      BY <3>1, FS_CardinalityType DEF Weight
    <3>3. Total(fetcher', core', away', A)
            = Among(fetcher, A) + Among(core', Answers(A)) + Cardinality(CopiesOf(b, A))
      BY <2>3 DEF Total
    <3> QED  BY <1>n, <2>5, <3>1, <3>2, <3>3 DEF Total
  <2> QED  BY <2>8, <2>9
<1> QED  BY <1>1, <1>2

\* wim_send_thread drops a packet.
LEMMA Dropped ==
    ASSUME Queued, NEW x \in BagToSet(away), Drop(x)
    PROVE  /\ Queued' /\ x \in Things /\ x.kind \in {"oauth", "login", "end"}
           /\ \A A : Total(fetcher, core, away, A)
                       = Total(fetcher', core', away', A) + Weight(x, A)
<1>q. /\ fetcher \in Seq(Tasks) /\ core \in Seq(Callbacks)
      /\ IsABag(away) /\ BagToSet(away) \subseteq Others
      /\ IsFiniteSet(BagToSet(away)) /\ IsFiniteSet(CopiesOf(away, Others))
  BY DEF Queued
<1>n. ASSUME NEW A
      PROVE  /\ IsFiniteSet(CopiesOf(away, A)) /\ Among(fetcher, A) \in Nat
             /\ Among(core, Answers(A)) \in Nat /\ Cardinality(CopiesOf(away, A)) \in Nat
  BY <1>q, TotalType
<1>1. PICK b : b = OneLess(away, x)
  OBVIOUS
<1>2. /\ x \in Others /\ x.kind \in {"oauth", "login", "end"}
      /\ away' = b /\ fetcher' = fetcher /\ core' = core
  BY <1>q, <1>1 DEF Drop, OneLess
<1>3. IsABag(b) /\ DOMAIN b \subseteq DOMAIN away /\ IsFiniteSet(CopiesOf(b, Others))
  BY <1>q, <1>1, BagShrinks DEF BagToSet
<1>4. IsFiniteSet(DOMAIN b)
  BY <1>q, <1>3, FS_Subset DEF BagToSet
<1>5. Queued'
  BY <1>q, <1>2, <1>3, <1>4 DEF Queued, BagToSet
<1>6. ASSUME NEW A
      PROVE  Total(fetcher, core, away, A) = Total(fetcher', core', away', A) + Weight(x, A)
  <2>1. /\ Cardinality(CopiesOf(away, A)) = Cardinality(CopiesOf(b, A)) + Weight(x, A)
        /\ IsFiniteSet(CopiesOf(b, A))
    <3>1. IsFiniteSet(CopiesOf(away, A)) /\ IsABag(away)
      BY <1>n, <1>q
    <3> QED  BY <1>1, <3>1, BagShrinks DEF BagToSet
  <2>2. Cardinality(CopiesOf(b, A)) \in Nat /\ Weight(x, A) \in Nat
    BY <2>1, FS_CardinalityType DEF Weight
  <2>3. Total(fetcher', core', away', A)
          = Among(fetcher, A) + Among(core, Answers(A)) + Cardinality(CopiesOf(b, A))
    BY <1>2 DEF Total
  <2> QED  BY <1>n, <2>1, <2>2, <2>3 DEF Total
<1> QED  BY <1>2, <1>5, <1>6 DEF Things

\* The values of a function on a finite set are finitely many.
LEMMA ValuesFinite ==
    ASSUME NEW f, IsFiniteSet(DOMAIN f), NEW T, T = {f[x] : x \in DOMAIN f}
    PROVE  IsFiniteSet(T)
<1>1. PICK g : g = [x \in DOMAIN f |-> f[x]]
  OBVIOUS
<1>2. g \in Surjection(DOMAIN f, T)
  BY <1>1 DEF Surjection
<1> QED  BY <1>2, FS_Surjection

\* A new session has an id that nothing in progress holds.
LEMMA NewSessionType ==
    ASSUME Queued, session \in Sessions
    PROVE  NewSession \in Sessions /\ NewSession \notin Used
<1>q. /\ fetcher \in Seq(Tasks) /\ core \in Seq(Callbacks) /\ IsFiniteSet(BagToSet(away))
  BY DEF Queued
<1>1. IsFiniteSet(ToSet(fetcher))
  <2>1. DOMAIN fetcher = 1..Len(fetcher) /\ Len(fetcher) \in Nat
    BY <1>q, LenProperties
  <2>2. IsFiniteSet(DOMAIN fetcher)
    BY <2>1, FS_Interval
  <2> QED  BY <2>2, ValuesFinite DEF ToSet
<1>2. IsFiniteSet({core[i].what : i \in DOMAIN core})
  <2>1. DOMAIN core = 1..Len(core) /\ Len(core) \in Nat
    BY <1>q, LenProperties
  <2>2. IsFiniteSet(DOMAIN core)
    BY <2>1, FS_Interval
  <2>3. PICK g : g = [i \in DOMAIN core |-> core[i].what]
    OBVIOUS
  <2>4. /\ DOMAIN g = DOMAIN core
        /\ {core[i].what : i \in DOMAIN core} = {g[i] : i \in DOMAIN g}
    BY <2>3
  <2> QED  BY <2>2, <2>4, ValuesFinite
<1>3. IsFiniteSet(Pending)
  BY <1>1, <1>2, <1>q, FS_Union DEF Pending
<1>4. PICK P : P = {q \in Pending : q.kind \in {"fetch", "events"}}
  OBVIOUS
<1>5. IsFiniteSet(P)
  BY <1>3, <1>4, FS_Subset
<1>6. IsFiniteSet({p.session : p \in P})
  <2>1. PICK g : g = [p \in P |-> p.session]
    OBVIOUS
  <2>2. DOMAIN g = P /\ {p.session : p \in P} = {g[p] : p \in DOMAIN g}
    BY <2>1
  <2> QED  BY <1>5, <2>2, ValuesFinite
<1>7. IsFiniteSet(Used)
  BY <1>4, <1>6, FS_Union, FS_Singleton DEF Used
<1>8. PICK n \in Nat : n = Cardinality(Used)
  BY <1>7, FS_CardinalityType
<1>9. PICK free : free = (1..(n + 1)) \ Used
  OBVIOUS
<1>10. free # {}
  <2> SUFFICES ASSUME (1..(n + 1)) \subseteq Used PROVE FALSE
    BY <1>9
  <2>1. Cardinality(1..(n + 1)) <= n
    BY <1>7, <1>8, FS_Subset
  <2>2. Cardinality(1..(n + 1)) = n + 1
    BY <1>8, FS_Interval
  <2> QED  BY <1>8, <2>1, <2>2
<1>11. Min(free) \in free
  BY <1>8, <1>9, <1>10, MinPosition, n + 1 \in Nat, free \in SUBSET (1..(n + 1))
<1>12. NewSession = Min(free)
  BY <1>8, <1>9 DEF NewSession
<1> QED  BY <1>8, <1>9, <1>11, <1>12 DEF Sessions

-----------------------------------------------------------------------------
(* The session and its loop. *)

\* What a step starts with when the callback that runs is gone, or none runs.
Left(rest) ==
    /\ rest \in Seq(Callbacks) /\ ToSet(rest) \subseteq ToSet(core)
    /\ core' = rest

\* A start leaves itself behind, and nothing else of its session unless it says so.
LEMMA Started ==
    ASSUME SessionInv, Flags', UNCHANGED <<alive, dropped>>, alive = TRUE,
           NEW ping \in BOOLEAN, NEW login \in BOOLEAN,
           NEW rest, Left(rest), StartNow(ping, login, rest),
           Total(fetcher, rest, away, Starts) = 0
    PROVE  SessionInv'
<1>q. /\ Queued /\ session \in Sessions /\ rest \in Seq(Callbacks)
      /\ running \in BOOLEAN /\ overtaken \in BOOLEAN
  BY DEF SessionInv, Control, Left
<1>1. PICK x \in Tasks : x = Start(ping, login)
  BY ThingTypes
<1>2. Adds(x, rest)
  BY <1>1 DEF Adds, StartNow, Left
<1>3. x \in Things /\ x.kind = "start"
  BY <1>1 DEF Things, Start
<1>4. /\ Queued'
      /\ \A A : /\ Total(fetcher', core', away', A)
                     = Total(fetcher, rest, away, A) + Weight(x, A)
                /\ Total(fetcher, rest, away, A) \in Nat
  BY <1>q, <1>2, Added
<1>5. running' = TRUE /\ session' = IF ping THEN session ELSE NewSession
  BY DEF StartNow
<1>6. overtaken' = (overtaken \/ Survivor(ping, rest))
  BY DEF StartNow
<1>7. session' \in Sessions /\ (~ping => session' \notin Used)
  BY <1>q, <1>5, NewSessionType
<1>8. overtaken' \in BOOLEAN
  BY <1>q, <1>6 DEF Survivor
<1>9. Total(fetcher', core', away', Starts) = 1
  <2>1. Weight(x, Starts) = 1
    BY <1>3, ThingWeights DEF Flag
  <2> QED  BY <1>4, <2>1
<1>10. Total(fetcher', core', away', Continuing(session')) # 0
  <2>1. PICK s : s = session'
    OBVIOUS
  <2>2. Weight(x, Continuing(s)) = 1
    BY <1>3, ThingWeights DEF Flag
  <2>3. Total(fetcher', core', away', Continuing(s)) # 0
    BY <1>4, <2>2
  <2> QED  BY <2>1, <2>3
<1>11. ASSUME overtaken' = FALSE
       PROVE  Total(fetcher', core', away', Looping(session')) <= 1
  <2>1. PICK s : s = session'
    OBVIOUS
  <2>2. Weight(x, Looping(s)) = 1
    BY <1>3, ThingWeights DEF Flag
  <2>3. ~Survivor(ping, rest)
    BY <1>6, <1>11 DEF Survivor
  <2>4. /\ \A i \in DOMAIN fetcher : fetcher[i] \notin Starts
        /\ \A i \in DOMAIN rest : rest[i].what \notin Starts
        /\ \A p \in BagToSet(away) : p \notin Starts
    BY <1>q, TotalType DEF Queued
  <2>5. ASSUME NEW p, \/ p \in ToSet(fetcher) \/ p \in BagToSet(away)
                      \/ p \in {rest[i].what : i \in DOMAIN rest},
               p \notin Starts
        PROVE  p \notin Looping(s)
    <3>1. ~Polls(p) /\ ~(ping /\ Live(p))
      BY <2>3, <2>5 DEF Survivor
    <3>2. p \in Pending
      BY <2>5 DEF Pending, Left, ToSet
    <3>3. ASSUME p.kind \in {"fetch", "events"} PROVE p.session # s
      <4>1. p.session \in Used
        BY <3>2, <3>3 DEF Used
      <4>2. CASE ping = TRUE
        BY <1>5, <2>1, <3>1, <3>3, <4>2 DEF Live
      <4>3. CASE ping = FALSE
        BY <1>7, <2>1, <4>1, <4>3
      <4> QED  BY <4>2, <4>3
    <3> QED  BY <2>5, <3>1, <3>3 DEF Looping, Starts, Polls
  <2>6. /\ \A i \in DOMAIN fetcher : fetcher[i] \notin Looping(s)
        /\ \A i \in DOMAIN rest : rest[i].what \notin Looping(s)
        /\ \A p \in BagToSet(away) : p \notin Looping(s)
    BY <2>4, <2>5 DEF ToSet
  <2>7. Total(fetcher, rest, away, Looping(s)) = 0
    BY <1>q, <2>6, TotalType DEF Queued
  <2>8. Total(fetcher', core', away', Looping(s)) = 1
    BY <1>4, <2>2, <2>7
  <2> QED  BY <2>1, <2>8
<1>12. Control'
  BY <1>5, <1>7, <1>8 DEF Control
<1>13. Total(fetcher', core', away', Starts) = Flag(running')
  BY <1>5, <1>9 DEF Flag
<1> QED  BY <1>4, <1>8, <1>10, <1>11, <1>12, <1>13 DEF SessionInv

\* A step that changes no more than what waits.
LEMMA Kept ==
    ASSUME SessionInv, Flags', Queued',
           UNCHANGED <<alive, running, session, overtaken, dropped>>,
           Total(fetcher', core', away', Starts) = Total(fetcher, core, away, Starts),
           alive => \/ Total(fetcher', core', away', Continuing(session)) # 0
                    \/ Total(fetcher, core, away, Continuing(session)) = 0,
           Total(fetcher', core', away', Looping(session))
             <= Total(fetcher, core, away, Looping(session))
    PROVE  SessionInv'
<1>q. /\ Control /\ (alive \/ ~running) /\ alive \in BOOLEAN /\ dropped \in BOOLEAN
      /\ overtaken \in BOOLEAN /\ running \in BOOLEAN
      /\ Total(fetcher, core, away, Starts) = Flag(running)
  BY DEF SessionInv, Control, Flags
<1>1. Control'
  BY <1>q DEF Control
<1>2. Total(fetcher', core', away', Starts) = Flag(running')
  BY <1>q
<1>3. ASSUME alive' = TRUE, dropped' = FALSE
      PROVE  Total(fetcher', core', away', Continuing(session')) # 0
  <2>1. Total(fetcher, core, away, Continuing(session)) # 0
    BY <1>3 DEF SessionInv
  <2> QED  BY <1>3, <2>1
<1>4. ASSUME overtaken' = FALSE
      PROVE  Total(fetcher', core', away', Looping(session')) <= 1
  <2>1. /\ Total(fetcher, core, away, Looping(session)) \in Nat
        /\ Total(fetcher', core', away', Looping(session)) \in Nat
    <3>1. PICK A : A = Looping(session)
      OBVIOUS
    <3>2. Total(fetcher, core, away, A) \in Nat
      BY TotalType DEF SessionInv, Queued
    <3>3. Total(fetcher', core', away', A) \in Nat
      BY TotalType DEF Queued
    <3> QED  BY <3>1, <3>2, <3>3
  <2>2. Total(fetcher, core, away, Looping(session)) <= 1
    BY <1>4 DEF SessionInv
  <2>3. Total(fetcher', core', away', Looping(session)) <= 1
    BY <2>1, <2>2
  <2> QED  BY <2>3
<1>5. alive' \in BOOLEAN /\ dropped' \in BOOLEAN /\ overtaken' \in BOOLEAN
  BY <1>q
<1>6. alive' \/ ~running'
  BY <1>q
<1> QED  BY <1>1, <1>2, <1>3, <1>4, <1>5, <1>6 DEF SessionInv

\* A step of the core thread that is left with a start if one was running.
RestOf(rest) ==
    /\ Left(rest)
    /\ Total(fetcher, rest, away, Starts) = Total(fetcher, core, away, Starts)
    /\ Total(fetcher, rest, away, Looping(session))
         <= Total(fetcher, core, away, Looping(session))

\* start_session(): only one start at a time, and that one continues the loop.
LEMMA StartsOnce ==
    ASSUME SessionInv, Flags', UNCHANGED <<alive, dropped>>, alive = TRUE,
           NEW ping \in BOOLEAN, NEW login \in BOOLEAN,
           NEW rest, RestOf(rest), StartSession(ping, login, rest)
    PROVE  SessionInv'
<1>q. /\ Queued /\ running \in BOOLEAN /\ rest \in Seq(Callbacks)
      /\ Total(fetcher, core, away, Starts) = Flag(running)
  BY DEF SessionInv, Control, RestOf, Left
<1>1. CASE running = TRUE
  <2>1. AddsNothing(rest) /\ UNCHANGED <<running, session, overtaken>>
    BY <1>1 DEF StartSession, AddsNothing, RestOf, Left
  <2>2. /\ Queued'
        /\ \A A : /\ Total(fetcher', core', away', A) = Total(fetcher, rest, away, A)
                  /\ Total(fetcher, rest, away, A) \in Nat
    BY <1>q, <2>1, AddedNothing
  <2>3. Total(fetcher, rest, away, Starts) # 0
    BY <1>q, <1>1 DEF RestOf, Flag
  <2>4. PICK C : C = Continuing(session)
    OBVIOUS
  <2>5. Starts \subseteq C
    BY <2>4 DEF Starts, Continuing, Looping
  <2>6. Total(fetcher, rest, away, C) # 0
    <3>q. /\ fetcher \in Seq(Tasks) /\ IsABag(away) /\ BagToSet(away) \subseteq Others
          /\ IsFiniteSet(CopiesOf(away, Others))
      BY <1>q DEF Queued
    <3>z. \A A : Total(fetcher, rest, away, A) = 0
                  <=> /\ \A i \in DOMAIN fetcher : fetcher[i] \notin A
                      /\ \A i \in DOMAIN rest : rest[i].what \notin A
                      /\ \A p \in BagToSet(away) : p \notin A
      <4> SUFFICES ASSUME NEW A
                   PROVE  Total(fetcher, rest, away, A) = 0
                            <=> /\ \A i \in DOMAIN fetcher : fetcher[i] \notin A
                                /\ \A i \in DOMAIN rest : rest[i].what \notin A
                                /\ \A p \in BagToSet(away) : p \notin A
        OBVIOUS
      <4>1. rest \in Seq(Callbacks)
        BY <1>q
      <4> QED  BY <3>q, <4>1, TotalType
    <3>1. \/ \E i \in DOMAIN fetcher : fetcher[i] \in Starts
          \/ \E i \in DOMAIN rest : rest[i].what \in Starts
          \/ \E p \in BagToSet(away) : p \in Starts
      BY ONLY <2>3, <3>z
    <3>2. \/ \E i \in DOMAIN fetcher : fetcher[i] \in C
          \/ \E i \in DOMAIN rest : rest[i].what \in C
          \/ \E p \in BagToSet(away) : p \in C
      BY ONLY <2>5, <3>1
    <3> QED  BY ONLY <3>2, <3>z
  <2>7. /\ Total(fetcher', core', away', Starts) = Total(fetcher, core, away, Starts)
        /\ Total(fetcher', core', away', Looping(session))
             <= Total(fetcher, core, away, Looping(session))
        /\ Total(fetcher', core', away', C) # 0
    BY <2>2, <2>6 DEF RestOf
  <2> QED  BY <2>1, <2>2, <2>4, <2>7, Kept
<1>2. CASE running = FALSE
  <2>1. StartNow(ping, login, rest)
    BY <1>2 DEF StartSession
  <2>2. Total(fetcher, rest, away, Starts) = 0 /\ Left(rest)
    BY <1>q, <1>2 DEF RestOf, Flag
  <2> QED  BY <2>1, <2>2, Started
<1> QED  BY <1>q, <1>1, <1>2

\* A step that leaves one more thing behind, which continues the loop.
LEMMA Continued ==
    ASSUME SessionInv, Flags', UNCHANGED <<alive, running, session, overtaken, dropped>>,
           NEW rest \in Seq(Callbacks), NEW x, Adds(x, rest), x.kind # "start",
           Total(fetcher, rest, away, Starts) = Total(fetcher, core, away, Starts),
           Weight(x, Continuing(session)) = 1,
           Total(fetcher, rest, away, Looping(session)) + Weight(x, Looping(session))
             <= Total(fetcher, core, away, Looping(session))
    PROVE  SessionInv'
<1>q. Queued
  BY DEF SessionInv
<1>1. /\ Queued' /\ x \in Things
      /\ \A A : /\ Total(fetcher', core', away', A)
                     = Total(fetcher, rest, away, A) + Weight(x, A)
                /\ Total(fetcher, rest, away, A) \in Nat
  BY <1>q, Added
<1>2. Weight(x, Starts) = 0
  BY <1>1, ThingWeights DEF Flag
<1>3. Total(fetcher', core', away', Starts) = Total(fetcher, core, away, Starts)
  BY <1>1, <1>2
<1>4. Total(fetcher', core', away', Continuing(session)) # 0
  BY <1>1
<1>5. Total(fetcher', core', away', Looping(session))
        <= Total(fetcher, core, away, Looping(session))
  BY <1>1
<1> QED  BY <1>1, <1>3, <1>4, <1>5, Kept

\* start_session_internal(): a token or a start.
LEMMA StartedInternal ==
    ASSUME SessionInv, Flags', UNCHANGED <<alive, dropped>>, alive = TRUE,
           NEW ping \in BOOLEAN, NEW login \in BOOLEAN,
           NEW rest, RestOf(rest), StartInternal(ping, login, rest)
    PROVE  SessionInv'
<1>1. CASE StartSession(ping, login, rest)
  BY <1>1, StartsOnce
<1>2. CASE away' = away (+) One(OAuth(ping, login)) /\ UNCHANGED <<running, session, fetcher,
                                                                   overtaken>>
  <2>1. PICK x \in Others : x = OAuth(ping, login)
    BY ThingTypes
  <2>2. x \in Things /\ x.kind = "oauth"
    BY <2>1 DEF Things, OAuth
  <2>3. rest \in Seq(Callbacks) /\ Adds(x, rest)
    BY <1>2, <2>1 DEF RestOf, Left, Adds
  <2>4. PICK s : s = session
    OBVIOUS
  <2>5. Weight(x, Continuing(s)) = 1 /\ Weight(x, Looping(s)) = 0
    BY <2>2, ThingWeights DEF Flag
  <2>6. Total(fetcher, rest, away, Looping(s)) \in Nat
    BY TotalType DEF SessionInv, Queued, RestOf, Left
  <2>7. /\ Total(fetcher, rest, away, Starts) = Total(fetcher, core, away, Starts)
        /\ Total(fetcher, rest, away, Looping(s)) + Weight(x, Looping(s))
             <= Total(fetcher, core, away, Looping(s))
    BY <2>4, <2>5, <2>6 DEF RestOf
  <2> QED  BY <1>2, <2>2, <2>3, <2>4, <2>5, <2>7, Continued
<1> QED  BY <1>1, <1>2 DEF StartInternal

\* poll(): what ran was of the loop, what is left is.
LEMMA Polled ==
    ASSUME SessionInv, Flags', UNCHANGED <<alive, dropped>>, alive = TRUE,
           NEW valid, NEW first \in BOOLEAN, NEW errors \in 0..(MaxNetErrors + 1),
           NEW rest, Left(rest), Poll(valid, first, errors, rest),
           Total(fetcher, rest, away, Starts) = Total(fetcher, core, away, Starts),
           Total(fetcher, rest, away, Looping(session)) + 1
             = Total(fetcher, core, away, Looping(session))
    PROVE  SessionInv'
<1>1. CASE /\ fetcher' = Append(fetcher, Fetch(session, first, errors))
           /\ UNCHANGED <<running, session, away, overtaken>>
  <2>1. PICK s \in Sessions : s = session
    BY DEF SessionInv, Control
  <2>2. PICK x \in Tasks : x = Fetch(s, first, errors)
    BY ThingTypes
  <2>3. x \in Things /\ x.kind = "fetch" /\ x.session = s
    BY <2>2 DEF Things, Fetch
  <2>4. rest \in Seq(Callbacks) /\ Adds(x, rest)
    BY <1>1, <2>1, <2>2 DEF Left, Adds
  <2>5. Weight(x, Continuing(s)) = 1 /\ Weight(x, Looping(s)) = 1
    BY <2>3, ThingWeights DEF Flag
  <2>6. Total(fetcher, rest, away, Looping(s)) \in Nat
    BY TotalType DEF SessionInv, Queued, Left
  <2>7. Total(fetcher, rest, away, Looping(s)) + Weight(x, Looping(s))
          <= Total(fetcher, core, away, Looping(s))
    BY <2>1, <2>5, <2>6
  <2> QED  BY <1>1, <2>1, <2>3, <2>4, <2>5, <2>7, Continued
<1>2. CASE StartInternal(FALSE, FALSE, rest)
  <2>1. Total(fetcher, rest, away, Looping(session)) \in Nat
    <3>1. PICK A : A = Looping(session)
      OBVIOUS
    <3>2. Total(fetcher, rest, away, A) \in Nat
      BY TotalType DEF SessionInv, Queued, Left
    <3> QED  BY <3>1, <3>2
  <2>2. RestOf(rest)
    BY <2>1 DEF RestOf
  <2> QED  BY <1>2, <2>2, StartedInternal
<1> QED  BY <1>1, <1>2 DEF Poll

\* A start is done, and leaves something that goes on.
LEMMA StartDone ==
    ASSUME SessionInv, Flags', UNCHANGED <<alive, session, overtaken, dropped>>,
           running' = FALSE, NEW rest \in Seq(Callbacks), NEW x, Adds(x, rest),
           x.kind # "start", Weight(x, Continuing(session)) = 1,
           Total(fetcher, core, away, Starts) = Total(fetcher, rest, away, Starts) + 1,
           Total(fetcher, core, away, Looping(session))
             = Total(fetcher, rest, away, Looping(session)) + 1
    PROVE  SessionInv'
<1>q. /\ Queued /\ Control /\ running \in BOOLEAN
      /\ alive \in BOOLEAN /\ dropped \in BOOLEAN /\ overtaken \in BOOLEAN
      /\ Total(fetcher, core, away, Starts) = Flag(running)
  BY DEF SessionInv, Control, Flags
<1>1. /\ Queued' /\ x \in Things
      /\ \A A : /\ Total(fetcher', core', away', A)
                     = Total(fetcher, rest, away, A) + Weight(x, A)
                /\ Total(fetcher, rest, away, A) \in Nat
  BY <1>q, Added
<1>2. Total(fetcher', core', away', Starts) = Flag(running')
  <2>1. Weight(x, Starts) = 0
    BY <1>1, ThingWeights DEF Flag
  <2>2. Total(fetcher, rest, away, Starts) = 0
    BY <1>q, <1>1 DEF Flag
  <2> QED  BY <1>1, <2>1, <2>2 DEF Flag
<1>3. Total(fetcher', core', away', Continuing(session')) # 0
  BY <1>1
<1>4. ASSUME overtaken' = FALSE
      PROVE  Total(fetcher', core', away', Looping(session')) <= 1
  <2>1. PICK L : L = Looping(session)
    OBVIOUS
  <2>2. Total(fetcher, core, away, L) <= 1
    BY <1>4, <2>1 DEF SessionInv
  <2>3. Total(fetcher, core, away, L) = Total(fetcher, rest, away, L) + 1
    BY <2>1
  <2>4. Weight(x, L) \in {0, 1} /\ Total(fetcher, rest, away, L) \in Nat
        /\ Total(fetcher', core', away', L) = Total(fetcher, rest, away, L) + Weight(x, L)
    BY <1>1 DEF Weight
  <2>5. Total(fetcher', core', away', L) <= 1
    BY <2>2, <2>3, <2>4
  <2> QED  BY <2>1, <2>5
<1>5. Control'
  BY <1>q DEF Control
<1>6. alive' \in BOOLEAN /\ dropped' \in BOOLEAN /\ overtaken' \in BOOLEAN
  BY <1>q
<1> QED  BY <1>1, <1>2, <1>3, <1>4, <1>5, <1>6 DEF SessionInv

\* What the callback that runs carried, and weighed.
LEMMA HeadWeighs ==
    ASSUME SessionInv, core # <<>>,
           NEW rest, rest = Tail(core), NEW h, h = Head(core).what, NEW s, s = session
    PROVE  /\ Queued /\ rest \in Seq(Callbacks) /\ ToSet(rest) \subseteq ToSet(core)
           /\ h \in Things /\ Head(core).how \in Outcomes(h) /\ s \in Sessions
           /\ \A A : /\ Total(fetcher, rest, away, A) \in Nat
                     /\ Total(fetcher, core, away, A)
                          = Total(fetcher, rest, away, A) + Weight(h, A)
<1>1. Queued /\ s \in Sessions
  BY DEF SessionInv, Control
<1>2. /\ rest \in Seq(Callbacks) /\ Head(core) \in Callbacks /\ ToSet(rest) \subseteq ToSet(core)
      /\ \A A : Total(fetcher, core, away, A) = Total(fetcher, rest, away, A) + Weight(h, A)
  BY <1>1, HeadGone
<1>3. h \in Things /\ Head(core).how \in Outcomes(h)
  BY <1>2, CallbackType
<1>4. \A A : Total(fetcher, rest, away, A) \in Nat
  BY <1>1, <1>2, TotalType DEF Queued
<1> QED  BY <1>1, <1>2, <1>3, <1>4

\* The callbacks of a fetch.
LEMMA FetchStep ==
    ASSUME SessionInv, Flags', OnFetch \/ OnEnd
    PROVE  SessionInv'
<1>0. /\ core # <<>> /\ alive = TRUE /\ UNCHANGED <<alive, dropped>>
      /\ Head1.what.kind \in {"fetch", "events"}
  <2>1. alive \in BOOLEAN
    BY DEF SessionInv, Flags
  <2>2. CASE OnFetch
    BY <2>1, <2>2 DEF OnFetch, OnFetchOk, OnStaleFetch, OnNetworkError, OnNetworkErrors,
                      OnResend, OnFetchError, OnFetchFails, Callback
  <2>3. CASE OnEnd
    BY <2>1, <2>3 DEF OnEnd, OnSessionEnded, OnEventsDone, OnEvents, Callback
  <2> QED  BY <2>2, <2>3
<1>p. PICK rest, h, s : rest = Tail(core) /\ h = Head(core).what /\ s = session
  OBVIOUS
<1>1. /\ rest \in Seq(Callbacks) /\ ToSet(rest) \subseteq ToSet(core)
      /\ h \in Things /\ Head(core).how \in Outcomes(h) /\ s \in Sessions
      /\ h.kind \in {"fetch", "events"}
      /\ \A A : Total(fetcher, rest, away, A) \in Nat
  BY <1>0, <1>p, HeadWeighs DEF Head1
<1>2. /\ Total(fetcher, core, away, Starts) = Total(fetcher, rest, away, Starts)
      /\ Total(fetcher, core, away, Looping(s))
           = Total(fetcher, rest, away, Looping(s)) + Flag(h.session = s)
      /\ Total(fetcher, core, away, Continuing(s))
           = Total(fetcher, rest, away, Continuing(s)) + Flag(h.session = s)
  <2>1. \A A : Total(fetcher, core, away, A) = Total(fetcher, rest, away, A) + Weight(h, A)
    BY <1>0, <1>p, HeadGone DEF SessionInv
  <2>2. /\ Weight(h, Starts) = 0
        /\ Weight(h, Looping(s)) = Flag(h.session = s)
        /\ Weight(h, Continuing(s)) = Flag(h.session = s)
    BY <1>1, ThingWeights DEF Flag
  <2>3. Total(fetcher, rest, away, Starts) \in Nat
    BY <1>1
  <2> QED  BY <2>1, <2>2, <2>3
<1>k. /\ h.kind = "fetch" => /\ h.session \in Sessions /\ h.first \in BOOLEAN
                             /\ h.errors \in 0..(MaxNetErrors + 1)
      /\ h.kind = "events" => h.session \in Sessions /\ h.first \in BOOLEAN
  BY <1>1, ThingKinds DEF Things
<1>v. Live(h) <=> h.session = s
  BY <1>1, <1>p DEF Live
\* A fetch or its events that are the session's give way to poll().
<1>w. ASSUME Live(h), core' = rest
      PROVE  /\ Left(rest) /\ RestOf(rest)
             /\ Total(fetcher, rest, away, Starts) = Total(fetcher, core, away, Starts)
             /\ Total(fetcher, rest, away, Looping(session)) + 1
                  = Total(fetcher, core, away, Looping(session))
  <2>1. Left(rest)
    BY <1>1, <1>w DEF Left
  <2>2. Flag(h.session = s) = 1
    BY <1>v, <1>w DEF Flag
  <2>3. Total(fetcher, rest, away, Looping(s)) + 1 = Total(fetcher, core, away, Looping(s))
    BY <1>2, <2>2
  <2>4. Total(fetcher, rest, away, Looping(s)) <= Total(fetcher, core, away, Looping(s))
    BY <1>1, <2>3
  <2> QED  BY <1>2, <1>p, <2>1, <2>3, <2>4 DEF RestOf
\* One that is not leaves nothing.
<1>z. ASSUME ~Live(h), AddsNothing(rest), UNCHANGED <<running, session, overtaken>>
      PROVE  SessionInv'
  <2>1. Flag(h.session = s) = 0
    BY <1>v, <1>z DEF Flag
  <2>2. /\ Queued'
        /\ \A A : Total(fetcher', core', away', A) = Total(fetcher, rest, away, A)
    BY <1>1, <1>z, AddedNothing DEF SessionInv
  <2>3. /\ Total(fetcher', core', away', Starts) = Total(fetcher, core, away, Starts)
        /\ Total(fetcher', core', away', Looping(s)) = Total(fetcher, core, away, Looping(s))
        /\ Total(fetcher', core', away', Continuing(s))
             = Total(fetcher, core, away, Continuing(s))
    BY <1>1, <1>2, <2>1, <2>2
  <2>4. Total(fetcher, core, away, Looping(s)) \in Nat
    BY <1>1, <1>2, <2>1
  <2>5. Total(fetcher', core', away', Looping(s)) <= Total(fetcher, core, away, Looping(s))
    BY <2>3, <2>4
  <2> QED  BY <1>0, <1>p, <1>z, <2>2, <2>3, <2>5, Kept
<1>3. CASE OnFetchOk
  <2>1. /\ h.kind = "fetch" /\ core' = rest /\ fetcher' = fetcher
        /\ away' = away (+) One(Events(h.session, h.first, Head1.how = "ended"))
        /\ UNCHANGED <<running, session, overtaken>>
    BY <1>3, <1>p DEF OnFetchOk, Callback, Head1, Rest
  <2>2. PICK x \in Others : x = Events(h.session, h.first, Head1.how = "ended")
    BY <1>k, <2>1, ThingTypes
  <2>3. x \in Things /\ x.kind = "events" /\ x.session = h.session
    BY <2>2 DEF Things, Events
  <2>4. Adds(x, rest)
    BY <2>1, <2>2 DEF Adds
  <2>5. /\ Weight(x, Starts) = 0
        /\ Weight(x, Looping(s)) = Flag(h.session = s)
        /\ Weight(x, Continuing(s)) = Flag(h.session = s)
    BY <2>3, ThingWeights DEF Flag
  <2>6. /\ Queued'
        /\ \A A : Total(fetcher', core', away', A)
                    = Total(fetcher, rest, away, A) + Weight(x, A)
    BY <1>1, <2>4, Added DEF SessionInv
  <2>7. /\ Total(fetcher', core', away', Starts) = Total(fetcher, core, away, Starts)
        /\ Total(fetcher', core', away', Looping(s)) = Total(fetcher, core, away, Looping(s))
        /\ Total(fetcher', core', away', Continuing(s))
             = Total(fetcher, core, away, Continuing(s))
    BY <1>1, <1>2, <2>5, <2>6
  <2>8. Total(fetcher, core, away, Looping(s)) \in Nat
    BY <1>1, <1>2 DEF Flag
  <2>9. Total(fetcher', core', away', Looping(s)) <= Total(fetcher, core, away, Looping(s))
    BY <2>7, <2>8
  <2> QED  BY <1>0, <1>p, <2>1, <2>6, <2>7, <2>9, Kept
<1>4. CASE OnStaleFetch
  <2>1. ~Live(h) /\ AddsNothing(rest) /\ UNCHANGED <<running, session, overtaken>>
    BY <1>4, <1>p DEF OnStaleFetch, OnFetchFails, UnchangedLoop, AddsNothing, Head1, Rest
  <2> QED  BY <1>z, <2>1
<1>5. CASE OnNetworkError
  <2>1. /\ h.kind = "fetch" /\ Live(h) /\ core' = rest /\ h.errors <= MaxNetErrors
        /\ Poll(hasUrl, h.first, h.errors + 1, rest)
    BY <1>5, <1>p DEF OnNetworkError, OnFetchFails, Callback, Head1, Rest
  <2>2. h.first \in BOOLEAN /\ h.errors + 1 \in 0..(MaxNetErrors + 1)
    BY <1>k, <2>1, SessionAssumption
  <2> QED  BY <1>0, <1>w, <2>1, <2>2, Polled
<1>6. CASE OnNetworkErrors
  <2>1. /\ Live(h) /\ core' = rest
        /\ Poll(hasUrl, TRUE, 0, rest) \/ StartInternal(TRUE, FALSE, rest)
    BY <1>6, <1>p DEF OnNetworkErrors, OnFetchFails, Callback, Head1, Rest
  <2>2. 0 \in 0..(MaxNetErrors + 1)
    BY SessionAssumption
  <2>3. CASE Poll(hasUrl, TRUE, 0, rest)
    BY <1>0, <1>w, <2>1, <2>2, <2>3, Polled
  <2>4. CASE StartInternal(TRUE, FALSE, rest)
    BY <1>0, <1>w, <2>1, <2>4, StartedInternal
  <2> QED  BY <2>1, <2>3, <2>4
<1>7. CASE OnResend
  <2>1. /\ h.kind = "fetch" /\ Live(h) /\ core' = rest
        /\ Poll(hasUrl, h.first, h.errors, rest)
    BY <1>7, <1>p DEF OnResend, OnFetchFails, Callback, Head1, Rest
  <2> QED  BY <1>0, <1>k, <1>w, <2>1, Polled
<1>8. CASE OnFetchError
  <2>1. Live(h) /\ core' = rest /\ StartInternal(FALSE, FALSE, rest)
    BY <1>8, <1>p DEF OnFetchError, OnFetchFails, Callback, Head1, Rest
  <2> QED  BY <1>0, <1>w, <2>1, StartedInternal
<1>9. CASE OnSessionEnded
  <2>1. /\ core' = Append(rest, Answer(Logout, "ok"))
        /\ UNCHANGED <<running, session, fetcher, away, overtaken>>
    BY <1>9, <1>p DEF OnSessionEnded, Unlogin, UnchangedLoop, Rest
  <2>2. PICK x \in Things : x = Logout
    BY ThingTypes DEF Things
  <2>3. x.kind = "logout" /\ Adds(x, rest)
    BY <2>1, <2>2 DEF Adds, Logout
  <2>4. Weight(x, Continuing(s)) = 1 /\ Weight(x, Looping(s)) = 0
    BY <2>3, ThingWeights DEF Flag
  <2>5. Total(fetcher, rest, away, Looping(s)) + Weight(x, Looping(s))
          <= Total(fetcher, core, away, Looping(s))
    BY <1>1, <1>2, <2>4 DEF Flag
  <2> QED  BY <1>0, <1>1, <1>2, <1>p, <2>1, <2>3, <2>4, <2>5, Continued
<1>10. CASE OnEventsDone
  <2>1. /\ core' = rest
        /\ IF Live(h) THEN Poll(hasUrl', FALSE, 0, rest)
                      ELSE UNCHANGED <<running, session, fetcher, away, overtaken>>
    BY <1>10, <1>p DEF OnEventsDone, GoesAround, UnchangedLoop, Head1, Rest
  <2>2. CASE Live(h)
    <3>1. 0 \in 0..(MaxNetErrors + 1)
      BY SessionAssumption
    <3>2. PICK v : v = hasUrl'
      OBVIOUS
    <3>3. Poll(v, FALSE, 0, rest)
      BY <2>1, <2>2, <3>2
    <3> QED  BY <1>0, <1>w, <2>1, <2>2, <3>1, <3>3, Polled
  <2>3. CASE ~Live(h)
    <3>1. AddsNothing(rest) /\ UNCHANGED <<running, session, overtaken>>
      BY <2>1, <2>3 DEF AddsNothing
    <3> QED  BY <1>z, <2>3, <3>1
  <2> QED  BY <2>2, <2>3
<1> QED  BY <1>3, <1>4, <1>5, <1>6, <1>7, <1>8, <1>9, <1>10 DEF OnFetch, OnEnd

\* The callback of start_session().
LEMMA StartStep ==
    ASSUME SessionInv, Flags', OnStart
    PROVE  SessionInv'
<1>0. /\ core # <<>> /\ alive = TRUE /\ UNCHANGED <<alive, dropped>>
      /\ Head1.what.kind = "start"
  <2>1. alive \in BOOLEAN
    BY DEF SessionInv, Flags
  <2> QED  BY <2>1 DEF OnStart, OnPingOk, OnStartOk, OnStartRefused, OnStartError, OnStarted,
                       Callback
<1>p. PICK rest, h, s, how : /\ rest = Tail(core) /\ h = Head(core).what
                             /\ s = session /\ how = Head(core).how
  OBVIOUS
<1>1. /\ Queued /\ rest \in Seq(Callbacks) /\ ToSet(rest) \subseteq ToSet(core)
      /\ h \in Things /\ s \in Sessions /\ h.kind = "start"
      /\ \A A : /\ Total(fetcher, rest, away, A) \in Nat
                /\ Total(fetcher, core, away, A) = Total(fetcher, rest, away, A) + Weight(h, A)
  BY <1>0, <1>p, HeadWeighs DEF Head1
<1>k. h.ping \in BOOLEAN /\ h.login \in BOOLEAN
  BY <1>1, ThingKinds DEF Things
<1>2. /\ Total(fetcher, core, away, Starts) = Total(fetcher, rest, away, Starts) + 1
      /\ Total(fetcher, core, away, Looping(s)) = Total(fetcher, rest, away, Looping(s)) + 1
  <2>1. Weight(h, Starts) = 1 /\ Weight(h, Looping(s)) = 1
    BY <1>1, ThingWeights DEF Flag
  <2> QED  BY <1>1, <2>1
\* One that is over leaves what goes on.
<1>d. ASSUME NEW x \in Things, Adds(x, rest), running' = FALSE,
             UNCHANGED <<session, overtaken>>,
             \/ x.kind \in {"loads", "logout"}
             \/ x.kind = "fetch" /\ x.session = s
      PROVE  SessionInv'
  <2>1. x.kind # "start"
    BY <1>d
  <2>2. Weight(x, Continuing(s)) = 1
    BY <1>d, ThingWeights DEF Flag
  <2> QED  BY <1>0, <1>1, <1>2, <1>d, <1>p, <2>1, <2>2, StartDone
<1>3. CASE OnPingOk
  <2>1. /\ fetcher' = Append(fetcher, Fetch(session, TRUE, 0)) /\ core' = rest
        /\ away' = away /\ running' = FALSE /\ UNCHANGED <<session, overtaken>>
    BY <1>3, <1>p DEF OnPingOk, Rest
  <2>2. 0 \in 0..(MaxNetErrors + 1)
    BY SessionAssumption
  <2>3. PICK x \in Tasks : x = Fetch(s, TRUE, 0)
    BY <1>1, <2>2, ThingTypes
  <2>4. x \in Things /\ x.kind = "fetch" /\ x.session = s
    BY <2>3 DEF Things, Fetch
  <2>5. Adds(x, rest)
    BY <1>p, <2>1, <2>3 DEF Adds
  <2> QED  BY <1>d, <2>1, <2>4, <2>5
<1>4. CASE OnStartOk
  <2>1. /\ away' = away (+) One(Loads) /\ core' = rest
        /\ fetcher' = fetcher /\ running' = FALSE /\ UNCHANGED <<session, overtaken>>
    BY <1>4, <1>p DEF OnStartOk, Rest
  <2>2. PICK x \in Others : x = Loads
    BY ThingTypes
  <2>3. x \in Things /\ x.kind = "loads"
    BY <2>2 DEF Things, Loads
  <2>4. Adds(x, rest)
    BY <2>1, <2>2 DEF Adds
  <2> QED  BY <1>d, <2>1, <2>3, <2>4
<1>5. CASE OnStartRefused
  <2>1. /\ core' = Append(rest, Answer(Logout, "ok"))
        /\ away' = away /\ fetcher' = fetcher /\ running' = FALSE
        /\ UNCHANGED <<session, overtaken>>
    BY <1>5, <1>p DEF OnStartRefused, Unlogin, Rest
  <2>2. PICK x \in Others : x = Logout
    BY ThingTypes
  <2>3. x \in Things /\ x.kind = "logout"
    BY <2>2 DEF Things, Logout
  <2>4. Adds(x, rest)
    BY <2>1, <2>2 DEF Adds
  <2> QED  BY <1>d, <2>1, <2>3, <2>4
<1>6. CASE OnStartError
  <2>1. PICK ping \in BOOLEAN, login \in BOOLEAN :
            ping = (h.ping /\ how # "relogin") /\ login = h.login
    BY <1>k
  <2>2. core' = rest /\ StartNow(ping, login, rest)
    BY <1>6, <1>p, <2>1 DEF OnStartError, Head1, Rest
  <2>3. Left(rest)
    BY <1>1, <2>2 DEF Left
  <2>4. Total(fetcher, rest, away, Starts) = 0
    <3>1. /\ Total(fetcher, core, away, Starts) = Flag(running)
          /\ running \in BOOLEAN
      BY DEF SessionInv, Control
    <3>2. Total(fetcher, rest, away, Starts) \in Nat
      BY <1>1
    <3> QED  BY <1>2, <3>1, <3>2 DEF Flag
  <2> QED  BY <1>0, <2>2, <2>3, <2>4, Started
<1> QED  BY <1>3, <1>4, <1>5, <1>6 DEF OnStart

\* The other callbacks that start a session or the loop.
LEMMA OtherStep ==
    ASSUME SessionInv, Flags', OnOther
    PROVE  SessionInv'
<1>0. /\ core # <<>> /\ alive = TRUE /\ UNCHANGED <<alive, dropped>>
      /\ Head1.what.kind \in {"loads", "cached", "login", "oauth", "retry"}
  <2>1. alive \in BOOLEAN
    BY DEF SessionInv, Flags
  <2> QED  BY <2>1 DEF OnOther, OnLoaded, OnNotCached, OnLogin, OnOAuthOk, OnOAuthError, OnRetry,
                       OnOAuthRefused, Callback
<1>p. PICK rest, h, s : rest = Tail(core) /\ h = Head(core).what /\ s = session
  OBVIOUS
<1>1. /\ Queued /\ rest \in Seq(Callbacks) /\ ToSet(rest) \subseteq ToSet(core)
      /\ h \in Things /\ s \in Sessions
      /\ h.kind \in {"loads", "cached", "login", "oauth", "retry"}
      /\ \A A : /\ Total(fetcher, rest, away, A) \in Nat
                /\ Total(fetcher, core, away, A) = Total(fetcher, rest, away, A) + Weight(h, A)
  BY <1>0, <1>p, HeadWeighs DEF Head1
<1>k. h.kind \in {"oauth", "retry"} => h.ping \in BOOLEAN /\ h.login \in BOOLEAN
  BY <1>1, ThingKinds DEF Things
<1>2. Total(fetcher, core, away, Starts) = Total(fetcher, rest, away, Starts)
  <2>1. Weight(h, Starts) = 0
    BY <1>1, ThingWeights DEF Flag
  <2>2. Total(fetcher, rest, away, Starts) \in Nat
    BY <1>1
  <2> QED  BY <1>1, <2>1, <2>2
<1>3. /\ Total(fetcher, rest, away, Looping(s)) \in Nat
      /\ Total(fetcher, core, away, Looping(s)) \in Nat
      /\ Total(fetcher, rest, away, Looping(s)) <= Total(fetcher, core, away, Looping(s))
  <2>1. Weight(h, Looping(s)) \in Nat /\ Total(fetcher, rest, away, Looping(s)) \in Nat
    BY <1>1 DEF Weight
  <2>2. Total(fetcher, core, away, Looping(s))
          = Total(fetcher, rest, away, Looping(s)) + Weight(h, Looping(s))
    BY <1>1
  <2> QED  BY <2>1, <2>2
\* What is left when it is gone.
<1>r. ASSUME core' = rest PROVE Left(rest) /\ RestOf(rest)
  BY <1>1, <1>2, <1>3, <1>p, <1>r DEF Left, RestOf
\* It leaves a packet, a timer or a logout.
<1>c. ASSUME NEW x \in Things, Adds(x, rest), UNCHANGED <<running, session, overtaken>>,
             x.kind \in {"oauth", "retry", "logout"}
      PROVE  SessionInv'
  <2>1. x.kind # "start"
    BY <1>c
  <2>2. Weight(x, Continuing(s)) = 1 /\ Weight(x, Looping(s)) = 0
    BY <1>c, ThingWeights DEF Flag
  <2>3. Total(fetcher, rest, away, Looping(s)) + Weight(x, Looping(s))
          <= Total(fetcher, core, away, Looping(s))
    BY <1>3, <2>2
  <2> QED  BY <1>0, <1>1, <1>2, <1>c, <1>p, <2>1, <2>2, <2>3, Continued
<1>4. CASE OnLoaded
  <2>1. h.kind \in {"loads", "cached"} /\ core' = rest
    BY <1>4, <1>p DEF OnLoaded, Callback, Head1, Rest
  <2>2. PICK valid : valid = hasUrl
    OBVIOUS
  <2>3. Poll(valid, TRUE, 0, rest)
    BY <1>4, <1>p, <2>2 DEF OnLoaded, Rest
  <2>4. 0 \in 0..(MaxNetErrors + 1) /\ Left(rest)
    BY <1>r, <2>1, SessionAssumption
  <2>5. Total(fetcher, rest, away, Looping(session)) + 1
          = Total(fetcher, core, away, Looping(session))
    <3>1. Weight(h, Looping(s)) = 1
      BY <1>1, <2>1, ThingWeights DEF Flag
    <3>2. Total(fetcher, core, away, Looping(s)) = Total(fetcher, rest, away, Looping(s)) + 1
      BY <1>1, <3>1
    <3> QED  BY <1>p, <3>2
  <2> QED  BY <1>0, <1>2, <2>3, <2>4, <2>5, Polled
<1>5. CASE OnNotCached
  <2>1. core' = rest /\ StartInternal(FALSE, FALSE, rest)
    BY <1>5, <1>p DEF OnNotCached, Rest
  <2> QED  BY <1>0, <1>r, <2>1, StartedInternal
<1>6. CASE OnLogin
  <2>1. core' = rest /\ StartSession(FALSE, TRUE, rest)
    BY <1>6, <1>p DEF OnLogin, Rest
  <2> QED  BY <1>0, <1>r, <2>1, StartsOnce
<1>7. CASE OnOAuthOk
  <2>1. /\ core' = rest /\ h.kind = "oauth"
        /\ StartSession(h.ping, h.login, rest)
    BY <1>7, <1>p DEF OnOAuthOk, Callback, Head1, Rest
  <2> QED  BY <1>0, <1>k, <1>r, <2>1, StartsOnce
<1>8. CASE OnOAuthError
  <2>1. /\ core' = rest /\ h.kind = "oauth" /\ away' = away (+) One(Retry(h.ping, h.login))
        /\ fetcher' = fetcher /\ UNCHANGED <<running, session, overtaken>>
    BY <1>8, <1>p DEF OnOAuthError, Callback, Head1, Rest
  <2>2. PICK x \in Others : x = Retry(h.ping, h.login)
    BY <1>k, <2>1, ThingTypes
  <2>3. x \in Things /\ x.kind = "retry"
    BY <2>2 DEF Things, Retry
  <2>4. Adds(x, rest)
    BY <2>1, <2>2 DEF Adds
  <2> QED  BY <1>c, <2>1, <2>3, <2>4
<1>9. CASE OnRetry
  <2>1. /\ core' = rest /\ h.kind = "retry" /\ away' = away (+) One(OAuth(h.ping, h.login))
        /\ fetcher' = fetcher /\ UNCHANGED <<running, session, overtaken>>
    BY <1>9, <1>p DEF OnRetry, Callback, Head1, Rest
  <2>2. PICK x \in Others : x = OAuth(h.ping, h.login)
    BY <1>k, <2>1, ThingTypes
  <2>3. x \in Things /\ x.kind = "oauth"
    BY <2>2 DEF Things, OAuth
  <2>4. Adds(x, rest)
    BY <2>1, <2>2 DEF Adds
  <2> QED  BY <1>c, <2>1, <2>3, <2>4
<1>10. CASE OnOAuthRefused
  <2>1. /\ core' = Append(rest, Answer(Logout, "ok"))
        /\ UNCHANGED <<running, session, fetcher, away, overtaken>>
    BY <1>10, <1>p DEF OnOAuthRefused, Unlogin, UnchangedLoop, Rest
  <2>2. PICK x \in Others : x = Logout
    BY ThingTypes
  <2>3. x \in Things /\ x.kind = "logout"
    BY <2>2 DEF Things, Logout
  <2>4. Adds(x, rest)
    BY <2>1, <2>2 DEF Adds
  <2> QED  BY <1>c, <2>1, <2>3, <2>4
<1> QED  BY <1>4, <1>5, <1>6, <1>7, <1>8, <1>9, <1>10 DEF OnOther

\* The end of the im: nothing of it is left.
LEMMA LogoutStep ==
    ASSUME SessionInv, Flags', OnLogout
    PROVE  SessionInv'
<1>q. /\ core \in Seq(Callbacks) /\ core # <<>> /\ Control
      /\ overtaken \in BOOLEAN
  BY DEF SessionInv, Queued, Control, OnLogout
<1>1. PICK n \in Nat : n = Cardinality(Logouts(Rest))
  <2>1. Rest \in Seq(Callbacks)
    BY <1>q, ToSetTail DEF Rest
  <2>2. IsFiniteSet(DOMAIN Rest)
    BY <2>1, LenProperties, FS_Interval, Len(Rest) \in Nat
  <2>3. IsFiniteSet(Logouts(Rest))
    BY <2>2, FS_Subset DEF Logouts
  <2> QED  BY <2>3, FS_CardinalityType
<1>2. PICK a : a = Answer(Logout, "ok")
  OBVIOUS
<1>3. a \in Callbacks /\ a.what = Logout /\ Logout \in Things /\ Logout.kind = "logout"
  <2>1. Logout \in Things
    BY ThingTypes DEF Things
  <2>2. "ok" \in Outcomes(Logout)
    BY DEF Outcomes, Logout
  <2>3. Logout.kind = "logout"
    BY DEF Logout
  <2> QED  BY <1>2, <2>1, <2>2, <2>3, AnswerType
<1>4. PICK c : c = [i \in 1..n |-> a]
  OBVIOUS
<1>5. /\ alive' = FALSE /\ running' = FALSE /\ fetcher' = <<>> /\ away' = EmptyBag
      /\ core' = c /\ UNCHANGED <<session, overtaken>>
  BY <1>1, <1>2, <1>4 DEF OnLogout, Gone, history
<1>6. c \in Seq(Callbacks) /\ DOMAIN c = 1..n /\ \A i \in DOMAIN c : c[i].what = Logout
  BY <1>3, <1>4, IsASeq
<1>7. /\ DOMAIN EmptyBag = {} /\ IsABag(EmptyBag) /\ BagToSet(EmptyBag) = {}
      /\ IsFiniteSet(BagToSet(EmptyBag)) /\ IsFiniteSet(CopiesOf(EmptyBag, Others))
  <2>1. DOMAIN EmptyBag = {} /\ EmptyBag = [e \in DOMAIN EmptyBag |-> EmptyBag[e]]
    BY DEF EmptyBag, SetToBag
  <2>2. CopiesOf(EmptyBag, Others) = {}
    BY <2>1 DEF CopiesOf
  <2> QED  BY <2>1, <2>2, FS_EmptySet DEF IsABag, BagToSet
<1>8. Queued'
  <2>1. <<>> \in Seq(Tasks)
    BY EmptySeq
  <2> QED  BY <1>5, <1>6, <1>7, <2>1 DEF Queued
<1>9. ASSUME NEW A, Logout \notin A PROVE Total(<<>>, c, EmptyBag, A) = 0
  <2>1. PICK f, b : f = <<>> /\ b = EmptyBag
    OBVIOUS
  <2>2. f \in Seq(Tasks) /\ DOMAIN f = {}
    BY <2>1, EmptySeq
  <2>3. /\ IsABag(b) /\ BagToSet(b) = {} /\ IsFiniteSet(CopiesOf(b, Others))
    BY <1>7, <2>1
  <2>4. \A i \in DOMAIN c : c[i].what \notin A
    BY <1>6, <1>9
  <2>5. Total(f, c, b, A) = 0
    BY <1>6, <2>2, <2>3, <2>4, TotalType
  <2> QED  BY <2>1, <2>5
<1>10. Total(fetcher', core', away', Starts) = Flag(running')
  <2>1. Logout \notin Starts
    BY <1>3 DEF Starts
  <2> QED  BY <1>5, <1>9, <2>1 DEF Flag
<1>11. Total(fetcher', core', away', Looping(session')) <= 1
  <2>1. Logout \notin Looping(session')
    BY <1>3 DEF Looping
  <2> QED  BY <1>5, <1>9, <2>1
<1>12. Control'
  BY <1>q, <1>5 DEF Control
<1> QED  BY <1>5, <1>8, <1>10, <1>11, <1>12 DEF SessionInv

\* A logout that finds no im.
LEMMA SecondLogoutStep ==
    ASSUME SessionInv, Flags', OnSecondLogout
    PROVE  SessionInv'
<1>0. /\ alive = FALSE /\ core # <<>> /\ fetcher' = fetcher /\ away' = away
      /\ UNCHANGED <<alive, running, session, overtaken, dropped>>
  BY DEF SessionInv, Flags, OnSecondLogout, imVars, history
<1>p. PICK rest, h, s : rest = Tail(core) /\ h = Head(core).what /\ s = session
  OBVIOUS
<1>1. /\ Queued /\ rest \in Seq(Callbacks)
      /\ \A A : /\ Total(fetcher, rest, away, A) \in Nat
                /\ Total(fetcher, core, away, A) = Total(fetcher, rest, away, A) + Weight(h, A)
  BY <1>0, <1>p, HeadWeighs
<1>2. core' = rest
  BY <1>p DEF OnSecondLogout, Rest
<1>3. Queued'
  BY <1>0, <1>1, <1>2 DEF Queued
<1>4. /\ Total(fetcher', core', away', Starts) = 0
      /\ Total(fetcher, core, away, Starts) = 0
  <2>1. Total(fetcher, core, away, Starts) = 0
    BY <1>0 DEF SessionInv, Control, Flag
  <2>2. Total(fetcher, rest, away, Starts) \in Nat /\ Weight(h, Starts) \in Nat
    BY <1>1 DEF Weight
  <2>3. Total(fetcher, rest, away, Starts) = 0
    BY <1>1, <2>1, <2>2
  <2> QED  BY <1>0, <1>2, <2>1, <2>3
<1>5. Total(fetcher', core', away', Looping(s)) <= Total(fetcher, core, away, Looping(s))
  <2>1. Total(fetcher, rest, away, Looping(s)) \in Nat /\ Weight(h, Looping(s)) \in Nat
    BY <1>1 DEF Weight
  <2>2. Total(fetcher, core, away, Looping(s))
          = Total(fetcher, rest, away, Looping(s)) + Weight(h, Looping(s))
    BY <1>1
  <2>3. Total(fetcher', core', away', Looping(s)) = Total(fetcher, rest, away, Looping(s))
    BY <1>0, <1>2
  <2> QED  BY <2>1, <2>2, <2>3
<1>6. /\ Total(fetcher', core', away', Starts) = Total(fetcher, core, away, Starts)
      /\ Total(fetcher', core', away', Looping(session))
           <= Total(fetcher, core, away, Looping(session))
  BY <1>4, <1>5, <1>p
<1> QED  BY <1>0, <1>3, <1>6, Kept

\* What other components do.
LEMMA EnvironmentStep ==
    ASSUME SessionInv, Flags', Environment
    PROVE  SessionInv'
<1>0. alive = TRUE /\ UNCHANGED <<alive, dropped>>
  <2>1. alive \in BOOLEAN
    BY DEF SessionInv, Flags
  <2> QED  BY <2>1 DEF Environment, NeedRelogin, RefreshRefused, LogoutByUser, Event
<1>p. PICK rest, s : rest = core /\ s = session
  OBVIOUS
<1>1. /\ Queued /\ rest \in Seq(Callbacks) /\ ToSet(rest) \subseteq ToSet(core)
  BY <1>p DEF SessionInv, Queued
<1>2. /\ Total(fetcher, rest, away, Starts) = Total(fetcher, core, away, Starts)
      /\ Total(fetcher, rest, away, Looping(s)) = Total(fetcher, core, away, Looping(s))
  BY <1>p
<1>3. /\ Total(fetcher, rest, away, Looping(s)) \in Nat
      /\ Total(fetcher, rest, away, Looping(s)) <= Total(fetcher, core, away, Looping(s))
  <2>1. Total(fetcher, rest, away, Looping(s)) \in Nat
    BY <1>1, TotalType DEF Queued
  <2> QED  BY <1>2, <2>1
\* A packet or a callback more.
<1>c. ASSUME NEW x \in Things, Adds(x, rest), UNCHANGED <<running, session, overtaken>>,
             x.kind \in {"end", "logout"}
      PROVE  SessionInv'
  <2>1. x.kind # "start"
    BY <1>c
  <2>2. Weight(x, Continuing(s)) = 1 /\ Weight(x, Looping(s)) = 0
    BY <1>c, ThingWeights DEF Flag
  <2>3. Total(fetcher, rest, away, Looping(s)) + Weight(x, Looping(s))
          <= Total(fetcher, core, away, Looping(s))
    BY <1>3, <2>2
  <2> QED  BY <1>0, <1>1, <1>2, <1>c, <1>p, <2>1, <2>2, <2>3, Continued
<1>4. CASE NeedRelogin
  <2>1. core' = rest /\ StartInternal(FALSE, FALSE, rest)
    BY <1>4, <1>p DEF NeedRelogin
  <2>2. RestOf(rest)
    BY <1>1, <1>2, <1>3, <1>p, <2>1 DEF RestOf, Left
  <2> QED  BY <1>0, <2>1, <2>2, StartedInternal
<1>5. CASE RefreshRefused
  <2>1. /\ core' = Append(rest, Answer(Logout, "ok"))
        /\ UNCHANGED <<running, session, fetcher, away, overtaken>>
    BY <1>5, <1>p DEF RefreshRefused, UnchangedLoop
  <2>2. PICK x \in Others : x = Logout
    BY ThingTypes
  <2>3. x \in Things /\ x.kind = "logout"
    BY <2>2 DEF Things, Logout
  <2>4. Adds(x, rest)
    BY <2>1, <2>2 DEF Adds
  <2> QED  BY <1>c, <2>1, <2>3, <2>4
<1>6. CASE LogoutByUser
  <2>1. /\ away' = away (+) One(EndSession) /\ core' = rest
        /\ UNCHANGED <<running, session, fetcher, overtaken>>
    BY <1>6, <1>p DEF LogoutByUser
  <2>2. PICK x \in Others : x = EndSession
    BY ThingTypes
  <2>3. x \in Things /\ x.kind = "end"
    BY <2>2 DEF Things, EndSession
  <2>4. Adds(x, rest)
    BY <2>1, <2>2 DEF Adds
  <2> QED  BY <1>c, <2>1, <2>3, <2>4
<1> QED  BY <1>4, <1>5, <1>6 DEF Environment

\* wim_send_thread drops a packet: from then on nothing need continue the loop.
LEMMA DropStep ==
    ASSUME SessionInv, Flags', NEW x \in BagToSet(away), Drop(x)
    PROVE  SessionInv'
<1>0. dropped' = TRUE /\ UNCHANGED <<alive, running, session, overtaken>>
  BY DEF Drop, imVars
<1>1. /\ Queued' /\ x \in Things /\ x.kind \in {"oauth", "login", "end"}
      /\ \A A : Total(fetcher, core, away, A)
                  = Total(fetcher', core', away', A) + Weight(x, A)
  BY Dropped DEF SessionInv
<1>2. ASSUME NEW A, Weight(x, A) = 0
      PROVE  Total(fetcher', core', away', A) = Total(fetcher, core, away, A)
  <2>1. Total(fetcher', core', away', A) \in Nat
    BY <1>1, TotalType DEF Queued
  <2> QED  BY <1>1, <1>2, <2>1
<1>3. PICK s : s = session
  OBVIOUS
<1>4. Weight(x, Starts) = 0 /\ Weight(x, Looping(s)) = 0
  BY <1>1, ThingWeights DEF Flag
<1>5. Total(fetcher', core', away', Starts) = Flag(running')
  BY <1>0, <1>2, <1>4 DEF SessionInv
<1>6. Total(fetcher', core', away', Looping(session'))
        = Total(fetcher, core, away, Looping(session))
  <2>1. Total(fetcher', core', away', Looping(s)) = Total(fetcher, core, away, Looping(s))
    BY <1>2, <1>4
  <2> QED  BY <1>0, <1>3, <2>1
<1>7. Control' /\ (alive' \/ ~running')
  BY <1>0 DEF SessionInv, Control
<1>8. overtaken = FALSE => Total(fetcher, core, away, Looping(session)) <= 1
  BY DEF SessionInv
<1> QED  BY <1>0, <1>1, <1>5, <1>6, <1>7, <1>8 DEF SessionInv, Control

\* Every step keeps the flags flags, and counts no further than the bound.
LEMMA FlagsStep ==
    ASSUME SessionInv, [Next]_vars
    PROVE  Flags'
<1>q. /\ alive \in BOOLEAN /\ oauth \in BOOLEAN /\ leaving \in BOOLEAN /\ hasUrl \in BOOLEAN
      /\ dropped \in BOOLEAN /\ relogins \in 0..MaxRelogins
  BY DEF SessionInv, Flags
<1>n. MaxRelogins \in Nat
  BY SessionAssumption
<1>1. CASE UNCHANGED vars
  BY <1>q, <1>1 DEF vars, imVars, history, Flags
<1>2. CASE Execute \/ \E x \in BagToSet(away) : Arrive(x) \/ Drop(x)
  BY <1>q, <1>2 DEF Execute, Arrive, Drop, imVars, history, Flags
<1>3. CASE OnFetch
  BY <1>q, <1>3 DEF OnFetch, OnFetchOk, OnStaleFetch, OnNetworkError, OnNetworkErrors, OnResend,
                    OnFetchError, OnFetchFails, Callback, Flags
<1>4. CASE OnEnd
  <2>1. CASE OnSessionEnded
    BY <1>q, <2>1 DEF OnSessionEnded, OnEvents, Callback, Flags
  <2>2. CASE OnEventsDone
    <3>1. /\ hasUrl' = ~Head1.what.relogin /\ oauth' = oauth
          /\ UNCHANGED <<alive, leaving, relogins, dropped>>
      BY <2>2 DEF OnEventsDone, OnEvents, Callback
    <3> QED  BY <1>q, <3>1 DEF Flags
  <2> QED  BY <1>4, <2>1, <2>2 DEF OnEnd
<1>5. CASE OnStart
  BY <1>q, <1>5 DEF OnStart, OnPingOk, OnStartOk, OnStartRefused, OnStartError, OnStarted,
                    Callback, Flags
<1>6. CASE OnOther
  <2>1. OAuthUses \subseteq BOOLEAN
    BY SessionAssumption
  <2> QED  BY <1>q, <1>6, <2>1 DEF OnOther, OnLoaded, OnNotCached, OnLogin, OnOAuthOk,
                    OnOAuthError, OnRetry, OnOAuthRefused, Callback, Flags
<1>7. CASE OnLogout \/ OnSecondLogout
  <2>1. /\ alive' = FALSE \/ alive' = alive
        /\ UNCHANGED <<oauth, leaving, hasUrl, dropped, relogins>>
    <3>1. CASE OnLogout
      BY <3>1 DEF OnLogout, Gone, history
    <3>2. CASE OnSecondLogout
      BY <3>2 DEF OnSecondLogout, imVars, history
    <3> QED  BY <1>7, <3>1, <3>2
  <2>2. alive' \in BOOLEAN
    BY <1>q, <2>1
  <2> QED  BY <1>q, <2>1, <2>2 DEF Flags
<1>8. CASE Environment
  <2>1. /\ UNCHANGED <<alive, hasUrl, dropped>>
        /\ relogins < MaxRelogins /\ relogins' = relogins + 1
        /\ \/ UNCHANGED <<oauth, leaving>>
           \/ leaving' = TRUE /\ oauth' = FALSE
    BY <1>8 DEF Environment, NeedRelogin, RefreshRefused, LogoutByUser, Event
  <2>2. relogins' \in 0..MaxRelogins
    BY <1>q, <1>n, <2>1
  <2>3. oauth' \in BOOLEAN /\ leaving' \in BOOLEAN
    BY <1>q, <2>1
  <2> QED  BY <1>q, <2>1, <2>2, <2>3 DEF Flags
<1> QED  BY <1>1, <1>2, <1>3, <1>4, <1>5, <1>6, <1>7, <1>8 DEF Next, Core

\* It holds initially: a cache or a login is waited for.
LEMMA SessionInit ==
    ASSUME Init
    PROVE  SessionInv
<1>1. PICK p \in {Cached, Login} : away = SetToBag({p})
  BY DEF Init
<1>2. /\ alive = TRUE /\ running = FALSE /\ leaving = FALSE /\ dropped = FALSE
      /\ overtaken = FALSE /\ relogins = 0 /\ session = 1
      /\ fetcher = <<>> /\ core = <<>>
      /\ oauth \in BOOLEAN /\ hasUrl \in BOOLEAN
  BY SessionAssumption DEF Init
<1>3. p \in Others /\ p \in Things /\ p.kind \in {"cached", "login"}
  BY <1>1, ThingTypes DEF Things, Cached, Login
<1>4. fetcher \in Seq(Tasks) /\ DOMAIN fetcher = {} /\ core \in Seq(Callbacks) /\ DOMAIN core = {}
  BY <1>2, EmptySeq
<1>5. away = [e \in {p} |-> 1] /\ DOMAIN away = {p} /\ IsABag(away) /\ IsFiniteSet(DOMAIN away)
  <2>1. away = [e \in {p} |-> 1] /\ DOMAIN away = {p}
    BY <1>1 DEF SetToBag
  <2>2. IsABag(away)
    BY <2>1 DEF IsABag
  <2> QED  BY <2>1, <2>2, FS_Singleton
<1>6. ASSUME NEW A
      PROVE  /\ CopiesOf(away, A) = IF p \in A THEN {<<p, 1>>} ELSE {}
             /\ IsFiniteSet(CopiesOf(away, A))
             /\ Cardinality(CopiesOf(away, A)) = Weight(p, A)
  <2>1. CopiesOf(away, A) = IF p \in A THEN {<<p, 1>>} ELSE {}
    <3>1. CASE p \in A
      <4>1. ASSUME NEW c \in A \X Nat PROVE c \in CopiesOf(away, A) <=> c = <<p, 1>>
        <5>1. PICK e \in A, n \in Nat : c = <<e, n>>
          BY <4>1
        <5>2. c \in CopiesOf(away, A) <=> e = p /\ n = 1
          BY <1>5, <5>1 DEF CopiesOf
        <5> QED  BY <5>1, <5>2
      <4>2. <<p, 1>> \in A \X Nat /\ CopiesOf(away, A) \subseteq A \X Nat
        BY <3>1 DEF CopiesOf
      <4> QED  BY <3>1, <4>1, <4>2
    <3>2. CASE p \notin A
      BY <1>5, <3>2 DEF CopiesOf
    <3> QED  BY <3>1, <3>2
  <2>2. CASE p \in A
    <3>1. PICK x : x = <<p, 1>>
      OBVIOUS
    <3>2. IsFiniteSet({x}) /\ Cardinality({x}) = 1
      BY FS_Singleton
    <3> QED  BY <2>1, <2>2, <3>1, <3>2 DEF Weight
  <2>3. CASE p \notin A
    BY <2>1, <2>3, FS_EmptySet DEF Weight
  <2> QED  BY <2>2, <2>3
<1>7. Queued
  BY <1>3, <1>4, <1>5, <1>6 DEF Queued, BagToSet
<1>8. ASSUME NEW A PROVE Total(fetcher, core, away, A) = Weight(p, A)
  <2>1. Among(fetcher, A) = 0 /\ Among(core, Answers(A)) = 0
    BY <1>4, AmongZero
  <2>2. Weight(p, A) \in Nat
    BY DEF Weight
  <2> QED  BY <1>6, <2>1, <2>2 DEF Total
<1>9. /\ Weight(p, Starts) = 0 /\ Weight(p, Continuing(session)) = 1
      /\ Weight(p, Looping(session)) <= 1
  BY <1>3, ThingWeights DEF Flag
<1>10. Control /\ Flags
  <2>1. 0 \in 0..MaxRelogins
    BY SessionAssumption
  <2>2. {alive, oauth, leaving, hasUrl, dropped} \subseteq BOOLEAN
    BY <1>2
  <2>3. Control
    <3>1. {running, overtaken} \subseteq BOOLEAN
      BY <1>2
    <3>2. session \in Sessions
      BY <1>2 DEF Sessions
    <3> QED  BY <3>1, <3>2 DEF Control
  <2>4. Flags
    BY <1>2, <2>1, <2>2 DEF Flags
  <2> QED  BY <2>3, <2>4
<1> QED  BY <1>2, <1>7, <1>8, <1>9, <1>10 DEF SessionInv, Flag

\* And every step keeps it.
LEMMA SessionStep ==
    ASSUME SessionInv, [Next]_vars
    PROVE  SessionInv'
<1>f. Flags'
  BY FlagsStep
<1>1. CASE UNCHANGED vars
  <2>1. Queued' /\ UNCHANGED <<alive, running, session, overtaken, dropped, fetcher, core, away>>
    BY <1>1 DEF vars, imVars, queues, history, SessionInv, Queued
  <2>2. Control'
    BY <2>1 DEF SessionInv, Control
  <2> QED  BY <1>f, <2>1, <2>2 DEF SessionInv
<1>2. CASE Execute \/ \E x \in BagToSet(away) : Arrive(x)
  <2>1. /\ Queued'
        /\ \A A : Total(fetcher', core', away', A) = Total(fetcher, core, away, A)
    BY <1>2, Moved DEF SessionInv
  <2>2. UNCHANGED <<alive, running, session, overtaken, dropped>>
    BY <1>2 DEF Execute, Arrive, imVars, history
  <2>3. PICK L : L = Looping(session)
    OBVIOUS
  <2>4. Total(fetcher, core, away, L) \in Nat
    BY TotalType DEF SessionInv, Queued
  <2>5. Total(fetcher', core', away', L) <= Total(fetcher, core, away, L)
    BY <2>1, <2>4
  <2> QED  BY <1>f, <2>1, <2>2, <2>3, <2>5, Kept
<1>3. CASE \E x \in BagToSet(away) : Drop(x)
  BY <1>f, <1>3, DropStep
<1>4. CASE Core
  BY <1>f, <1>4, FetchStep, StartStep, OtherStep, LogoutStep, SecondLogoutStep DEF Core
<1>5. CASE Environment
  BY <1>f, <1>5, EnvironmentStep
<1> QED  BY <1>1, <1>2, <1>3, <1>4, <1>5 DEF Next

-----------------------------------------------------------------------------
(* What the runs check follows. *)

\* The counted sets are what the definitions of Session say.
LEMMA LoopKinds ==
    ASSUME NEW p \in Things, NEW s, s = session
    PROVE  /\ p \in Starts <=> p.kind = "start"
           /\ p \in Looping(s) <=> InLoop(p)
           /\ p \in Continuing(s) <=> Continues(p)
BY DEF Starts, Looping, Continuing, InLoop, Continues, Polls, Live

\* What waits are things.
LEMMA WaitingThings ==
    ASSUME Queued
    PROVE  /\ \A i \in DOMAIN fetcher : fetcher[i] \in Tasks /\ fetcher[i] \in Things
           /\ \A i \in DOMAIN core : core[i] \in Callbacks /\ core[i].what \in Things
           /\ \A p \in BagToSet(away) : p \in Others /\ p \in Things
<1>1. ASSUME NEW i \in DOMAIN fetcher PROVE fetcher[i] \in Tasks /\ fetcher[i] \in Things
  <2>1. fetcher[i] \in Tasks
    BY ElementOfSeq, LenProperties DEF Queued
  <2> QED  BY <2>1 DEF Things
<1>2. ASSUME NEW i \in DOMAIN core PROVE core[i] \in Callbacks /\ core[i].what \in Things
  <2>1. core[i] \in Callbacks
    BY ElementOfSeq, LenProperties DEF Queued
  <2> QED  BY <2>1, CallbackType
<1>3. \A p \in BagToSet(away) : p \in Others /\ p \in Things
  BY DEF Queued, Things
<1> QED  BY <1>1, <1>2, <1>3

\* The flag of a start, among the types.
LEMMA InvTypeOK ==
    ASSUME SessionInv
    PROVE  TypeOK
<1>q. /\ Queued /\ Flags /\ Control /\ running \in BOOLEAN
      /\ Total(fetcher, core, away, Starts) = Flag(running)
  BY DEF SessionInv, Control
<1>1. Total(fetcher, core, away, Starts) = 0
        <=> /\ \A i \in DOMAIN fetcher : fetcher[i] \notin Starts
            /\ \A i \in DOMAIN core : core[i].what \notin Starts
            /\ \A p \in BagToSet(away) : p \notin Starts
  BY <1>q, TotalType DEF Queued
<1>2. running <=> Total(fetcher, core, away, Starts) # 0
  <2>1. CASE running = TRUE
    BY <1>q, <2>1 DEF Flag
  <2>2. CASE running = FALSE
    BY <1>q, <2>2 DEF Flag
  <2> QED  BY <1>q, <2>1, <2>2
<1>3. \A p \in BagToSet(away) : p \notin Starts
  BY <1>q, WaitingThings, ThingKinds DEF Starts
<1>4. /\ \A i \in DOMAIN fetcher : fetcher[i] \in Starts <=> fetcher[i].kind = "start"
      /\ \A i \in DOMAIN core : core[i].what \in Starts <=> core[i].what.kind = "start"
  BY <1>q, WaitingThings DEF Starts
<1>5. running <=> \/ \E i \in DOMAIN fetcher : fetcher[i].kind = "start"
                  \/ \E i \in DOMAIN core : core[i].what.kind = "start"
  BY <1>1, <1>2, <1>3, <1>4
<1>6. {alive, oauth, leaving, hasUrl, running, dropped, overtaken} \subseteq BOOLEAN
  BY <1>q DEF Flags, Control
<1> QED  BY <1>q, <1>5, <1>6 DEF TypeOK, Queued, Flags, Control

\* What is counted is there.
LEMMA InvLoopAlive ==
    ASSUME SessionInv
    PROVE  LoopAlive
<1> SUFFICES ASSUME alive = TRUE, dropped = FALSE PROVE \E p \in Pending : Continues(p)
  BY DEF LoopAlive, SessionInv, Flags
<1>q. Queued /\ Total(fetcher, core, away, Continuing(session)) # 0
  BY DEF SessionInv
<1>1. PICK s : s = session
  OBVIOUS
<1>2. \/ \E i \in DOMAIN fetcher : fetcher[i] \in Continuing(s)
      \/ \E i \in DOMAIN core : core[i].what \in Continuing(s)
      \/ \E p \in BagToSet(away) : p \in Continuing(s)
  BY <1>q, <1>1, TotalType DEF Queued
<1>3. PICK p : p \in Pending /\ p \in Continuing(s)
  BY <1>2 DEF Pending, ToSet
<1>4. p \in Things
  BY <1>3 DEF Continuing
<1> QED  BY <1>1, <1>3, <1>4, LoopKinds

\* The length of the loop is a total.
LEMMA InvOneLoop ==
    ASSUME SessionInv
    PROVE  OneLoop
<1>q. Queued /\ IsABag(away)
  BY DEF SessionInv, Queued
<1>1. PICK L : L = Looping(session)
  OBVIOUS
<1>2. ASSUME NEW p \in Things PROVE p \in L <=> InLoop(p)
  BY <1>1, LoopKinds
<1>3. {i \in DOMAIN fetcher : InLoop(fetcher[i])} = Positions(fetcher, L)
  BY <1>2, <1>q, WaitingThings DEF Positions
<1>4. {i \in DOMAIN core : InLoop(core[i].what)} = Positions(core, Answers(L))
  <2>1. \A i \in DOMAIN core : InLoop(core[i].what) <=> core[i] \in Answers(L)
    BY <1>2, <1>q, WaitingThings, CallbackType
  <2> QED  BY <2>1 DEF Positions
<1>5. UNION {{p} \X (1..away[p]) : p \in {q \in BagToSet(away) : InLoop(q)}} = CopiesOf(away, L)
  <2>1. ASSUME NEW c, NEW p \in BagToSet(away), InLoop(p), c \in {p} \X (1..away[p])
        PROVE  c \in CopiesOf(away, L)
    <3>1. p \in L /\ away[p] \in Nat
      BY <1>2, <1>q, <2>1, WaitingThings DEF IsABag, BagToSet
    <3>2. PICK n \in 1..away[p] : c = <<p, n>>
      BY <2>1
    <3> QED  BY <3>1, <3>2 DEF CopiesOf, BagToSet
  <2>2. ASSUME NEW c \in CopiesOf(away, L)
        PROVE  c \in UNION {{p} \X (1..away[p]) : p \in {q \in BagToSet(away) : InLoop(q)}}
    <3>1. PICK p \in DOMAIN away, n \in Nat : c = <<p, n>> /\ p \in L /\ n \in 1..away[p]
      BY DEF CopiesOf
    <3>2. p \in BagToSet(away) /\ InLoop(p)
      BY <1>2, <1>q, <3>1, WaitingThings DEF BagToSet
    <3>3. c \in {p} \X (1..away[p])
      BY <3>1
    <3> QED  BY <3>2, <3>3
  <2> QED  BY <2>1, <2>2
<1>6. LoopLength = Total(fetcher, core, away, L)
  BY <1>3, <1>4, <1>5 DEF LoopLength, Total, Among
<1> QED  BY <1>1, <1>6 DEF SessionInv, OneLoop

\* The counts are invariant.
LEMMA SessionInvariant == Spec => []SessionInv
<1>1. Init => SessionInv
  BY SessionInit
<1>2. SessionInv /\ [Next]_vars => SessionInv'
  BY SessionStep
<1> QED  BY <1>1, <1>2, PTL DEF Spec

\* The session is of its type at all times, and start_session_is_running_ is set as long
\* as a start waits for the fetch thread or its callback for the core thread, no longer.
THEOREM TypeCorrect == Spec => []TypeOK
<1>1. SessionInv => TypeOK
  BY InvTypeOK
<1> QED  BY <1>1, SessionInvariant, PTL

\* Whatever fails, is refused, expires or answers too late, an im that lives waits for
\* something that leads back to poll() or to its end, as long as wim_send_thread dropped
\* none of its packets: im::poll(), im::start_session(), im::retry_oauth2_login().
THEOREM LoopGoesOn == Spec => []LoopAlive
<1>1. SessionInv => LoopAlive
  BY InvLoopAlive
<1> QED  BY <1>1, SessionInvariant, PTL

\* There are never two loops of one session, unless a start left a continuation behind
\* that polls: the check of active_session_id_ in the callbacks of im::poll() suffices.
THEOREM LoopsOnce == Spec => []OneLoop
<1>1. SessionInv => OneLoop
  BY InvOneLoop
<1> QED  BY <1>1, SessionInvariant, PTL

=============================================================================
