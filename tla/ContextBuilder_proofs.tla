------------------------ MODULE ContextBuilder_proofs ------------------------
(***************************************************************************)
(* Proofs about ContextBuilder, for histories of any length and all sizes, *)
(* scores and limits: the trim fills the limit, and no stored message is   *)
(* in a context twice or missing without need.                             *)
(***************************************************************************)
EXTENDS ContextBuilder, TLAPS, WellFoundedInduction, SequenceTheorems, FiniteSetTheorems

Least(S) == CHOOSE n \in S : \A m \in S : n <= m

LEMMA LeastExists ==
  ASSUME NEW S, S \subseteq Nat, S # {}
  PROVE  Least(S) \in S /\ \A m \in S : Least(S) <= m
<1>1. \E n \in S : \A m \in S : ~ (<<m, n>> \in OpToRel(<, Nat))
  BY NatLessThanWellFounded, WFMin
<1>2. PICK n \in S : \A m \in S : ~ (<<m, n>> \in OpToRel(<, Nat))
  BY <1>1
<1>3. \A m \in S : ~ (m < n)
  BY <1>2, Zenon DEF OpToRel
<1>4. \E l \in S : \A m \in S : l <= m
  BY <1>3
<1> QED BY <1>4, Zenon DEF Least

-----------------------------------------------------------------------------
(* The inputs *)

Messages == [part : {"standard", "rule", "recent", "older"}, at : Nat \ {0}, size : Sizes]

InputsInv ==
  /\ session \in [standards : Seq(Sizes), rules : Seq(Sizes)]
  /\ stored \in Seq([size : Sizes, score : Scores])
  /\ lastN \in Nat
  /\ maxTokens \in Nat \ {0}
  /\ offered \subseteq Tools /\ fileTools \subseteq Tools

LEMMA InitInputs == Init => InputsInv
<1>1. ASSUME NEW A, NEW n \in Nat
      PROVE  Upto(A, n) \subseteq Seq(A)
  <2>1. ASSUME NEW s \in Upto(A, n)
        PROVE  s \in Seq(A)
    <3>1. PICK k \in 0 .. n : s \in [1 .. k -> A]
      BY <2>1 DEF Upto
    <3> QED BY <3>1, SeqDef
  <2> QED BY <2>1
<1>2. Upto(Sizes, MaxSystem) \subseteq Seq(Sizes)
      /\ Upto([size : Sizes, score : Scores], MaxHistory)
           \subseteq Seq([size : Sizes, score : Scores])
  BY <1>1, ConstantsAssumption
<1> QED BY <1>2, ConstantsAssumption DEF Init, InputsInv

-----------------------------------------------------------------------------
(* The two slices *)

\* Where the older messages end and the last N begin.
Split == IF lastN = 0 THEN Len(stored) ELSE Cut(- lastN, Len(stored))

LEMMA StoredFacts ==
  ASSUME InputsInv
  PROVE  /\ stored \in [1 .. Len(stored) -> [size : Sizes, score : Scores]]
         /\ DOMAIN stored = 1 .. Len(stored) /\ Len(stored) \in Nat
         /\ Split \in 0 .. Len(stored)
<1>1. /\ stored \in [1 .. Len(stored) -> [size : Sizes, score : Scores]]
      /\ DOMAIN stored = 1 .. Len(stored) /\ Len(stored) \in Nat
  BY LenProperties DEF InputsInv
<1>2. Split \in 0 .. Len(stored)
  BY <1>1 DEF Split, Cut, InputsInv
<1> QED BY <1>1, <1>2

\* All that is stored, and the last N of it.
LEMMA RecentFacts ==
  ASSUME InputsInv
  PROVE  LET Others == {m \in Messages : m.part = "recent"}
         IN  /\ AllStored \in Seq(Others) /\ Len(AllStored) = Len(stored)
             /\ \A i \in 1 .. Len(stored) : AllStored[i].at = i
             /\ Recent \in Seq(Others) /\ Len(Recent) = Len(stored) - Split
             /\ \A k \in 1 .. Len(stored) - Split : Recent[k].at = Split + k
<1> DEFINE Others == {m \in Messages : m.part = "recent"}
           n == Len(stored)
           b == Split
<1>1. /\ stored \in [1 .. n -> [size : Sizes, score : Scores]]
      /\ DOMAIN stored = 1 .. n /\ n \in Nat /\ b \in 0 .. n
  BY StoredFacts
<1>2. ASSUME NEW i \in 1 .. n
      PROVE  AllStored[i] \in Others /\ AllStored[i].at = i
  BY <1>1, <1>2 DEF AllStored, Message, Messages
<1>3. DOMAIN AllStored = 1 .. n /\ AllStored = [i \in 1 .. n |-> AllStored[i]]
  BY <1>1 DEF AllStored
<1>4. Recent = IF lastN = 0 THEN <<>> ELSE SubSeq(AllStored, b + 1, n)
  BY DEF Recent, Split
<1>5. lastN = 0 => b = n
  BY DEF Split
<1> HIDE DEF n, b, Others
<1>6. AllStored \in [1 .. n -> Others]
  BY <1>2, <1>3
<1>7. AllStored \in Seq(Others) /\ Len(AllStored) = n
  <2>1. AllStored \in Seq(Others)
    BY <1>1, <1>6, SeqDef
  <2> QED BY <1>1, <1>3, <2>1, LenProperties
<1>8. CASE lastN = 0
  <2>1. Recent = <<>> /\ b = n
    BY <1>4, <1>5, <1>8
  <2> QED BY <1>1, <1>2, <1>7, <2>1, EmptySeq DEF n, b, Others
<1>9. CASE lastN # 0
  <2> DEFINE rest == SubSeq(AllStored, b + 1, n)
  <2>1. \A i \in b + 1 .. n : AllStored[i] \in Others
    BY <1>1, <1>2
  <2>2. /\ rest \in Seq(Others)
        /\ Len(rest) = IF b + 1 <= n THEN n - (b + 1) + 1 ELSE 0
        /\ \A k \in 1 .. n - (b + 1) + 1 : rest[k] = AllStored[(b + 1) + k - 1]
    BY <1>1, <2>1, SubSeqProperties
  <2>3. Len(rest) = n - b
    BY <1>1, <2>2
  <2>4. ASSUME NEW k \in 1 .. n - b
        PROVE  rest[k].at = b + k
    <3>1. k \in 1 .. n - (b + 1) + 1 /\ (b + 1) + k - 1 = b + k /\ b + k \in 1 .. n
      BY <1>1
    <3> QED BY <1>2, <2>2, <3>1
  <2>5. Recent = rest
    BY <1>4, <1>9
  <2> HIDE DEF rest
  <2> QED BY <1>2, <1>7, <2>2, <2>3, <2>4, <2>5 DEF n, b, Others
<1> QED BY <1>8, <1>9

-----------------------------------------------------------------------------
(* The slot *)

\* The older messages that are more relevant than one of them.
Ahead(i) == {j \in Older : \/ stored[j].score > stored[i].score
                           \/ stored[j].score = stored[i].score /\ j < i}

MoreRelevant(i, j) == \/ stored[i].score > stored[j].score
                      \/ stored[i].score = stored[j].score /\ i < j

LEMMA OlderFacts ==
  ASSUME InputsInv
  PROVE  /\ Older = {i \in 1 .. Split : stored[i].size > 0}
         /\ IsFiniteSet(Older) /\ Cardinality(Older) \in Nat
         /\ \A i \in Older : i \in Nat \ {0} /\ stored[i].score \in Nat /\ stored[i].size \in Sizes
<1>1. /\ stored \in [1 .. Len(stored) -> [size : Sizes, score : Scores]]
      /\ DOMAIN stored = 1 .. Len(stored) /\ Len(stored) \in Nat
      /\ Split \in 0 .. Len(stored)
  BY StoredFacts
<1>2. Older = {i \in 1 .. Split : stored[i].size > 0}
  BY <1>1 DEF Older, Split
<1>3. Older \subseteq 1 .. Len(stored)
  BY <1>1, <1>2
<1>4. IsFiniteSet(1 .. Len(stored))
  BY <1>1, FS_Interval
<1>5. IsFiniteSet(Older)
  BY <1>3, <1>4, FS_Subset
<1>6. Cardinality(Older) \in Nat
  BY <1>5, FS_CardinalityType
<1>7. \A i \in Older : i \in Nat \ {0} /\ stored[i].score \in Nat /\ stored[i].size \in Sizes
  <2>1. ASSUME NEW i \in Older
        PROVE  i \in Nat \ {0} /\ stored[i] \in [size : Sizes, score : Scores]
    <3>1. i \in 1 .. Len(stored)
      BY <1>3
    <3> QED BY <1>1, <3>1
  <2>2. \A r \in [size : Sizes, score : Scores] : r.size \in Sizes /\ r.score \in Nat
    BY ConstantsAssumption
  <2> QED BY <2>1, <2>2
<1> QED BY <1>2, <1>5, <1>6, <1>7

\* Who is more relevant has fewer ahead.
LEMMA AheadLess ==
  ASSUME InputsInv, NEW i \in Older, NEW j \in Older, MoreRelevant(i, j)
  PROVE  Cardinality(Ahead(i)) < Cardinality(Ahead(j))
<1>1. \A k \in Older : k \in Nat /\ stored[k].score \in Nat
  BY OlderFacts
<1>2. Ahead(i) \cup {i} \subseteq Ahead(j) /\ i \notin Ahead(i)
  BY <1>1 DEF Ahead, MoreRelevant
<1>3. IsFiniteSet(Ahead(i)) /\ IsFiniteSet(Ahead(j))
  <2>1. Ahead(i) \in SUBSET Older /\ Ahead(j) \in SUBSET Older
    BY DEF Ahead
  <2> QED BY <2>1, OlderFacts, FS_Subset
<1>4. Cardinality(Ahead(i) \cup {i}) = Cardinality(Ahead(i)) + 1
  BY <1>2, <1>3, FS_AddElement
<1>5. Cardinality(Ahead(i) \cup {i}) <= Cardinality(Ahead(j))
  BY <1>2, <1>3, FS_Subset
<1>6. Cardinality(Ahead(i)) \in Nat /\ Cardinality(Ahead(j)) \in Nat
  BY <1>3, FS_CardinalityType
<1> QED BY <1>4, <1>5, <1>6

\* Each place of the slot is somebody's, and each older message has one place.
LEMMA PlaceTaken ==
  ASSUME InputsInv
  PROVE  /\ \A k \in 1 .. Cardinality(Older) : \E i \in Older : Cardinality(Ahead(i)) = k - 1
         /\ \A i \in Older : Cardinality(Ahead(i)) + 1 \in 1 .. Cardinality(Older)
         /\ \A i, j \in Older : Cardinality(Ahead(i)) = Cardinality(Ahead(j)) => i = j
<1> DEFINE n == Cardinality(Older)
           f == [i \in Older |-> Cardinality(Ahead(i)) + 1]
<1>1. n \in Nat /\ IsFiniteSet(Older)
  BY OlderFacts
<1>2. ASSUME NEW i \in Older
      PROVE  Cardinality(Ahead(i)) \in Nat /\ Cardinality(Ahead(i)) < n
  <2>1. Ahead(i) \in SUBSET Older /\ i \notin Ahead(i)
    BY OlderFacts DEF Ahead
  <2>2. IsFiniteSet(Ahead(i)) /\ Cardinality(Ahead(i)) <= n /\ Ahead(i) # Older
    BY <1>1, <2>1, FS_Subset
  <2>3. Cardinality(Older) # Cardinality(Ahead(i))
    BY <1>1, <2>1, <2>2, FS_Subset
  <2> QED BY <1>1, <2>2, <2>3, FS_CardinalityType
<1>3. f \in [Older -> 1 .. n]
  BY <1>1, <1>2
<1>4. ASSUME NEW i \in Older, NEW j \in Older, f[i] = f[j]
      PROVE  i = j
  <2>1. Cardinality(Ahead(i)) = Cardinality(Ahead(j))
    BY <1>2, <1>4
  <2>2. ~ MoreRelevant(i, j) /\ ~ MoreRelevant(j, i)
    BY <1>2, <2>1, AheadLess
  <2> QED BY <2>2, OlderFacts DEF MoreRelevant
<1>5. f \in Injection(Older, 1 .. n)
  <2> HIDE DEF f
  <2> QED BY <1>3, <1>4 DEF Injection, IsInjective
<1>6. IsFiniteSet(1 .. n) /\ Cardinality(1 .. n) = n
  BY <1>1, FS_Interval
<1>7. f \in Surjection(Older, 1 .. n)
  <2> HIDE DEF f
  <2>1. Cardinality(Older) = Cardinality(1 .. n) <=> f \in Surjection(Older, 1 .. n)
    BY <1>5, <1>6, FS_Injection
  <2> QED BY <1>6, <2>1
<1>8. ASSUME NEW k \in 1 .. n
      PROVE  \E i \in Older : Cardinality(Ahead(i)) = k - 1
  <2>1. PICK i \in Older : f[i] = k
    BY <1>7 DEF Surjection
  <2> QED BY <1>2, <2>1
<1>9. \A i \in Older : Cardinality(Ahead(i)) + 1 \in 1 .. n
  BY <1>1, <1>2
<1>10. \A i, j \in Older : Cardinality(Ahead(i)) = Cardinality(Ahead(j)) => i = j
  BY <1>4
<1> QED BY <1>8, <1>9, <1>10

\* So the sort keeps each older message, once.
LEMMA SortedFacts ==
  ASSUME InputsInv
  PROVE  /\ DOMAIN Sorted = 1 .. Cardinality(Older)
         /\ \A k \in DOMAIN Sorted : Sorted[k] \in Older
         /\ \A k, l \in DOMAIN Sorted : Sorted[k] = Sorted[l] => k = l
         /\ \A i \in Older : \E k \in DOMAIN Sorted : Sorted[k] = i
<1> DEFINE n == Cardinality(Older)
<1>1. n \in Nat
  BY OlderFacts
<1>2. Sorted = [k \in 1 .. n |-> CHOOSE i \in Older : Cardinality(Ahead(i)) = k - 1]
  BY DEF Sorted, Ahead
<1>3. ASSUME NEW k \in 1 .. n
      PROVE  Sorted[k] \in Older /\ Cardinality(Ahead(Sorted[k])) = k - 1
  <2>1. \E i \in Older : Cardinality(Ahead(i)) = k - 1
    BY PlaceTaken
  <2>2. Sorted[k] = CHOOSE i \in Older : Cardinality(Ahead(i)) = k - 1
    BY <1>2
  <2> QED BY <2>1, <2>2, Zenon
<1>4. DOMAIN Sorted = 1 .. n
  BY <1>2
<1>5. ASSUME NEW k \in 1 .. n, NEW l \in 1 .. n, Sorted[k] = Sorted[l]
      PROVE  k = l
  <2>1. k - 1 = l - 1
    BY <1>3, <1>5
  <2> QED BY <1>1, <2>1
<1>6. ASSUME NEW i \in Older
      PROVE  \E k \in 1 .. n : Sorted[k] = i
  <2> DEFINE k == Cardinality(Ahead(i)) + 1
  <2>1. k \in 1 .. n
    BY PlaceTaken
  <2>2. Sorted[k] \in Older /\ Cardinality(Ahead(Sorted[k])) = k - 1
    BY <1>3, <2>1
  <2>3. IsFiniteSet(Ahead(i))
    BY OlderFacts, FS_Subset DEF Ahead
  <2>4. Cardinality(Ahead(Sorted[k])) = Cardinality(Ahead(i))
    BY <2>2, <2>3, FS_CardinalityType
  <2> QED BY <2>1, <2>2, <2>4, PlaceTaken
<1> QED BY <1>3, <1>4, <1>5, <1>6

-----------------------------------------------------------------------------
(* The messages in order *)

\* Standards and rules.
System == {m \in Messages : m.part \in {"standard", "rule"}}

LEMMA BlocksFacts ==
  ASSUME NEW part \in {"standard", "rule"}, NEW sizes \in Seq(Sizes)
  PROVE  Blocks(part, sizes) \in Seq(System)
<1>1. /\ sizes \in [1 .. Len(sizes) -> Sizes]
      /\ DOMAIN sizes = 1 .. Len(sizes) /\ Len(sizes) \in Nat
  BY LenProperties
<1>2. \A i \in 1 .. Len(sizes) : Message(part, i, sizes[i]) \in System
  BY <1>1 DEF Message, Messages, System
<1>3. Blocks(part, sizes) \in [1 .. Len(sizes) -> System]
  BY <1>1, <1>2 DEF Blocks
<1> QED BY <1>1, <1>3, SeqDef

LEMMA SlotFacts ==
  ASSUME InputsInv
  PROVE  /\ RelevanceSlot \in Seq({m \in Messages : m.part = "older"})
         /\ Len(RelevanceSlot) = Cardinality(Older)
         /\ \A k \in 1 .. Cardinality(Older) : RelevanceSlot[k].at = Sorted[k]
<1> DEFINE n == Cardinality(Older)
           OlderMessages == {m \in Messages : m.part = "older"}
<1>1. n \in Nat /\ DOMAIN Sorted = 1 .. n /\ \A k \in 1 .. n : Sorted[k] \in Older
  BY OlderFacts, SortedFacts
<1>2. ASSUME NEW k \in 1 .. n
      PROVE  /\ Message("older", Sorted[k], stored[Sorted[k]].size) \in OlderMessages
             /\ Message("older", Sorted[k], stored[Sorted[k]].size).at = Sorted[k]
  <2>1. Sorted[k] \in Nat \ {0} /\ stored[Sorted[k]].size \in Sizes
    BY <1>1, OlderFacts
  <2> QED BY <2>1 DEF Message, Messages
<1>3. RelevanceSlot = [k \in 1 .. n |-> Message("older", Sorted[k], stored[Sorted[k]].size)]
  BY <1>1 DEF RelevanceSlot
<1>4. RelevanceSlot \in [1 .. n -> OlderMessages]
      /\ \A k \in 1 .. n : RelevanceSlot[k].at = Sorted[k]
  BY <1>2, <1>3
<1>5. RelevanceSlot \in Seq(OlderMessages)
  BY <1>1, <1>4, SeqDef
<1>6. Len(RelevanceSlot) = n
  BY <1>1, <1>4, <1>5, LenProperties
<1> QED BY <1>4, <1>5, <1>6

\* The places of a sequence at which stored message i is.
Copies(messages, i) ==
  {k \in DOMAIN messages : messages[k].part \in {"recent", "older"} /\ messages[k].at = i}

\* One part of the history is all of it behind the split, the other what has a
\* body before it: in the context in order, each stored message has one place,
\* or none if it has no body.
LEMMA OrderedFacts ==
  ASSUME InputsInv
  PROVE  /\ Ordered \in Seq(Messages)
         /\ \A i \in DOMAIN stored :
              /\ \A k, l \in Copies(Ordered, i) : k = l
              /\ Copies(Ordered, i) = {} => stored[i].size = 0
<1> DEFINE front == Blocks("standard", session.standards) \o Blocks("rule", session.rules)
           head == front \o Recent
           a == Len(front)
           b == Len(Recent)
           n == Cardinality(Older)
<1>1. front \in Seq(System) /\ a \in Nat /\ \A k \in 1 .. a : front[k] \in System
  <2>1. session.standards \in Seq(Sizes) /\ session.rules \in Seq(Sizes)
    BY DEF InputsInv
  <2>2. Blocks("standard", session.standards) \in Seq(System)
        /\ Blocks("rule", session.rules) \in Seq(System)
    BY <2>1, BlocksFacts
  <2>3. front \in Seq(System)
    BY <2>2, ConcatProperties
  <2> HIDE DEF front
  <2>4. front \in [1 .. a -> System] /\ a \in Nat
    BY <2>3, LenProperties
  <2> QED BY <2>3, <2>4
<1>2. /\ Recent \in Seq({m \in Messages : m.part = "recent"})
      /\ b = Len(stored) - Split /\ b \in Nat
      /\ \A k \in 1 .. b : Recent[k].at = Split + k /\ Recent[k] \in Messages
                           /\ Recent[k].part = "recent"
  <2>1. /\ Recent \in Seq({m \in Messages : m.part = "recent"})
        /\ b = Len(stored) - Split
        /\ \A k \in 1 .. b : Recent[k].at = Split + k
    BY RecentFacts
  <2>2. Recent \in [1 .. b -> {m \in Messages : m.part = "recent"}] /\ b \in Nat
    BY <2>1, LenProperties
  <2> QED BY <2>1, <2>2
<1>3. /\ RelevanceSlot \in Seq({m \in Messages : m.part = "older"})
      /\ Len(RelevanceSlot) = n /\ n \in Nat
      /\ \A k \in 1 .. n : /\ RelevanceSlot[k].at = Sorted[k] /\ RelevanceSlot[k] \in Messages
                           /\ RelevanceSlot[k].part = "older"
  <2>1. /\ RelevanceSlot \in Seq({m \in Messages : m.part = "older"})
        /\ Len(RelevanceSlot) = n /\ n \in Nat
        /\ \A k \in 1 .. n : RelevanceSlot[k].at = Sorted[k]
    BY SlotFacts, OlderFacts
  <2>2. RelevanceSlot \in [1 .. n -> {m \in Messages : m.part = "older"}]
    BY <2>1, LenProperties
  <2> QED BY <2>1, <2>2
<1>4. Ordered = head \o RelevanceSlot
  BY DEF Ordered
<1> HIDE DEF front, a, b, n
<1>5. /\ head \in Seq(Messages) /\ Len(head) = a + b
      /\ \A k \in 1 .. a + b : head[k] = IF k <= a THEN front[k] ELSE Recent[k - a]
  <2>1. front \in Seq(Messages) /\ Recent \in Seq(Messages)
    <3>1. front \in [1 .. a -> Messages] /\ Recent \in [1 .. b -> Messages]
      <4>1. front \in [1 .. a -> System] /\ System \subseteq Messages
        BY <1>1, LenProperties DEF a, System
      <4>2. Recent \in [1 .. b -> {m \in Messages : m.part = "recent"}]
        BY <1>2, LenProperties DEF b
      <4> QED BY <4>1, <4>2
    <3> QED BY <1>1, <1>2, <3>1, SeqDef
  <2> QED BY <2>1, ConcatProperties DEF a, b
<1>6. /\ Ordered \in Seq(Messages) /\ DOMAIN Ordered = 1 .. a + b + n
      /\ \A k \in 1 .. a + b + n :
           Ordered[k] = IF k <= a + b THEN head[k] ELSE RelevanceSlot[k - (a + b)]
  <2> HIDE DEF head
  <2>1. RelevanceSlot \in Seq(Messages)
    <3>1. RelevanceSlot \in [1 .. n -> {m \in Messages : m.part = "older"}]
      BY <1>3, LenProperties
    <3>2. RelevanceSlot \in [1 .. n -> Messages]
      BY <3>1
    <3> QED BY <1>3, <3>2, SeqDef
  <2>2. /\ head \o RelevanceSlot \in Seq(Messages)
        /\ Len(head \o RelevanceSlot) = (a + b) + n
        /\ \A k \in 1 .. (a + b) + n :
             (head \o RelevanceSlot)[k]
               = IF k <= a + b THEN head[k] ELSE RelevanceSlot[k - (a + b)]
    <3>1. /\ head \o RelevanceSlot \in Seq(Messages)
          /\ Len(head \o RelevanceSlot) = Len(head) + Len(RelevanceSlot)
          /\ \A k \in 1 .. Len(head) + Len(RelevanceSlot) :
               (head \o RelevanceSlot)[k]
                 = IF k <= Len(head) THEN head[k] ELSE RelevanceSlot[k - Len(head)]
      BY <1>5, <2>1, ConcatProperties
    <3>2. Len(head) = a + b /\ Len(RelevanceSlot) = n
      BY <1>3, <1>5 DEF n
    <3> QED BY <3>1, <3>2
  <2>3. DOMAIN (head \o RelevanceSlot) = 1 .. (a + b) + n
    BY <2>2, LenProperties
  <2> QED BY <1>4, <2>2, <2>3
<1> HIDE DEF head
\* What is at a place of the context.
<1>7. ASSUME NEW k \in 1 .. a
      PROVE  Ordered[k].part \notin {"recent", "older"}
  <2>1. Ordered[k] = front[k]
    BY <1>1, <1>2, <1>3, <1>5, <1>6, SMTT(20)
  <2> QED BY <1>1, <2>1 DEF System
<1>8. ASSUME NEW k \in 1 .. b
      PROVE  /\ a + k \in DOMAIN Ordered /\ Ordered[a + k].part = "recent"
             /\ Ordered[a + k].at = Split + k
  <2>1. a + k \in 1 .. a + b /\ ~ (a + k <= a) /\ (a + k) - a = k
    BY <1>1, <1>2
  <2>2. Ordered[a + k] = Recent[k] /\ a + k \in DOMAIN Ordered
    BY <1>1, <1>2, <1>3, <1>5, <1>6, <2>1, SMTT(20)
  <2> QED BY <1>2, <2>2
<1>9. ASSUME NEW k \in 1 .. n
      PROVE  /\ a + b + k \in DOMAIN Ordered /\ Ordered[a + b + k].part = "older"
             /\ Ordered[a + b + k].at = Sorted[k]
  <2>1. a + b + k \in 1 .. a + b + n /\ ~ (a + b + k <= a + b) /\ (a + b + k) - (a + b) = k
    BY <1>1, <1>2, <1>3
  <2>2. Ordered[a + b + k] = RelevanceSlot[k] /\ a + b + k \in DOMAIN Ordered
    BY <1>6, <2>1
  <2> QED BY <1>3, <2>2
<1>10. \A k \in DOMAIN Ordered :
         \/ k \in 1 .. a
         \/ \E l \in 1 .. b : k = a + l
         \/ \E l \in 1 .. n : k = a + b + l
  <2> SUFFICES ASSUME NEW k \in 1 .. a + b + n
               PROVE  \/ k \in 1 .. a
                      \/ \E l \in 1 .. b : k = a + l
                      \/ \E l \in 1 .. n : k = a + b + l
    BY <1>6
  <2>1. CASE k <= a
    BY <1>1, <2>1
  <2>2. CASE a < k /\ k <= a + b
    <3>1. k - a \in 1 .. b /\ k = a + (k - a)
      BY <1>1, <1>2, <2>2
    <3> QED BY <3>1
  <2>3. CASE a + b < k
    <3>1. a \in Nat /\ b \in Nat /\ n \in Nat
      BY <1>1, <1>2, <1>3 DEF n
    <3>2. k - (a + b) \in 1 .. n /\ k = a + b + (k - (a + b))
      BY <2>3, <3>1
    <3> QED BY <3>2
  <2> QED BY <1>1, <1>2, <1>3, <2>1, <2>2, <2>3
<1>11. DOMAIN Sorted = 1 .. n /\ \A k \in 1 .. n : Sorted[k] \in 1 .. Split
  BY SortedFacts, OlderFacts DEF n
<1>12. Split \in Nat /\ DOMAIN stored = 1 .. Len(stored) /\ Len(stored) \in Nat
       /\ Split <= Len(stored)
  BY StoredFacts
<1>13. ASSUME NEW i \in DOMAIN stored, NEW k \in Copies(Ordered, i)
       PROVE  \/ i > Split /\ k = a + (i - Split)
              \/ i <= Split /\ \E l \in 1 .. n : k = a + b + l /\ Sorted[l] = i
  <2>1. k \in DOMAIN Ordered /\ Ordered[k].part \in {"recent", "older"} /\ Ordered[k].at = i
    BY DEF Copies
  <2>2. ~ (k \in 1 .. a)
    BY <1>7, <2>1
  <2>3. ASSUME NEW l \in 1 .. b, k = a + l
        PROVE  i > Split /\ k = a + (i - Split)
    <3>1. i = Split + l
      BY <1>8, <2>1, <2>3
    <3> QED BY <1>2, <1>12, <2>3, <3>1
  <2>4. ASSUME NEW l \in 1 .. n, k = a + b + l
        PROVE  i <= Split /\ Sorted[l] = i
    <3>1. Sorted[l] = i
      BY <1>9, <2>1, <2>4
    <3> QED BY <1>11, <1>12, <3>1
  <2> QED BY <1>10, <2>1, <2>2, <2>3, <2>4
<1>14. ASSUME NEW i \in DOMAIN stored, NEW k \in Copies(Ordered, i), NEW l \in Copies(Ordered, i)
       PROVE  k = l
  <2>1. CASE i > Split
    BY <1>12, <1>13, <2>1
  <2>2. CASE ~ (i > Split)
    <3>1. PICK p \in 1 .. n : k = a + b + p /\ Sorted[p] = i
      BY <1>13, <2>2
    <3>2. PICK q \in 1 .. n : l = a + b + q /\ Sorted[q] = i
      BY <1>13, <2>2
    <3>3. p = q
      BY <1>11, <3>1, <3>2, SortedFacts
    <3> QED BY <3>1, <3>2, <3>3
  <2> QED BY <2>1, <2>2
<1>15. ASSUME NEW i \in DOMAIN stored, stored[i].size # 0
       PROVE  Copies(Ordered, i) # {}
  <2>1. CASE i > Split
    <3>1. i - Split \in 1 .. b /\ Split + (i - Split) = i
      BY <1>2, <1>12, <2>1
    <3>2. a + (i - Split) \in Copies(Ordered, i)
      BY <1>8, <3>1 DEF Copies
    <3> QED BY <3>2
  <2>2. CASE ~ (i > Split)
    <3>1. i \in 1 .. Split /\ stored[i].size > 0
      <4>1. stored[i] \in [size : Sizes, score : Scores]
        BY StoredFacts
      <4>2. stored[i].size \in Nat
        BY <4>1, ConstantsAssumption
      <4> QED BY <1>12, <1>15, <2>2, <4>2
    <3>2. i \in Older
      BY <3>1, OlderFacts
    <3>3. PICK k \in 1 .. n : Sorted[k] = i
      BY <1>11, <3>2, SortedFacts
    <3>4. a + b + k \in Copies(Ordered, i)
      BY <1>9, <3>3 DEF Copies
    <3> QED BY <3>4
  <2> QED BY <2>1, <2>2
<1> QED BY <1>6, <1>14, <1>15

-----------------------------------------------------------------------------
(* The trim *)

\* The equation of the sum in Chars.
Sums(f, messages, n) ==
  f = [i \in 0 .. n |-> IF i = 0 THEN 0 ELSE f[i - 1] + messages[i].size]

LEMMA SumsExists ==
  ASSUME NEW messages, NEW n \in Nat
  PROVE  \E f : Sums(f, messages, n)
<1> DEFINE none == {m \in Nat : ~ \E f : Sums(f, messages, m)}
           m == Least(none)
<1> SUFFICES ASSUME none # {} PROVE FALSE
  OBVIOUS
<1>1. m \in none /\ \A k \in none : m <= k
  <2>1. none \subseteq Nat
    OBVIOUS
  <2> HIDE DEF none
  <2> QED BY <2>1, LeastExists
<1> HIDE DEF m
<1>2. CASE m = 0
  <2> DEFINE f == [i \in 0 .. 0 |-> 0]
  <2>1. f = [i \in 0 .. 0 |-> IF i = 0 THEN 0 ELSE f[i - 1] + messages[i].size]
    OBVIOUS
  <2>2. Sums(f, messages, m)
    BY <1>2, <2>1 DEF Sums
  <2> QED BY <1>1, <2>2
<1>3. CASE m # 0
  <2>1. m - 1 \in Nat /\ m - 1 < m /\ m \in Nat
    BY <1>1, <1>3
  <2>2. PICK g : Sums(g, messages, m - 1)
    BY <1>1, <2>1
  <2> DEFINE f == [i \in 0 .. m |-> IF i = m THEN g[m - 1] + messages[m].size ELSE g[i]]
  <2>3. \A i \in 0 .. m - 1 : g[i] = IF i = 0 THEN 0 ELSE g[i - 1] + messages[i].size
    BY <2>2, Zenon DEF Sums
  <2>4. ASSUME NEW i \in 0 .. m
        PROVE  f[i] = IF i = 0 THEN 0 ELSE f[i - 1] + messages[i].size
    <3>1. i # 0 => i - 1 \in 0 .. m /\ i - 1 # m /\ f[i - 1] = g[i - 1]
      BY <2>1
    <3>2. CASE i = m
      BY <1>3, <3>1, <3>2
    <3>3. CASE i # m
      <4>1. i \in 0 .. m - 1 /\ f[i] = g[i]
        BY <2>1, <3>3
      <4> QED BY <2>3, <3>1, <4>1
    <3> QED BY <3>2, <3>3
  <2>5. f = [i \in 0 .. m |-> f[i]]
    OBVIOUS
  <2> HIDE DEF f
  <2>6. Sums(f, messages, m)
    BY <2>4, <2>5 DEF Sums
  <2> QED BY <1>1, <2>6
<1> QED BY <1>2, <1>3

LEMMA CharsAreSum ==
  ASSUME NEW messages \in Seq(Messages)
  PROVE  \E f \in [0 .. Len(messages) -> Nat] :
           /\ Chars(messages) = f[Len(messages)]
           /\ f[0] = 0
           /\ \A i \in 1 .. Len(messages) : f[i] = f[i - 1] + messages[i].size
<1> DEFINE n == Len(messages)
           f == CHOOSE f : Sums(f, messages, n)
<1>1. n \in Nat /\ \A i \in 1 .. n : messages[i].size \in Nat
  <2>1. n \in Nat /\ messages \in [1 .. n -> Messages]
    BY LenProperties
  <2> QED BY <2>1, ConstantsAssumption DEF Messages
<1>2. Sums(f, messages, n)
  BY <1>1, SumsExists, Zenon
<1>3. Chars(messages) = f[n]
  BY Zenon DEF Chars, Sums
<1> HIDE DEF f
<1>4. f = [i \in 0 .. n |-> IF i = 0 THEN 0 ELSE f[i - 1] + messages[i].size]
  BY <1>2, Zenon DEF Sums
<1> HIDE DEF n
<1>5. \A i \in 0 .. n : f[i] = IF i = 0 THEN 0 ELSE f[i - 1] + messages[i].size
  BY <1>4, Zenon
<1>6. f[0] = 0 /\ \A i \in 1 .. n : f[i] = f[i - 1] + messages[i].size
  BY <1>1, <1>5
<1> DEFINE bad == {i \in 0 .. n : f[i] \notin Nat}
<1>7. bad = {}
  <2> SUFFICES ASSUME bad # {} PROVE FALSE
    OBVIOUS
  <2> DEFINE m == Least(bad)
  <2>1. m \in bad /\ \A k \in bad : m <= k
    <3>1. bad \subseteq Nat
      BY <1>1
    <3> HIDE DEF bad
    <3> QED BY <3>1, LeastExists
  <2> HIDE DEF m
  <2>2. m \in 0 .. n /\ m # 0
    BY <1>1, <1>6, <2>1
  <2>3. m \in 1 .. n /\ m - 1 \in 0 .. n /\ ~ (m <= m - 1)
    BY <1>1, <2>2
  <2>4. f[m - 1] \in Nat
    BY <2>1, <2>3
  <2>5. f[m] = f[m - 1] + messages[m].size
    BY <1>6, <2>3
  <2> QED BY <1>1, <2>1, <2>3, <2>4, <2>5
<1>8. f \in [0 .. n -> Nat]
  <2>1. \A i \in 0 .. n : f[i] \in Nat
    BY <1>7
  <2>2. DOMAIN f = 0 .. n /\ f = [i \in DOMAIN f |-> f[i]]
    BY <1>4, Zenon
  <2> QED BY <2>1, <2>2
<1> QED BY <1>3, <1>6, <1>8 DEF n

LEMMA CharsFacts ==
  ASSUME NEW messages \in Seq(Messages)
  PROVE  /\ Chars(messages) \in Nat
         /\ Len(messages) = 0 => Chars(messages) = 0
<1>1. PICK f \in [0 .. Len(messages) -> Nat] :
        Chars(messages) = f[Len(messages)] /\ f[0] = 0
  BY CharsAreSum
<1>2. Len(messages) \in 0 .. Len(messages)
  BY LenProperties
<1> QED BY <1>1, <1>2

LEMMA TokensFacts ==
  ASSUME NEW messages \in Seq(Messages)
  PROVE  /\ Tokens(messages) \in Int
         /\ Len(messages) = 0 => Tokens(messages) = 0
<1>1. CharsPerToken \in Nat \ {0}
  BY ConstantsAssumption
<1>2. \A c \in Nat : c \div CharsPerToken \in Int
  BY <1>1
<1>3. 0 \div CharsPerToken = 0
  BY <1>1
<1> QED BY <1>2, <1>3, CharsFacts DEF Tokens

LEMMA WithoutFacts ==
  ASSUME NEW messages \in Seq(Messages), NEW n \in 0 .. Len(messages)
  PROVE  /\ Without(messages, n) \in Seq(Messages)
         /\ Len(Without(messages, n)) = Len(messages) - n
         /\ \A i \in 1 .. Len(messages) - n : Without(messages, n)[i] = messages[n + i]
<1> DEFINE k == Len(messages)
           rest == SubSeq(messages, n + 1, k)
<1>1. k \in Nat /\ n \in Nat /\ n <= k /\ messages \in [1 .. k -> Messages]
  BY LenProperties
<1> HIDE DEF k
<1>2. \A i \in n + 1 .. k : messages[i] \in Messages
  BY <1>1
<1>3. /\ rest \in Seq(Messages)
      /\ Len(rest) = IF n + 1 <= k THEN k - (n + 1) + 1 ELSE 0
      /\ \A i \in 1 .. k - (n + 1) + 1 : rest[i] = messages[(n + 1) + i - 1]
  BY <1>1, <1>2, SubSeqProperties
<1>4. Len(rest) = k - n
  BY <1>1, <1>3
<1>5. \A i \in 1 .. k - n : rest[i] = messages[n + i]
  <2>1. \A i \in 1 .. k - n : i \in 1 .. k - (n + 1) + 1 /\ (n + 1) + i - 1 = n + i
    BY <1>1
  <2> QED BY <1>3, <2>1
<1>6. Without(messages, n) = rest
  BY DEF Without, k
<1> QED BY <1>3, <1>4, <1>5, <1>6 DEF k

\* What the loop counts down by when it drops the first message.
LEMMA ChopFirst ==
  ASSUME NEW messages \in Seq(Messages), Len(messages) > 0
  PROVE  Chars(messages) = messages[1].size + Chars(Without(messages, 1))
<1> DEFINE n == Len(messages)
           rest == Without(messages, 1)
<1>1. n \in Nat /\ n > 0 /\ messages \in [1 .. n -> Messages]
  BY LenProperties
<1>2. \A i \in 1 .. n : messages[i].size \in Nat
  BY <1>1, ConstantsAssumption DEF Messages
<1>3. rest \in Seq(Messages) /\ Len(rest) = n - 1 /\ \A i \in 1 .. n - 1 : rest[i] = messages[1 + i]
  <2>1. 1 \in 0 .. Len(messages)
    BY <1>1
  <2> QED BY <2>1, WithoutFacts
<1>4. PICK f \in [0 .. n -> Nat] :
        /\ Chars(messages) = f[n] /\ f[0] = 0
        /\ \A i \in 1 .. n : f[i] = f[i - 1] + messages[i].size
  BY CharsAreSum
<1>5. PICK g \in [0 .. n - 1 -> Nat] :
        /\ Chars(rest) = g[n - 1] /\ g[0] = 0
        /\ \A i \in 1 .. n - 1 : g[i] = g[i - 1] + rest[i].size
  <2> HIDE DEF rest
  <2>1. \E g \in [0 .. Len(rest) -> Nat] :
          /\ Chars(rest) = g[Len(rest)] /\ g[0] = 0
          /\ \A i \in 1 .. Len(rest) : g[i] = g[i - 1] + rest[i].size
    BY <1>3, CharsAreSum
  <2>2. Len(rest) = n - 1
    BY <1>3
  <2> HIDE DEF n
  <2> QED BY <2>1, <2>2
<1> HIDE DEF n, rest
<1> DEFINE bad == {k \in 0 .. n - 1 : f[k + 1] # messages[1].size + g[k]}
<1>6. bad = {}
  <2> SUFFICES ASSUME bad # {} PROVE FALSE
    OBVIOUS
  <2> DEFINE m == Least(bad)
  <2>1. m \in bad /\ \A k \in bad : m <= k
    <3>1. bad \subseteq Nat
      BY <1>1
    <3> HIDE DEF bad
    <3> QED BY <3>1, LeastExists
  <2> HIDE DEF m
  <2>2. m \in 0 .. n - 1 /\ f[m + 1] # messages[1].size + g[m]
    BY <2>1
  <2>3. m # 0
    <3>1. 1 \in 1 .. n /\ f[1] = f[1 - 1] + messages[1].size
      BY <1>1, <1>4
    <3> QED BY <1>1, <1>2, <1>4, <1>5, <2>2, <3>1
  <2>4. m \in 1 .. n - 1 /\ m - 1 \in 0 .. n - 1 /\ ~ (m <= m - 1) /\ m + 1 \in 1 .. n
    BY <1>1, <2>2, <2>3
  <2>5. f[(m - 1) + 1] = messages[1].size + g[m - 1]
    BY <2>1, <2>4
  <2>6. g[m] = g[m - 1] + messages[1 + m].size
    BY <1>3, <1>5, <2>4
  <2>7. f[m + 1] = f[(m + 1) - 1] + messages[m + 1].size
    BY <1>4, <2>4
  <2>8. (m + 1) - 1 = m /\ (m - 1) + 1 = m /\ 1 + m = m + 1
    BY <1>1, <2>4
  <2>9. g[m - 1] \in Nat /\ messages[1].size \in Nat /\ messages[m + 1].size \in Nat
    <3>1. 1 \in 1 .. n
      BY <1>1
    <3> QED BY <1>2, <1>5, <2>4, <3>1
  <2> QED BY <2>2, <2>5, <2>6, <2>7, <2>8, <2>9
<1>7. n - 1 \in 0 .. n - 1 /\ (n - 1) + 1 = n
  BY <1>1
<1>8. f[n] = messages[1].size + g[n - 1]
  BY <1>6, <1>7
<1> QED BY <1>4, <1>5, <1>8 DEF rest

\* One message less.
LEMMA DropOne ==
  ASSUME NEW messages \in Seq(Messages), NEW n \in Nat, n < Len(messages)
  PROVE  /\ Chars(Without(messages, n)) - messages[n + 1].size = Chars(Without(messages, n + 1))
         /\ messages[n + 1].size \in Nat
<1> DEFINE k == Len(messages)
           part == Without(messages, n)
           rest == Without(messages, n + 1)
<1>1. k \in Nat /\ n \in 0 .. k /\ n + 1 \in 0 .. k /\ n < k
  BY LenProperties
<1>2. part \in Seq(Messages) /\ Len(part) = k - n /\ \A i \in 1 .. k - n : part[i] = messages[n + i]
  BY <1>1, WithoutFacts
<1>3. /\ rest \in Seq(Messages) /\ Len(rest) = k - (n + 1)
      /\ \A i \in 1 .. k - (n + 1) : rest[i] = messages[(n + 1) + i]
  BY <1>1, WithoutFacts
<1> HIDE DEF k, part, rest
<1>4. Len(part) > 0 /\ 1 \in 0 .. Len(part)
  BY <1>1, <1>2
<1>5. /\ Without(part, 1) \in Seq(Messages) /\ Len(Without(part, 1)) = Len(part) - 1
      /\ \A i \in 1 .. Len(part) - 1 : Without(part, 1)[i] = part[1 + i]
  BY <1>2, <1>4, WithoutFacts
<1>6. Len(part) - 1 = k - (n + 1)
  BY <1>1, <1>2
<1>7. ASSUME NEW i \in 1 .. k - (n + 1)
      PROVE  Without(part, 1)[i] = rest[i]
  <2>1. 1 + i \in 1 .. k - n /\ n + (1 + i) = (n + 1) + i
    BY <1>1
  <2> QED BY <1>2, <1>3, <1>5, <1>6, <2>1
<1>8. Without(part, 1) = rest
  <2> DEFINE one == Without(part, 1)
  <2>1. one \in Seq(Messages) /\ Len(one) = Len(rest)
    BY <1>3, <1>5, <1>6
  <2>2. \A i \in 1 .. Len(one) : one[i] = rest[i]
    BY <1>3, <1>5, <1>6, <1>7
  <2> HIDE DEF one
  <2>3. one = rest
    BY <1>3, <2>1, <2>2, SeqEqual
  <2> QED BY <2>3 DEF one
<1>9. Chars(part) = part[1].size + Chars(rest)
  BY <1>2, <1>4, <1>8, ChopFirst
<1>10. part[1] = messages[n + 1]
  BY <1>1, <1>2
<1>11. Chars(part) \in Nat /\ Chars(rest) \in Nat
  BY <1>2, <1>3, CharsFacts
<1>12. messages[n + 1].size \in Nat
  <2>1. messages \in [1 .. k -> Messages] /\ n + 1 \in 1 .. k
    BY <1>1, LenProperties DEF k
  <2> QED BY <2>1, ConstantsAssumption DEF Messages
<1> QED BY <1>9, <1>10, <1>11, <1>12 DEF part, rest

\* A round of the loop, and its rounds.
Round(at, messages, limit) ==
  IF at.chars \div CharsPerToken > limit
  THEN [dropped |-> at.dropped + 1, chars |-> at.chars - messages[at.dropped + 1].size]
  ELSE at

Rounds(f, messages, limit, n) ==
  f = [k \in 0 .. n |-> IF k = 0 THEN [dropped |-> 0, chars |-> Chars(messages)]
                        ELSE Round(f[k - 1], messages, limit)]

LEMMA RoundsExist ==
  ASSUME NEW messages, NEW limit, NEW n \in Nat
  PROVE  \E f : Rounds(f, messages, limit, n)
<1> DEFINE none == {m \in Nat : ~ \E f : Rounds(f, messages, limit, m)}
           m == Least(none)
           first == [dropped |-> 0, chars |-> Chars(messages)]
<1> SUFFICES ASSUME none # {} PROVE FALSE
  OBVIOUS
<1>1. m \in none /\ \A k \in none : m <= k
  <2>1. none \subseteq Nat
    OBVIOUS
  <2> HIDE DEF none
  <2> QED BY <2>1, LeastExists
<1> HIDE DEF m
<1>2. CASE m = 0
  <2> DEFINE f == [k \in 0 .. 0 |-> first]
  <2> HIDE DEF first
  <2>1. f = [k \in 0 .. 0 |-> IF k = 0 THEN first ELSE Round(f[k - 1], messages, limit)]
    OBVIOUS
  <2>2. Rounds(f, messages, limit, m)
    BY <1>2, <2>1, Zenon DEF Rounds, first
  <2> QED BY <1>1, <2>2
<1>3. CASE m # 0
  <2>1. m - 1 \in Nat /\ m - 1 < m /\ m \in Nat
    BY <1>1, <1>3
  <2>2. PICK g : Rounds(g, messages, limit, m - 1)
    BY <1>1, <2>1
  <2> DEFINE f == [k \in 0 .. m |-> IF k = m THEN Round(g[m - 1], messages, limit) ELSE g[k]]
  <2>3. \A k \in 0 .. m - 1 :
          g[k] = IF k = 0 THEN first ELSE Round(g[k - 1], messages, limit)
    BY <2>2, Zenon DEF Rounds
  <2> HIDE DEF first
  <2>4. ASSUME NEW k \in 0 .. m
        PROVE  f[k] = IF k = 0 THEN first ELSE Round(f[k - 1], messages, limit)
    <3>1. k # 0 => k - 1 \in 0 .. m /\ k - 1 # m /\ f[k - 1] = g[k - 1]
      BY <2>1
    <3>2. CASE k = m
      BY <1>3, <3>1, <3>2
    <3>3. CASE k # m
      <4>1. k \in 0 .. m - 1 /\ f[k] = g[k]
        BY <2>1, <3>3
      <4> QED BY <2>3, <3>1, <4>1
    <3> QED BY <3>2, <3>3
  <2>5. f = [k \in 0 .. m |-> f[k]]
    OBVIOUS
  <2> HIDE DEF f
  <2>6. f = [k \in 0 .. m |-> IF k = 0 THEN first ELSE Round(f[k - 1], messages, limit)]
    BY <2>4, <2>5
  <2>7. Rounds(f, messages, limit, m)
    BY <2>6, Zenon DEF Rounds, first
  <2> QED BY <1>1, <2>7
<1> QED BY <1>2, <1>3

\* What holds after k rounds: the characters counted down are those of the rest,
\* only what was too long has lost a message, and the loop goes on or has ended.
LoopInv(at, k, messages, limit) ==
  /\ at.dropped \in 0 .. k
  /\ at.chars = Chars(Without(messages, at.dropped))
  /\ \A j \in 0 .. at.dropped - 1 : Tokens(Without(messages, j)) > limit
  /\ at.dropped = k \/ ~ (at.chars \div CharsPerToken > limit)

LEMMA RoundKeepsInv ==
  ASSUME NEW messages \in Seq(Messages), NEW limit \in Int,
         NEW k \in Nat, k < Len(messages), NEW at, LoopInv(at, k, messages, limit)
  PROVE  LoopInv(Round(at, messages, limit), k + 1, messages, limit)
<1> DEFINE d == at.dropped
<1>1. d \in 0 .. k /\ d \in Nat /\ Len(messages) \in Nat
  BY LenProperties DEF LoopInv
<1>2. CASE ~ (at.chars \div CharsPerToken > limit)
  BY <1>1, <1>2 DEF LoopInv, Round
<1>3. CASE at.chars \div CharsPerToken > limit
  <2> DEFINE next == [dropped |-> d + 1, chars |-> at.chars - messages[d + 1].size]
  <2>1. d = k /\ at.chars = Chars(Without(messages, d))
    BY <1>3 DEF LoopInv
  <2>2. Round(at, messages, limit) = next
    BY <1>3 DEF Round
  <2>3. next.dropped = d + 1 /\ next.chars = Chars(Without(messages, d + 1))
    BY <1>1, <2>1, DropOne
  <2>4. Tokens(Without(messages, d)) > limit
    BY <1>3, <2>1 DEF Tokens
  <2>5. \A j \in 0 .. d : Tokens(Without(messages, j)) > limit
    <3>1. \A j \in 0 .. d : j = d \/ j \in 0 .. d - 1
      BY <1>1
    <3> QED BY <2>4, <3>1 DEF LoopInv
  <2> HIDE DEF next, d
  <2>6. next.dropped - 1 = d /\ next.dropped = k + 1 /\ next.dropped \in 0 .. k + 1
    BY <1>1, <2>1, <2>3
  <2>7. LoopInv(next, k + 1, messages, limit)
    BY <2>3, <2>5, <2>6 DEF LoopInv
  <2> QED BY <2>2, <2>7
<1> QED BY <1>2, <1>3

LEMMA LoopFacts ==
  ASSUME NEW messages \in Seq(Messages), NEW limit \in Int
  PROVE  LoopInv(Loop(messages, limit), Len(messages), messages, limit)
<1> DEFINE n == Len(messages)
           f == CHOOSE f : Rounds(f, messages, limit, n)
           first == [dropped |-> 0, chars |-> Chars(messages)]
<1>1. n \in Nat
  BY LenProperties
<1>2. Rounds(f, messages, limit, n)
  BY <1>1, RoundsExist, Zenon
<1>3. Loop(messages, limit) = f[n]
  BY Zenon DEF Loop, Rounds, Round
<1> HIDE DEF f, n
<1>4. \A k \in 0 .. n : f[k] = IF k = 0 THEN first ELSE Round(f[k - 1], messages, limit)
  BY <1>2, Zenon DEF Rounds
<1>5. LoopInv(first, 0, messages, limit)
  <2>1. Without(messages, 0) = messages
    <3> DEFINE all == Without(messages, 0)
    <3>1. /\ all \in Seq(Messages) /\ Len(all) = n - 0
          /\ \A i \in 1 .. n - 0 : all[i] = messages[0 + i]
      BY <1>1, WithoutFacts DEF n
    <3>2. Len(all) = Len(messages) /\ \A i \in 1 .. Len(all) : all[i] = messages[i]
      BY <1>1, <3>1 DEF n
    <3> HIDE DEF all
    <3>3. all = messages
      BY <3>1, <3>2, SeqEqual
    <3> QED BY <3>3 DEF all
  <2> QED BY <2>1 DEF LoopInv
<1> HIDE DEF first
<1> DEFINE bad == {k \in 0 .. n : ~ LoopInv(f[k], k, messages, limit)}
<1>6. bad = {}
  <2> SUFFICES ASSUME bad # {} PROVE FALSE
    OBVIOUS
  <2> DEFINE m == Least(bad)
  <2>1. m \in bad /\ \A k \in bad : m <= k
    <3>1. bad \subseteq Nat
      BY <1>1
    <3> HIDE DEF bad
    <3> QED BY <3>1, LeastExists
  <2> HIDE DEF m
  <2>2. m \in 0 .. n /\ m # 0
    BY <1>1, <1>4, <1>5, <2>1
  <2>3. m - 1 \in 0 .. n /\ ~ (m <= m - 1) /\ m - 1 \in Nat /\ m - 1 < Len(messages)
        /\ (m - 1) + 1 = m
    BY <1>1, <2>2 DEF n
  <2>4. LoopInv(f[m - 1], m - 1, messages, limit)
    BY <2>1, <2>3
  <2>5. f[m] = Round(f[m - 1], messages, limit)
    BY <1>4, <2>2
  <2>6. LoopInv(Round(f[m - 1], messages, limit), (m - 1) + 1, messages, limit)
    BY <2>3, <2>4, RoundKeepsInv
  <2> QED BY <2>1, <2>3, <2>5, <2>6
<1>7. n \in 0 .. n
  BY <1>1
<1> QED BY <1>3, <1>6, <1>7 DEF n

\* So the trim drops the fewest messages from the start with which the rest fits.
LEMMA TrimFacts ==
  ASSUME NEW messages \in Seq(Messages), NEW limit \in Int, limit > 0
  PROVE  \E n \in 0 .. Len(messages) :
           /\ Trim(messages, limit) = Without(messages, n)
           /\ Tokens(Without(messages, n)) <= limit
           /\ \A m \in 0 .. n - 1 : Tokens(Without(messages, m)) > limit
<1> DEFINE n == Loop(messages, limit).dropped
           k == Len(messages)
<1>1. LoopInv(Loop(messages, limit), k, messages, limit)
  BY LoopFacts
<1>2. /\ n \in 0 .. k /\ \A m \in 0 .. n - 1 : Tokens(Without(messages, m)) > limit
      /\ n = k \/ ~ (Tokens(Without(messages, n)) > limit)
  BY <1>1 DEF LoopInv, Tokens
<1>3. Trim(messages, limit) = Without(messages, n)
  BY DEF Trim
<1> HIDE DEF n, k
<1>4. k \in Nat
  BY LenProperties DEF k
<1>5. /\ Tokens(Without(messages, n)) \in Int
      /\ n = k => Tokens(Without(messages, n)) = 0
  <2>1. Without(messages, n) \in Seq(Messages) /\ Len(Without(messages, n)) = k - n
    BY <1>2, WithoutFacts DEF k
  <2> QED BY <1>4, <2>1, TokensFacts
<1>6. Tokens(Without(messages, n)) <= limit
  BY <1>2, <1>5
<1> QED BY <1>2, <1>3, <1>6 DEF k

-----------------------------------------------------------------------------
(* The commands *)

\* A context that was sent or shown is the trim of the messages in order.
IsContext(answer) ==
  answer.kind = "context" =>
    /\ answer.messages = Trim(Ordered, EffectiveLimit)
    /\ ~ LimitTooSmall

\* Other answers have no message, or all that are stored.
IsOther(answer) ==
  /\ answer.kind \in {"none", "context", "fallback", "error"}
  /\ answer.kind \in {"none", "error"} => answer.messages = <<>>
  /\ answer.kind = "fallback" => answer.messages = AllStored
  /\ answer.tools \subseteq Tools \cup {Help}

\* The inductive invariant.
AnswerInv ==
  InputsInv /\ \A answer \in {sent, shown} : IsContext(answer) /\ IsOther(answer)

LEMMA InputsKept ==
  ASSUME UNCHANGED inputs
  PROVE  /\ Ordered' = Ordered /\ EffectiveLimit' = EffectiveLimit
         /\ LimitTooSmall' = LimitTooSmall /\ AllStored' = AllStored
         /\ InputsInv' = InputsInv
<1>1. UNCHANGED <<session, stored, lastN, maxTokens, offered, fileTools>>
  BY DEF inputs
<1>2. AllStored' = AllStored /\ Older' = Older
  BY <1>1 DEF AllStored, Older
<1>3. Recent' = Recent
  BY <1>1, <1>2 DEF Recent
<1>4. Sorted' = Sorted
  BY <1>1, <1>2 DEF Sorted
<1>5. RelevanceSlot' = RelevanceSlot
  BY <1>1, <1>4 DEF RelevanceSlot
<1>6. Ordered' = Ordered
  BY <1>1, <1>3, <1>5 DEF Ordered
<1>7. EffectiveLimit' = EffectiveLimit
  BY <1>1 DEF EffectiveLimit
<1> QED BY <1>1, <1>2, <1>6, <1>7 DEF LimitTooSmall, InputsInv

LEMMA NoneIsAnswer == IsContext(None) /\ IsOther(None)
BY DEF IsContext, IsOther, None

LEMMA NextAnswerInv == AnswerInv /\ [Next]_vars => AnswerInv'
<1> SUFFICES ASSUME AnswerInv, [Next]_vars PROVE AnswerInv'
  OBVIOUS
<1>1. UNCHANGED inputs
  BY DEF Next, Chat, GetModelContext, vars, inputs
<1>2. /\ Ordered' = Ordered /\ EffectiveLimit' = EffectiveLimit
      /\ LimitTooSmall' = LimitTooSmall /\ AllStored' = AllStored
      /\ InputsInv'
  BY <1>1, InputsKept DEF AnswerInv
<1>3. offered \subseteq Tools /\ fileTools \subseteq Tools
  BY DEF AnswerInv, InputsInv
<1> DEFINE Fine(answer) ==
      /\ answer.kind = "context" => answer.messages = Trim(Ordered, EffectiveLimit)
                                    /\ ~ LimitTooSmall
      /\ IsOther(answer)
<1>4. Fine(sent) /\ Fine(shown)
  BY DEF AnswerInv, IsContext
<1>5. ASSUME Chat PROVE Fine(sent')
  <2>1. sent' = [kind |-> IF LimitTooSmall THEN "fallback" ELSE "context",
                 messages |-> IF LimitTooSmall THEN AllStored
                              ELSE Trim(Ordered, EffectiveLimit),
                 tools |-> offered \cup {Help}]
    BY <1>5 DEF Chat
  <2>2. CASE LimitTooSmall
    BY <1>3, <2>1, <2>2 DEF IsOther
  <2>3. CASE ~ LimitTooSmall
    BY <1>3, <2>1, <2>3 DEF IsOther
  <2> QED BY <2>2, <2>3
<1>6. ASSUME GetModelContext PROVE Fine(shown')
  <2>1. CASE LimitTooSmall
    <3>1. shown' = [None EXCEPT !.kind = "error"]
      BY <1>6, <2>1 DEF GetModelContext
    <3> QED BY <3>1 DEF None, IsOther
  <2>2. CASE ~ LimitTooSmall
    <3>1. shown' = [kind |-> "context", messages |-> Trim(Ordered, EffectiveLimit),
                    tools |-> {Help} \cup IF offered # {} THEN offered ELSE fileTools]
      BY <1>6, <2>2 DEF GetModelContext
    <3> QED BY <1>3, <2>2, <3>1 DEF IsOther
  <2> QED BY <2>1, <2>2
<1>7. Fine(sent') /\ Fine(shown')
  <2>1. CASE Chat
    BY <1>4, <1>5, <2>1 DEF Chat
  <2>2. CASE GetModelContext
    BY <1>4, <1>6, <2>2 DEF GetModelContext
  <2>3. CASE UNCHANGED vars
    BY <1>4, <2>3 DEF vars
  <2> QED BY <2>1, <2>2, <2>3 DEF Next
<1>8. \A answer \in {sent', shown'} :
        /\ answer.kind = "context" => answer.messages = Trim(Ordered', EffectiveLimit')
                                      /\ ~ LimitTooSmall'
        /\ /\ answer.kind \in {"none", "context", "fallback", "error"}
           /\ answer.kind \in {"none", "error"} => answer.messages = <<>>
           /\ answer.kind = "fallback" => answer.messages = AllStored'
           /\ answer.tools \subseteq Tools \cup {Help}
  BY <1>2, <1>7 DEF IsOther
<1> QED BY <1>2, <1>8 DEF AnswerInv, IsContext, IsOther

LEMMA AnswerInvariant == Spec => []AnswerInv
<1>1. Init => AnswerInv
  BY InitInputs, NoneIsAnswer DEF Init, AnswerInv
<1> QED BY <1>1, NextAnswerInv, PTL DEF Spec

\* The context, as a suffix of the messages in order.
LEMMA ContextIsSuffix ==
  ASSUME AnswerInv, NEW answer \in {sent, shown}, answer.kind = "context"
  PROVE  /\ Ordered \in Seq(Messages)
         /\ EffectiveLimit \in Int
         /\ \E n \in 0 .. Len(Ordered) :
              /\ answer.messages = Without(Ordered, n)
              /\ Tokens(Without(Ordered, n)) <= EffectiveLimit
              /\ \A m \in 0 .. n - 1 : Tokens(Without(Ordered, m)) > EffectiveLimit
<1>1. Ordered \in Seq(Messages)
  BY OrderedFacts DEF AnswerInv
<1>2. EffectiveLimit \in Int /\ EffectiveLimit > 0
  BY DEF AnswerInv, InputsInv, EffectiveLimit
<1>3. answer.messages = Trim(Ordered, EffectiveLimit)
  BY DEF AnswerInv, IsContext
<1>4. \E n \in 0 .. Len(Ordered) :
        /\ Trim(Ordered, EffectiveLimit) = Without(Ordered, n)
        /\ Tokens(Without(Ordered, n)) <= EffectiveLimit
        /\ \A m \in 0 .. n - 1 : Tokens(Without(Ordered, m)) > EffectiveLimit
  BY <1>1, <1>2, TrimFacts
<1> QED BY <1>1, <1>2, <1>3, <1>4

-----------------------------------------------------------------------------
(* The theorems *)

\* Every answer has messages of the request's segments, and tools that are known.
THEOREM TypeCorrect == Spec => []TypeOK
<1>1. AnswerInv => TypeOK
  <2> SUFFICES ASSUME AnswerInv, NEW answer \in {sent, shown}
               PROVE  \A i \in DOMAIN answer.messages : answer.messages[i] \in Messages
    <3>1. {Parts[p] : p \in DOMAIN Parts} = {"standard", "rule", "recent", "older"}
      <4>1. DOMAIN Parts = {1, 2, 3, 4}
        BY DEF Parts
      <4> QED BY <4>1 DEF Parts
    <3>2. \A m \in Messages : /\ m.part \in {Parts[p] : p \in DOMAIN Parts}
                              /\ m.at \in Nat \ {0} /\ m.size \in Sizes
      BY <3>1 DEF Messages
    <3> QED BY <3>2 DEF TypeOK, AnswerInv, IsOther
  <2> DEFINE msgs == answer.messages
  <2>1. CASE answer.kind = "context"
    <3>1. PICK n \in 0 .. Len(Ordered) : msgs = Without(Ordered, n)
      BY <2>1, ContextIsSuffix
    <3>2. msgs \in Seq(Messages)
      BY <2>1, <3>1, ContextIsSuffix, WithoutFacts
    <3> HIDE DEF msgs
    <3>3. \A i \in DOMAIN msgs : msgs[i] \in Messages
      BY <3>2, LenProperties
    <3> QED BY <3>3 DEF msgs
  <2>2. CASE answer.kind = "fallback"
    <3>1. msgs = AllStored
      BY <2>2 DEF AnswerInv, IsOther
    <3>2. /\ stored \in [1 .. Len(stored) -> [size : Sizes, score : Scores]]
          /\ DOMAIN stored = 1 .. Len(stored) /\ Len(stored) \in Nat
      BY LenProperties DEF AnswerInv, InputsInv
    <3>3. \A i \in DOMAIN AllStored : AllStored[i] \in Messages
      BY <3>2 DEF AllStored, Message, Messages
    <3> QED BY <3>1, <3>3
  <2>3. CASE answer.kind \in {"none", "error"}
    <3>1. msgs = <<>>
      BY <2>3 DEF AnswerInv, IsOther
    <3>2. <<>> \in Seq(Messages) /\ Len(<<>>) = 0
      BY EmptySeq
    <3>3. DOMAIN <<>> = 1 .. 0
      BY <3>2, LenProperties
    <3> QED BY <3>1, <3>3
  <2> QED BY <2>1, <2>2, <2>3 DEF AnswerInv, IsOther
<1> QED BY <1>1, AnswerInvariant, PTL

\* The loop of trim_messages_to_token_limit, which counts the characters down,
\* leaves a context that keeps to the limit, and gives no message up that still
\* had room.
THEOREM TrimFillsLimit == Spec => []FillsLimit
<1>1. AnswerInv => FillsLimit
  <2> SUFFICES ASSUME AnswerInv, NEW answer \in {sent, shown}, answer.kind = "context"
               PROVE  /\ Tokens(answer.messages) <= EffectiveLimit
                      /\ Len(Ordered) - Len(answer.messages) > 0 =>
                           Tokens(Without(Ordered, Len(Ordered) - Len(answer.messages) - 1))
                             > EffectiveLimit
    BY DEF FillsLimit
  <2>1. PICK n \in 0 .. Len(Ordered) :
          /\ answer.messages = Without(Ordered, n)
          /\ Tokens(Without(Ordered, n)) <= EffectiveLimit
          /\ \A m \in 0 .. n - 1 : Tokens(Without(Ordered, m)) > EffectiveLimit
    BY ContextIsSuffix
  <2>2. Ordered \in Seq(Messages) /\ Len(Ordered) \in Nat
    BY ContextIsSuffix, LenProperties
  <2>3. Len(Without(Ordered, n)) = Len(Ordered) - n
    BY <2>2, WithoutFacts
  <2>4. Len(Ordered) - Len(answer.messages) = n
    BY <2>1, <2>2, <2>3
  <2>5. n > 0 => n - 1 \in 0 .. n - 1
    BY <2>2
  <2> QED BY <2>1, <2>4, <2>5
<1> QED BY <1>1, AnswerInvariant, PTL

\* A context, or the history that is sent instead, has no stored message twice,
\* and misses one with a body only if all of them would have been too long.
THEOREM HistoryIsOnce == Spec => []HistoryOnce
<1>1. AnswerInv => HistoryOnce
  <2> SUFFICES ASSUME AnswerInv, NEW answer \in {sent, shown}, NEW i \in DOMAIN stored,
                      answer.kind \in {"context", "fallback"}
               PROVE  /\ \A k, l \in Copies(answer.messages, i) : k = l
                      /\ Copies(answer.messages, i) = {} =>
                           \/ stored[i].size = 0
                           \/ answer.kind = "context" /\ Tokens(Ordered) > EffectiveLimit
    BY Zenon DEF HistoryOnce, Copies
  <2> DEFINE msgs == answer.messages
  <2>1. InputsInv
    BY DEF AnswerInv
  <2>2. CASE answer.kind = "context"
    <3>1. PICK n \in 0 .. Len(Ordered) :
            /\ msgs = Without(Ordered, n)
            /\ \A m \in 0 .. n - 1 : Tokens(Without(Ordered, m)) > EffectiveLimit
      BY <2>2, ContextIsSuffix
    <3> HIDE DEF msgs
    <3>2. /\ Ordered \in Seq(Messages) /\ Len(Ordered) \in Nat
          /\ DOMAIN Ordered = 1 .. Len(Ordered)
      BY <2>1, OrderedFacts, LenProperties
    <3>3. /\ msgs \in Seq(Messages) /\ Len(msgs) = Len(Ordered) - n
          /\ \A k \in 1 .. Len(Ordered) - n : msgs[k] = Ordered[n + k]
      BY <3>1, <3>2, WithoutFacts
    <3>4. DOMAIN msgs = 1 .. Len(Ordered) - n
      BY <3>3, LenProperties
    <3>5. ASSUME NEW k \in Copies(msgs, i)
          PROVE  n + k \in Copies(Ordered, i) /\ k \in Nat
      <4>1. k \in 1 .. Len(Ordered) - n /\ n + k \in DOMAIN Ordered
        BY <3>2, <3>4 DEF Copies
      <4> QED BY <3>3, <4>1 DEF Copies
    <3>6. ASSUME NEW k \in Copies(msgs, i), NEW l \in Copies(msgs, i)
          PROVE  k = l
      <4>1. n + k = n + l
        BY <2>1, <3>5, OrderedFacts
      <4> QED BY <3>5, <4>1
    <3>7. ASSUME Copies(msgs, i) = {}, stored[i].size # 0
          PROVE  Tokens(Ordered) > EffectiveLimit
      <4>1. Without(Ordered, 0) = Ordered
        BY <3>2, SubSeqFull DEF Without
      <4>2. n # 0
        <5>1. Copies(Ordered, i) # {}
          BY <2>1, <3>7, OrderedFacts
        <5> QED BY <3>1, <3>7, <4>1, <5>1
      <4>3. 0 \in 0 .. n - 1
        BY <3>2, <4>2
      <4> QED BY <3>1, <4>1, <4>3
    <3> QED BY <2>2, <3>6, <3>7 DEF msgs
  <2>3. CASE answer.kind = "fallback"
    <3>1. msgs = AllStored
      BY <2>3 DEF AnswerInv, IsOther
    <3>2. DOMAIN AllStored = DOMAIN stored
      BY DEF AllStored
    <3>3. \A k \in DOMAIN stored : AllStored[k].part = "recent" /\ AllStored[k].at = k
      BY DEF AllStored, Message
    <3>4. Copies(msgs, i) = {i}
      BY <3>1, <3>2, <3>3 DEF Copies
    <3> QED BY <3>4
  <2> QED BY <2>2, <2>3
<1> QED BY <1>1, AnswerInvariant, PTL
=============================================================================
