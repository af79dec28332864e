-------------------------- MODULE ChatSession_proofs --------------------------
(***************************************************************************)
(* Proofs about ChatSession, for any set of chats and of external          *)
(* messages: a reply is recorded with its turn, a chat that failed has     *)
(* stored nothing, turns are listed together, and the context is complete. *)
(***************************************************************************)
EXTENDS ChatSession, TLAPS, WellFoundedInduction, SequenceTheorems, FiniteSetTheorems

Sources == {"user", "model", "external_agent"}

\* The places of a chat, and which messages of its turn are stored there.
StoredAt ==
  \A c \in Chats :
    /\ pc[c] \in {"idle", "older", "flow"} => ~ Stored(c, "user") /\ ~ Stored(c, "model")
    /\ pc[c] \in {"writing", "replying"} => Stored(c, "user")
    /\ pc[c] = "replying" => Stored(c, "model")
    /\ pc[c] # "done" => outcome[c] = "none"

\* The inductive invariant of both theorems.
TurnInv ==
  /\ pc \in [Chats -> {"idle", "older", "flow", "writing", "replying", "done"}]
  /\ outcome \in [Chats -> Outcomes]
  /\ StoredAt
  /\ ReplyRecorded
  /\ UnansweredNotStored

USE DEF Outcomes

-----------------------------------------------------------------------------
(* Writes *)

\* A write adds the message that it writes, and no other.
LEMMA WriteAdds ==
  ASSUME NEW turn, NEW source, NEW at,
         store' = store \cup {Record(turn, source, at)},
         NEW t, NEW s
  PROVE  Stored(t, s)' <=> Stored(t, s) \/ (t = turn /\ s = source)
<1>1. Key(Record(turn, source, at)) = <<turn, source>>
  BY DEF Key, Record
<1>2. (\E r \in store' : Key(r) = <<t, s>>)
      <=> (\E r \in store : Key(r) = <<t, s>>) \/ <<turn, source>> = <<t, s>>
  BY <1>1, Zenon
<1>. QED  BY <1>2 DEF Stored

LEMMA NoWrite ==
  ASSUME store' = store, NEW t, NEW s
  PROVE  Stored(t, s)' <=> Stored(t, s)
BY DEF Stored

-----------------------------------------------------------------------------
(* The steps *)

LEMMA InitTurnInv == Init => TurnInv
BY DEF Init, TurnInv, StoredAt, ReplyRecorded, UnansweredNotStored, Stored

\* A chat that ends without a write: only its place and its outcome change.
LEMMA EndKeeps ==
  ASSUME TurnInv, NEW c \in Chats, NEW how \in Outcomes \ {"none", "reply"},
         End(c, how), store' = store,
         pc[c] = "writing" => how \notin {"error", "timeout"},
         pc[c] \notin {"replying", "done"}
  PROVE  TurnInv'
<1>1. pc' = [pc EXCEPT ![c] = "done"] /\ outcome' = [outcome EXCEPT ![c] = how]
  BY DEF End, Goto
<1>2. \A t, s : Stored(t, s)' <=> Stored(t, s)
  BY NoWrite
<1>3. pc' \in [Chats -> {"idle", "older", "flow", "writing", "replying", "done"}]
      /\ outcome' \in [Chats -> Outcomes]
  BY <1>1 DEF TurnInv
<1>4. StoredAt'
  BY <1>1, <1>2 DEF TurnInv, StoredAt
<1>5. ReplyRecorded'
  BY <1>1, <1>2 DEF TurnInv, ReplyRecorded
<1>6. UnansweredNotStored'
  BY <1>1, <1>2 DEF TurnInv, UnansweredNotStored, StoredAt
<1>. QED  BY <1>3, <1>4, <1>5, <1>6 DEF TurnInv

\* A chat that goes on with nothing written.
LEMMA MoveKeeps ==
  ASSUME TurnInv, NEW c \in Chats, NEW where \in {"older", "flow"},
         pc[c] \in {"idle", "older"}, Goto(c, where),
         UNCHANGED <<store, outcome>>
  PROVE  TurnInv'
<1>1. pc' = [pc EXCEPT ![c] = where]
  BY DEF Goto
<1>2. \A t, s : Stored(t, s)' <=> Stored(t, s)
  BY NoWrite
<1>. QED
  BY <1>1, <1>2 DEF TurnInv, StoredAt, ReplyRecorded, UnansweredNotStored

\* A write, whether it returns or raises.
LEMMA StoreUserKeeps ==
  ASSUME TurnInv, NEW c \in Chats, pc[c] = "flow", StoreUser(c),
         \/ Goto(c, "writing") /\ UNCHANGED outcome
         \/ End(c, "persist_failed")
  PROVE  TurnInv'
<1>1. \/ pc' = [pc EXCEPT ![c] = "writing"] /\ outcome' = outcome
      \/ pc' = [pc EXCEPT ![c] = "done"] /\ outcome' = [outcome EXCEPT ![c] = "persist_failed"]
  BY DEF End, Goto
<1>2. \A t, s : Stored(t, s)' <=> Stored(t, s) \/ (t = c /\ s = "user")
  BY WriteAdds DEF StoreUser
<1>. QED
  BY <1>1, <1>2 DEF TurnInv, StoredAt, ReplyRecorded, UnansweredNotStored

LEMMA StoreReplyKeeps ==
  ASSUME TurnInv, NEW c \in Chats, pc[c] = "writing", StoreReply(c),
         \/ Goto(c, "replying") /\ UNCHANGED outcome
         \/ End(c, "persist_failed")
  PROVE  TurnInv'
<1>1. \/ pc' = [pc EXCEPT ![c] = "replying"] /\ outcome' = outcome
      \/ pc' = [pc EXCEPT ![c] = "done"] /\ outcome' = [outcome EXCEPT ![c] = "persist_failed"]
  BY DEF End, Goto
<1>2. \A t, s : Stored(t, s)' <=> Stored(t, s) \/ (t = c /\ s = "model")
  BY WriteAdds DEF StoreReply
<1>. QED
  BY <1>1, <1>2 DEF TurnInv, StoredAt, ReplyRecorded, UnansweredNotStored

LEMMA ReplyKeeps ==
  ASSUME TurnInv, NEW c \in Chats, Reply(c)
  PROVE  TurnInv'
<1>1. /\ pc' = [pc EXCEPT ![c] = "done"]
      /\ outcome' = [outcome EXCEPT ![c] = "reply"]
      /\ pc[c] = "replying"
  BY DEF Reply, End, Goto
<1>2. \A t, s : Stored(t, s)' <=> Stored(t, s)
  BY NoWrite DEF Reply
<1>. QED
  BY <1>1, <1>2 DEF TurnInv, StoredAt, ReplyRecorded, UnansweredNotStored

\* The database server's messages are of no chat's turn.
LEMMA ExternalWriteKeeps ==
  ASSUME TurnInv, NEW m \in External, ExternalWrite(m)
  PROVE  TurnInv'
<1>1. pc' = pc /\ outcome' = outcome
  BY DEF ExternalWrite
<1>2. \A t, s : Stored(t, s)' <=> Stored(t, s) \/ (t = m /\ s = "external_agent")
  BY WriteAdds DEF ExternalWrite
<1>. QED
  BY <1>1, <1>2 DEF TurnInv, StoredAt, ReplyRecorded, UnansweredNotStored

LEMMA CrashKeeps ==
  ASSUME TurnInv, Crash
  PROVE  TurnInv'
<1>1. \A t, s : Stored(t, s)' <=> Stored(t, s)
  BY NoWrite DEF Crash
<1>2. pc' \in [Chats -> {"idle", "older", "flow", "writing", "replying", "done"}]
      /\ outcome' \in [Chats -> Outcomes]
  BY DEF Crash, TurnInv
<1>3. ASSUME NEW c \in Chats
      PROVE  \/ pc'[c] = pc[c] /\ outcome'[c] = outcome[c]
             \/ pc'[c] = "done" /\ outcome'[c] = "crashed"
  BY DEF Crash
<1>. QED
  BY <1>1, <1>2, <1>3 DEF TurnInv, StoredAt, ReplyRecorded, UnansweredNotStored

LEMMA StutterKeeps == ASSUME TurnInv, UNCHANGED vars PROVE TurnInv'
BY DEF TurnInv, StoredAt, ReplyRecorded, UnansweredNotStored, Stored, vars

LEMMA NextTurnInv == TurnInv /\ [Next]_vars => TurnInv'
<1>. SUFFICES ASSUME TurnInv, [Next]_vars PROVE TurnInv'
  OBVIOUS
<1>1. ASSUME NEW c \in Chats, ReadRecent(c) PROVE TurnInv'
  BY <1>1, MoveKeeps DEF ReadRecent
<1>2. ASSUME NEW c \in Chats, ReadOlder(c) PROVE TurnInv'
  BY <1>2, MoveKeeps DEF ReadOlder
<1>3. ASSUME NEW c \in Chats, ReadAll(c) PROVE TurnInv'
  BY <1>3, MoveKeeps DEF ReadAll
<1>4. ASSUME NEW c \in Chats, ReadFails(c) PROVE TurnInv'
  BY <1>4, EndKeeps DEF ReadFails
<1>5. ASSUME NEW c \in Chats, FlowFails(c) PROVE TurnInv'
  BY <1>5, EndKeeps DEF FlowFails
<1>6. ASSUME NEW c \in Chats, Timeout(c) PROVE TurnInv'
  BY <1>6, EndKeeps DEF Timeout
<1>7. ASSUME NEW c \in Chats, WriteUser(c) \/ WriteUserFails(c) PROVE TurnInv'
  <2>1. CASE StoreUser(c)
    BY <1>7, <2>1, StoreUserKeeps DEF WriteUser, WriteUserFails
  <2>2. CASE WriteUserFails(c) /\ UNCHANGED store
    BY <2>2, EndKeeps DEF WriteUserFails
  <2>. QED  BY <1>7, <2>1, <2>2 DEF WriteUser, WriteUserFails
<1>8. ASSUME NEW c \in Chats, WriteReply(c) \/ WriteReplyFails(c) PROVE TurnInv'
  <2>1. CASE StoreReply(c)
    BY <1>8, <2>1, StoreReplyKeeps DEF WriteReply, WriteReplyFails
  <2>2. CASE WriteReplyFails(c) /\ UNCHANGED store
    BY <2>2, EndKeeps DEF WriteReplyFails
  <2>. QED  BY <1>8, <2>1, <2>2 DEF WriteReply, WriteReplyFails
<1>. QED
  BY <1>1, <1>2, <1>3, <1>4, <1>5, <1>6, <1>7, <1>8, ReplyKeeps,
     ExternalWriteKeeps, CrashKeeps, StutterKeeps DEF Next

LEMMA TurnInvariant == Spec => []TurnInv
BY InitTurnInv, NextTurnInv, PTL DEF Spec

-----------------------------------------------------------------------------
(* The theorems *)

\* A caller that got its reply finds the turn in the store, and no reply is
\* stored without the message it answers, however many chats overlap.
THEOREM ReplyIsRecorded == Spec => []ReplyRecorded
<1>1. TurnInv => ReplyRecorded
  BY DEF TurnInv
<1>. QED  BY <1>1, TurnInvariant, PTL

\* A chat that ended with an error or by the timer has stored nothing.
THEOREM UnansweredIsNotStored == Spec => []UnansweredNotStored
<1>1. TurnInv => UnansweredNotStored
  BY DEF TurnInv
<1>. QED  BY <1>1, TurnInvariant, PTL

-----------------------------------------------------------------------------
(* What RedisMessageStore.get_messages lists: every finite set of messages *)
(* has a listing by time and scan order, which has all of them; and which  *)
(* of them are the last ones.                                              *)

Records == {Record(k[1], k[2], at) : k \in Keys, at \in Nat}

LEMMA RecordFacts ==
  ASSUME NEW r \in Records
  PROVE  /\ Key(r) \in Keys /\ r.at \in Nat
         /\ r.turn \in Chats \cup External
         /\ r = Record(r.turn, r.source, r.at)
BY DEF Records, Record, Key, Keys

LEMMA Ranks ==
  ASSUME NEW rank \in ScanRanks
  PROVE  /\ \A r \in Records : rank[Key(r)] \in Nat
         /\ \A r, s \in Records :
              r.at = s.at /\ rank[Key(r)] = rank[Key(s)] => r = s
<1>1. rank \in [Keys -> Nat] /\ \A k, l \in Keys : rank[k] = rank[l] => k = l
  BY ScanRanksAssumption
<1>2. ASSUME NEW r \in Records, NEW s \in Records,
             r.at = s.at, rank[Key(r)] = rank[Key(s)]
      PROVE  r = s
  <2>1. Key(r) = Key(s)
    BY <1>1, <1>2, RecordFacts
  <2>2. r.turn = s.turn /\ r.source = s.source
    BY <2>1 DEF Key
  <2>3. r = Record(r.turn, r.source, r.at) /\ s = Record(s.turn, s.source, s.at)
    BY RecordFacts
  <2> QED BY <1>2, <2>2, <2>3
<1>3. \A r \in Records : rank[Key(r)] \in Nat
  BY <1>1, RecordFacts
<1> QED BY <1>2, <1>3

(* Precedes is a strict total order.                                       *)
LEMMA PrecedesOrder ==
  ASSUME NEW rank \in ScanRanks, NEW r \in Records, NEW s \in Records
  PROVE  /\ ~ Precedes(r, r, rank)
         /\ r # s => Precedes(r, s, rank) \/ Precedes(s, r, rank)
         /\ \A t \in Records :
              Precedes(r, s, rank) /\ Precedes(s, t, rank) => Precedes(r, t, rank)
         /\ Precedes(r, s, rank) => r.at <= s.at
<1>1. /\ \A t \in Records : t.at \in Nat /\ rank[Key(t)] \in Nat
      /\ r.at = s.at /\ rank[Key(r)] = rank[Key(s)] => r = s
  BY Ranks, RecordFacts
<1> QED BY <1>1 DEF Precedes

LEMMA LeastNat ==
  ASSUME NEW S, S \subseteq Nat, S # {}
  PROVE  \E n \in S : \A m \in S : n <= m
<1>1. \E n \in S : \A m \in S : ~ (<<m, n>> \in OpToRel(<, Nat))
  BY NatLessThanWellFounded, WFMin
<1>2. PICK n \in S : \A m \in S : ~ (<<m, n>> \in OpToRel(<, Nat))
  BY <1>1
<1>3. \A m \in S : ~ (m < n)
  BY <1>2, Zenon DEF OpToRel
<1> QED BY <1>3

LEMMA FirstRecord ==
  ASSUME NEW rank \in ScanRanks, NEW M, M \subseteq Records, M # {}
  PROVE  \E r \in M : \A s \in M \ {r} : Precedes(r, s, rank)
<1> DEFINE times == {r.at : r \in M}
<1>1. times \subseteq Nat /\ times # {}
  BY RecordFacts
<1>2. PICK t \in times : \A u \in times : t <= u
  BY <1>1, LeastNat
<1> DEFINE ranks == {rank[Key(r)] : r \in {s \in M : s.at = t}}
<1>3. ranks \subseteq Nat /\ ranks # {}
  BY <1>2, Ranks
<1>4. PICK n \in ranks : \A m \in ranks : n <= m
  BY <1>3, LeastNat
<1>5. PICK r \in M : r.at = t /\ rank[Key(r)] = n
  BY <1>4
<1>6. ASSUME NEW s \in M \ {r}
      PROVE  Precedes(r, s, rank)
  <2>1. t <= s.at /\ t \in Nat /\ s.at \in Nat
    BY <1>1, <1>2
  <2>2. CASE s.at = t
    <3>1. n <= rank[Key(s)]
      BY <1>4, <2>2
    <3>2. rank[Key(s)] # n
      BY <1>5, <2>2, Ranks
    <3>3. n \in Nat /\ rank[Key(s)] \in Nat
      BY <1>3, Ranks
    <3> QED BY <1>5, <2>2, <3>1, <3>2, <3>3 DEF Precedes
  <2> QED BY <1>5, <2>1, <2>2 DEF Precedes
<1> QED BY <1>6

-----------------------------------------------------------------------------
IsListing(list, M, rank) ==
  /\ list \in [1 .. Cardinality(M) -> M]
  /\ \A i, j \in DOMAIN list : i < j => Precedes(list[i], list[j], rank)

(* By the smallest set that had none: its first record and a listing of    *)
(* the others make one.                                                    *)
LEMMA ListingExists ==
  ASSUME NEW rank \in ScanRanks, NEW M, M \subseteq Records, IsFiniteSet(M)
  PROVE  \E list : IsListing(list, M, rank)
<1> DEFINE Unlisted(S) == /\ S \subseteq Records /\ IsFiniteSet(S)
                          /\ ~ \E list : IsListing(list, S, rank)
           sizes == {n \in Nat : \E S \in SUBSET Records :
                                   Unlisted(S) /\ Cardinality(S) = n}
<1> SUFFICES ASSUME Unlisted(M) PROVE FALSE
  OBVIOUS
<1>1. sizes \subseteq Nat /\ sizes # {}
  <2>1. Cardinality(M) \in Nat
    BY FS_CardinalityType
  <2> QED BY <2>1
<1>2. PICK n \in sizes : \A m \in sizes : n <= m
  BY <1>1, LeastNat
<1>3. PICK S \in SUBSET Records : Unlisted(S) /\ Cardinality(S) = n
  BY <1>2
<1>4. CASE S = {}
  <2> DEFINE none == [i \in 1 .. 0 |-> Record(0, 0, 0)]
  <2>1. IsListing(none, S, rank)
    BY <1>4, FS_EmptySet DEF IsListing
  <2> QED BY <1>3, <2>1
<1>5. CASE S # {}
  <2>1. PICK r \in S : \A s \in S \ {r} : Precedes(r, s, rank)
    BY <1>5, FirstRecord
  <2>2. IsFiniteSet(S \ {r}) /\ Cardinality(S \ {r}) = n - 1 /\ n \in Nat
    BY <1>3, FS_RemoveElement
  <2>3. n - 1 \in Nat
    BY <2>2, FS_CardinalityType
  <2>4. ~ Unlisted(S \ {r})
    BY <1>2, <2>2, <2>3
  <2>5. PICK rest : IsListing(rest, S \ {r}, rank)
    BY <2>2, <2>4
  <2> DEFINE list == [i \in 1 .. n |-> IF i = 1 THEN r ELSE rest[i - 1]]
  <2>6. rest \in [1 .. n - 1 -> S \ {r}]
        /\ \A i, j \in 1 .. n - 1 : i < j => Precedes(rest[i], rest[j], rank)
    BY <2>2, <2>5 DEF IsListing
  <2>7. list \in [1 .. Cardinality(S) -> S]
    BY <1>3, <2>2, <2>6
  <2>8. ASSUME NEW i \in 1 .. n, NEW j \in 1 .. n, i < j
        PROVE  Precedes(list[i], list[j], rank)
    <3>1. j # 1 /\ j - 1 \in 1 .. n - 1 /\ list[j] = rest[j - 1]
      BY <2>2, <2>8
    <3>2. CASE i = 1
      BY <2>1, <2>6, <3>1, <3>2
    <3>3. CASE i # 1
      <4>1. i - 1 \in 1 .. n - 1 /\ list[i] = rest[i - 1] /\ i - 1 < j - 1
        BY <2>2, <2>8, <3>3
      <4> QED BY <2>6, <3>1, <4>1
    <3> QED BY <3>2, <3>3
  <2>9. IsListing(list, S, rank)
    BY <1>3, <2>7, <2>8 DEF IsListing
  <2> QED BY <1>3, <2>9
<1> QED BY <1>4, <1>5

(* A listing has every message of the set, at one position.                *)
LEMMA ListingFacts ==
  ASSUME NEW rank \in ScanRanks, NEW M, M \subseteq Records, IsFiniteSet(M),
         NEW list, IsListing(list, M, rank)
  PROVE  /\ Cardinality(M) \in Nat
         /\ list \in [1 .. Cardinality(M) -> M]
         /\ \A i, j \in 1 .. Cardinality(M) : list[i] = list[j] => i = j
         /\ \A i, j \in 1 .. Cardinality(M) : i < j => Precedes(list[i], list[j], rank)
         /\ \A r \in M : \E i \in 1 .. Cardinality(M) : list[i] = r
<1> DEFINE D == 1 .. Cardinality(M)
<1>1. Cardinality(M) \in Nat
  BY FS_CardinalityType
<1>2. list \in [D -> M] /\ \A i, j \in D : i < j => Precedes(list[i], list[j], rank)
  BY DEF IsListing
<1>3. ASSUME NEW i \in D, NEW j \in D, list[i] = list[j]
      PROVE  i = j
  <2>1. ~ (i < j) /\ ~ (j < i)
    BY <1>2, <1>3, PrecedesOrder
  <2>2. i \in Int /\ j \in Int
    BY <1>1
  <2> QED BY <2>1, <2>2
<1>4. list \in Injection(D, M)
  BY <1>2, <1>3 DEF Injection, IsInjective
<1>5. IsFiniteSet(D) /\ Cardinality(D) = Cardinality(M)
  BY <1>1, FS_Interval
<1>6. Cardinality(D) = Cardinality(M) <=> list \in Surjection(D, M)
  BY <1>4, FS_Injection
<1>7. \A r \in M : \E i \in D : list[i] = r
  BY <1>5, <1>6 DEF Surjection
<1> QED BY <1>1, <1>2, <1>3, <1>7

LEMMA ListingIs ==
  ASSUME NEW rank \in ScanRanks, NEW M, M \subseteq Records, IsFiniteSet(M)
  PROVE  IsListing(Listing(M, rank), M, rank)
<1>1. PICK list : IsListing(list, M, rank)
  BY ListingExists
<1>2. list \in [1 .. Cardinality(M) -> M]
      /\ \A i, j \in DOMAIN list : i < j => Precedes(list[i], list[j], rank)
  BY <1>1 DEF IsListing
<1>3. /\ Listing(M, rank) \in [1 .. Cardinality(M) -> M]
      /\ \A i, j \in DOMAIN Listing(M, rank) :
           i < j => Precedes(Listing(M, rank)[i], Listing(M, rank)[j], rank)
  BY <1>2, Zenon DEF Listing
<1> QED BY <1>3 DEF IsListing

(* The last n: what is in them, in the same order ...                       *)
LEMMA LastOfListing ==
  ASSUME NEW rank \in ScanRanks, NEW M, M \subseteq Records, IsFiniteSet(M),
         NEW list, IsListing(list, M, rank), NEW n \in Nat
  PROVE  /\ LastOf(list, n) \in Seq(M)
         /\ \A i, j \in DOMAIN LastOf(list, n) :
              i < j => Precedes(LastOf(list, n)[i], LastOf(list, n)[j], rank)
         /\ \A i \in 1 .. Cardinality(M) :
              list[i] \in RangeOf(LastOf(list, n)) <=> i > Cardinality(M) - n
<1> DEFINE k == Cardinality(M)
           part == LastOf(list, n)
<1>1. /\ k \in Nat
      /\ list \in [1 .. k -> M]
      /\ \A i, j \in 1 .. k : list[i] = list[j] => i = j
      /\ \A i, j \in 1 .. k : i < j => Precedes(list[i], list[j], rank)
  BY ListingFacts
<1> HIDE DEF k
<1>2. list \in Seq(M) /\ Len(list) = k
  BY <1>1, SeqDef, LenProperties
<1>3. CASE n >= k
  <2>1. part = list
    BY <1>2, <1>3 DEF LastOf
  <2>2. \A i \in 1 .. k : list[i] \in RangeOf(part) /\ i > k - n
    BY <1>1, <1>3, <2>1 DEF RangeOf
  <2> QED BY <1>1, <1>2, <2>1, <2>2 DEF k
<1>4. CASE ~ (n >= k)
  <2>1. part = SubSeq(list, k - n + 1, k)
    BY <1>2, <1>4 DEF LastOf
  <2>2. k - n + 1 \in 1 .. k + 1 /\ k \in 0 .. k
    BY <1>1, <1>4
  <2>3. /\ part \in Seq(M) /\ Len(part) = n
        /\ \A i \in 1 .. n : part[i] = list[k - n + i]
    <3>1. part = [i \in 1 .. n |-> list[k - n + i]]
      BY <1>1, <1>2, <1>4, <2>1
    <3>2. \A i \in 1 .. n : k - n + i \in 1 .. k
      BY <1>1, <1>4
    <3>3. part \in [1 .. n -> M]
      BY <1>1, <3>1, <3>2
    <3> HIDE DEF part
    <3> QED BY <3>1, <3>3, SeqDef, LenProperties
  <2>4. DOMAIN part = 1 .. n
    BY <2>3, LenProperties
  <2> HIDE DEF part
  <2>5. ASSUME NEW i \in 1 .. n, NEW j \in 1 .. n, i < j
        PROVE  Precedes(part[i], part[j], rank)
    <3>1. k - n + i \in 1 .. k /\ k - n + j \in 1 .. k /\ k - n + i < k - n + j
      BY <1>1, <1>4, <2>5
    <3> QED BY <1>1, <2>3, <3>1
  <2>6. ASSUME NEW i \in 1 .. k
        PROVE  list[i] \in RangeOf(part) <=> i > k - n
    <3>1. CASE i > k - n
      <4>1. i - (k - n) \in 1 .. n /\ k - n + (i - (k - n)) = i
        BY <1>1, <1>4, <3>1
      <4>2. part[i - (k - n)] = list[i]
        BY <2>3, <4>1
      <4> QED BY <2>4, <3>1, <4>1, <4>2 DEF RangeOf
    <3>2. ASSUME list[i] \in RangeOf(part)
          PROVE  i > k - n
      <4>1. PICK j \in 1 .. n : list[i] = part[j]
        BY <2>4, <3>2 DEF RangeOf
      <4>2. list[i] = list[k - n + j] /\ k - n + j \in 1 .. k
        BY <1>1, <1>4, <2>3, <4>1
      <4>3. i = k - n + j
        BY <1>1, <4>2
      <4> QED BY <1>1, <1>4, <4>3
    <3> QED BY <3>1, <3>2
  <2>7. part \in Seq(M)
    BY <2>3
  <2>8. \A i, j \in DOMAIN part : i < j => Precedes(part[i], part[j], rank)
    BY <2>4, <2>5
  <2> QED BY <2>6, <2>7, <2>8 DEF part, k
<1> QED BY <1>3, <1>4

(* ... and which messages these are: those that fewer than n follow.        *)
After(r, M, rank) == {s \in M : Precedes(r, s, rank)}

LEMMA AfterCount ==
  ASSUME NEW rank \in ScanRanks, NEW M, M \subseteq Records, IsFiniteSet(M),
         NEW list, IsListing(list, M, rank), NEW i \in 1 .. Cardinality(M)
  PROVE  /\ IsFiniteSet(After(list[i], M, rank))
         /\ Cardinality(After(list[i], M, rank)) = Cardinality(M) - i
<1> DEFINE k == Cardinality(M)
           rest == After(list[i], M, rank)
           f == [j \in i + 1 .. k |-> list[j]]
<1>1. /\ k \in Nat
      /\ list \in [1 .. k -> M]
      /\ \A a, b \in 1 .. k : list[a] = list[b] => a = b
      /\ \A a, b \in 1 .. k : a < b => Precedes(list[a], list[b], rank)
      /\ \A r \in M : \E a \in 1 .. k : list[a] = r
  BY ListingFacts
<1> HIDE DEF k
<1>2. i \in 1 .. k /\ i + 1 .. k \subseteq 1 .. k
  BY <1>1 DEF k
<1>3. \A j \in i + 1 .. k : list[j] \in rest
  BY <1>1, <1>2 DEF After
<1>4. ASSUME NEW s \in rest
      PROVE  \E j \in i + 1 .. k : list[j] = s
  <2>1. s \in M /\ Precedes(list[i], s, rank) /\ list[i] \in M
    BY <1>1, <1>2, <1>4 DEF After
  <2>2. PICK a \in 1 .. k : list[a] = s
    BY <1>1, <2>1
  <2>3. a # i
    BY <2>1, <2>2, PrecedesOrder
  <2>4. ~ (a < i)
    <3>1. SUFFICES ASSUME a < i PROVE FALSE
      OBVIOUS
    <3>2. Precedes(s, list[i], rank)
      BY <1>1, <1>2, <2>2, <3>1
    <3>3. Precedes(list[i], list[i], rank)
      BY <2>1, <3>2, PrecedesOrder
    <3> QED BY <2>1, <3>3, PrecedesOrder
  <2>5. a \in i + 1 .. k
    BY <1>1, <1>2, <2>3, <2>4
  <2> QED BY <2>2, <2>5
<1>5. f \in Bijection(i + 1 .. k, rest)
  <2>1. f \in [i + 1 .. k -> rest]
    BY <1>3
  <2>2. \A a, b \in i + 1 .. k : f[a] = f[b] => a = b
    BY <1>1, <1>2
  <2>3. \A s \in rest : \E j \in i + 1 .. k : f[j] = s
    BY <1>4
  <2> HIDE DEF f, rest
  <2> QED BY <2>1, <2>2, <2>3 DEF Bijection, Injection, IsInjective, Surjection
<1>6. IsFiniteSet(i + 1 .. k) /\ Cardinality(i + 1 .. k) = k - i
  <2>1. i + 1 \in Int /\ k \in Int /\ i \in Int /\ i <= k
    BY <1>1, <1>2
  <2>2. /\ IsFiniteSet(i + 1 .. k)
        /\ Cardinality(i + 1 .. k) = IF i + 1 > k THEN 0 ELSE k - (i + 1) + 1
    BY <2>1, FS_Interval
  <2> QED BY <2>1, <2>2
<1>7. ExistsBijection(i + 1 .. k, rest)
  BY <1>5 DEF ExistsBijection
<1> HIDE DEF rest, f
<1>8. IsFiniteSet(rest) /\ Cardinality(rest) = k - i
  BY <1>6, <1>7, FS_Bijection
<1> QED BY <1>8 DEF k, rest

LEMMA AmongLast ==
  ASSUME NEW rank \in ScanRanks, NEW M, M \subseteq Records, IsFiniteSet(M),
         NEW list, IsListing(list, M, rank), NEW n \in Nat, NEW r \in M
  PROVE  r \in RangeOf(LastOf(list, n)) <=> Cardinality(After(r, M, rank)) < n
<1>1. PICK i \in 1 .. Cardinality(M) : list[i] = r
  BY ListingFacts
<1>2. Cardinality(M) \in Nat /\ i \in Nat
  BY FS_CardinalityType
<1>3. Cardinality(After(r, M, rank)) = Cardinality(M) - i
  BY <1>1, AfterCount
<1>4. r \in RangeOf(LastOf(list, n)) <=> i > Cardinality(M) - n
  BY <1>1, LastOfListing
<1> QED BY <1>2, <1>3, <1>4

(* A message that is not among the last n is not among them later either:  *)
(* what arrives can only follow it, or stand before it.                    *)
LEMMA StaysOlder ==
  ASSUME NEW rank \in ScanRanks, NEW M, NEW L, M \subseteq L, L \subseteq Records,
         IsFiniteSet(L), NEW n \in Nat, NEW r \in M,
         r \notin RangeOf(LastOf(Listing(M, rank), n))
  PROVE  r \in RangeOf(Listing(L, rank)) \ RangeOf(LastOf(Listing(L, rank), n))
<1>1. IsFiniteSet(M) /\ M \subseteq Records
  BY FS_Subset
<1>2. IsListing(Listing(M, rank), M, rank) /\ IsListing(Listing(L, rank), L, rank)
  BY <1>1, ListingIs
<1>3. ~ (Cardinality(After(r, M, rank)) < n)
  BY <1>1, <1>2, AmongLast
<1>4. After(r, M, rank) \in SUBSET After(r, L, rank) /\ IsFiniteSet(After(r, L, rank))
  <2>1. After(r, L, rank) \in SUBSET L
    BY DEF After
  <2>2. IsFiniteSet(After(r, L, rank))
    BY <2>1, FS_Subset
  <2> QED BY <2>2 DEF After
<1>5. /\ Cardinality(After(r, M, rank)) <= Cardinality(After(r, L, rank))
      /\ Cardinality(After(r, M, rank)) \in Nat
      /\ Cardinality(After(r, L, rank)) \in Nat
  <2>1. IsFiniteSet(After(r, M, rank))
    BY <1>4, FS_Subset
  <2> QED BY <1>4, <2>1, FS_Subset, FS_CardinalityType
<1>6. ~ (Cardinality(After(r, L, rank)) < n)
  BY <1>3, <1>5
<1>7. r \notin RangeOf(LastOf(Listing(L, rank), n))
  BY <1>2, <1>6, AmongLast
<1>8. r \in RangeOf(Listing(L, rank))
  BY <1>2, ListingFacts DEF RangeOf
<1> QED BY <1>7, <1>8

-----------------------------------------------------------------------------
(* The stored messages and their times *)

\* The two messages of a turn have one time, which no other turn has.
RecordInv ==
  /\ now \in Nat
  /\ IsFiniteSet(store)
  /\ store \subseteq Records
  /\ \A r \in store : r.at <= now
  /\ \A r, s \in store :
       r.turn \in Chats /\ s.turn \in Chats => (r.turn = s.turn <=> r.at = s.at)
  /\ \A r, s \in store : r.turn \in External /\ r.turn = s.turn => r = s

\* What a chat has read is in the order of time, with no message twice.
ReadInv ==
  /\ recent \in [Chats -> Seq(Records)]
  /\ before \in [Chats -> SUBSET store]
  /\ slot \in [Chats -> SUBSET store]
  /\ \A c \in Chats :
       /\ RangeOf(recent[c]) \subseteq store
       /\ \A i, j \in DOMAIN recent[c] :
            i < j => recent[c][i].at <= recent[c][j].at /\ recent[c][i] # recent[c][j]

LEMMA TurnIsOne ==
  ASSUME NEW turn, NEW source, <<turn, source>> \in Keys
  PROVE  (turn \in Chats <=> source # "external_agent") /\ turn \in Chats \cup External
BY ConstantsAssumption DEF Keys

LEMMA RecordOf ==
  ASSUME NEW turn, NEW source, NEW at
  PROVE  /\ Record(turn, source, at).turn = turn
         /\ Record(turn, source, at).source = source
         /\ Record(turn, source, at).at = at
         /\ Key(Record(turn, source, at)) = <<turn, source>>
BY DEF Record, Key

LEMMA NewRecord ==
  ASSUME NEW turn, NEW source, NEW at \in Nat, <<turn, source>> \in Keys
  PROVE  Record(turn, source, at) \in Records
<1>1. \E k \in Keys, t \in Nat : Record(turn, source, at) = Record(k[1], k[2], t)
  <2>1. Record(turn, source, at) = Record(<<turn, source>>[1], <<turn, source>>[2], at)
    OBVIOUS
  <2> QED BY <2>1
<1> QED BY <1>1 DEF Records

LEMMA InitRecordInv == Init => RecordInv /\ ReadInv
<1>1. IsFiniteSet({})
  BY FS_EmptySet
<1>2. <<>> \in Seq(Records) /\ DOMAIN <<>> = {} /\ RangeOf(<<>>) = {}
  <2>1. <<>> \in Seq(Records) /\ Len(<<>>) = 0
    BY EmptySeq
  <2>2. DOMAIN <<>> = 1 .. 0
    BY <2>1, LenProperties
  <2> QED BY <2>1, <2>2 DEF RangeOf
<1>3. Init => RecordInv
  BY <1>1 DEF Init, RecordInv
<1>4. Init => ReadInv
  BY <1>2 DEF Init, ReadInv
<1> QED BY <1>3, <1>4

\* Nothing is ever taken from the store.
LEMMA ReadKeeps ==
  ASSUME ReadInv, store \subseteq store', UNCHANGED <<recent, before, slot>>
  PROVE  ReadInv'
<1>1. \A c \in Chats : before[c] \subseteq store' /\ slot[c] \subseteq store'
  BY DEF ReadInv
<1>2. before \in [Chats -> SUBSET store'] /\ slot \in [Chats -> SUBSET store']
  BY <1>1 DEF ReadInv
<1> QED BY <1>2 DEF ReadInv, RangeOf

LEMMA RecordKeeps ==
  ASSUME RecordInv, UNCHANGED <<store, now>>
  PROVE  RecordInv'
BY DEF RecordInv

\* A message of a turn at the time of the turn, or of none, may be added.
LEMMA AddKeeps ==
  ASSUME RecordInv, NEW turn, NEW source, NEW at \in Nat, <<turn, source>> \in Keys,
         store' = store \cup {Record(turn, source, at)},
         now' \in Nat, now <= now', at <= now',
         turn \in Chats =>
           \A s \in store : s.turn \in Chats => (s.turn = turn <=> s.at = at),
         turn \in External => \A s \in store : s.turn # turn
  PROVE  RecordInv'
<1> DEFINE new == Record(turn, source, at)
<1>1. new \in Records /\ new.turn = turn /\ new.at = at
  BY NewRecord, RecordOf
<1> HIDE DEF new
<1>2. store' = store \cup {new}
  BY DEF new
<1>3. IsFiniteSet(store')
  BY <1>2, FS_AddElement DEF RecordInv
<1>4. store' \subseteq Records
  BY <1>1, <1>2 DEF RecordInv
<1>5. \A r \in store' : r.at <= now'
  <2>1. \A r \in store : r.at <= now /\ r.at \in Nat
    BY RecordFacts DEF RecordInv
  <2> QED BY <1>1, <1>2, <2>1 DEF RecordInv
<1>6. \A r, s \in store' :
        r.turn \in Chats /\ s.turn \in Chats => (r.turn = s.turn <=> r.at = s.at)
  BY <1>1, <1>2 DEF RecordInv
<1>7. \A r, s \in store' : r.turn \in External /\ r.turn = s.turn => r = s
  BY <1>1, <1>2 DEF RecordInv
<1> QED BY <1>3, <1>4, <1>5, <1>6, <1>7 DEF RecordInv

LEMMA StoreUserRecord ==
  ASSUME TurnInv, RecordInv, NEW c \in Chats, pc[c] = "flow", StoreUser(c)
  PROVE  RecordInv'
<1>1. now' = now + 1 /\ store' = store \cup {Record(c, "user", now + 1)}
  BY DEF StoreUser
<1>2. <<c, "user">> \in Keys /\ c \notin External
  BY ConstantsAssumption DEF Keys
<1>3. ASSUME NEW s \in store, s.turn = c
      PROVE  FALSE
  <2>1. Key(s) \in Keys /\ Key(s) = <<s.turn, s.source>>
    BY RecordFacts DEF RecordInv, Key
  <2>2. s.source \in {"user", "model"}
    BY <1>2, <1>3, <2>1 DEF Keys
  <2> QED BY <1>3, <2>1, <2>2 DEF TurnInv, StoredAt, Stored
<1>4. \A s \in store : s.at # now + 1
  BY RecordFacts DEF RecordInv
<1>5. now + 1 \in Nat /\ now <= now + 1 /\ now' \in Nat
  BY <1>1 DEF RecordInv
<1> QED BY <1>1, <1>2, <1>3, <1>4, <1>5, AddKeeps

LEMMA StoreReplyRecord ==
  ASSUME RecordInv, NEW c \in Chats, StoreReply(c)
  PROVE  RecordInv'
<1>1. PICK r \in store : /\ Key(r) = <<c, "user">>
                         /\ store' = store \cup {Record(c, "model", r.at)}
  BY DEF StoreReply
<1>2. r.turn = c /\ r.at \in Nat /\ r.at <= now
  BY <1>1, RecordFacts DEF RecordInv, Key
<1>3. <<c, "model">> \in Keys /\ c \notin External
  BY ConstantsAssumption DEF Keys
<1>4. \A s \in store : s.turn \in Chats => (s.turn = c <=> s.at = r.at)
  BY <1>2 DEF RecordInv
<1>5. now' = now /\ now \in Nat
  BY DEF StoreReply, RecordInv
<1> QED BY <1>1, <1>2, <1>3, <1>4, <1>5, AddKeeps

LEMMA ExternalWriteRecord ==
  ASSUME RecordInv, NEW m \in External, ExternalWrite(m)
  PROVE  RecordInv'
<1>1. PICK at \in 0 .. now : store' = store \cup {Record(m, "external_agent", at)}
  BY DEF ExternalWrite
<1>2. <<m, "external_agent">> \in Keys /\ m \notin Chats
  BY ConstantsAssumption DEF Keys
<1>3. now' = now /\ now \in Nat /\ \A s \in store : s.turn # m
  BY DEF ExternalWrite, RecordInv
<1>4. at \in Nat /\ at <= now
  BY <1>3
<1> QED BY <1>1, <1>2, <1>3, <1>4, AddKeeps

-----------------------------------------------------------------------------
(* The reads *)

LEMMA ListingRead ==
  ASSUME RecordInv, NEW rank \in ScanRanks, NEW n \in Nat
  PROVE  /\ LastOf(Listing(store, rank), n) \in Seq(Records)
         /\ RangeOf(LastOf(Listing(store, rank), n)) \subseteq store
         /\ \A i, j \in DOMAIN LastOf(Listing(store, rank), n) :
              i < j => /\ LastOf(Listing(store, rank), n)[i].at
                            <= LastOf(Listing(store, rank), n)[j].at
                       /\ LastOf(Listing(store, rank), n)[i]
                            # LastOf(Listing(store, rank), n)[j]
<1> DEFINE list == Listing(store, rank)
           part == LastOf(list, n)
<1>1. store \subseteq Records /\ IsFiniteSet(store) /\ IsListing(list, store, rank)
  BY ListingIs DEF RecordInv
<1> HIDE DEF list
<1>2. /\ part \in Seq(store)
      /\ \A i, j \in DOMAIN part : i < j => Precedes(part[i], part[j], rank)
  BY <1>1, LastOfListing
<1> HIDE DEF part
<1>3. /\ part \in [1 .. Len(part) -> store]
      /\ DOMAIN part = 1 .. Len(part)
      /\ Len(part) \in Nat
  BY <1>2, LenProperties
<1>4. RangeOf(part) \subseteq store
  BY <1>3 DEF RangeOf
<1>5. part \in Seq(Records)
  BY <1>1, <1>3, SeqDef
<1>6. ASSUME NEW i \in DOMAIN part, NEW j \in DOMAIN part, i < j
      PROVE  part[i].at <= part[j].at /\ part[i] # part[j]
  <2>1. part[i] \in Records /\ part[j] \in Records
    BY <1>1, <1>3
  <2>2. Precedes(part[i], part[j], rank)
    BY <1>2, <1>6
  <2> QED BY <2>1, <2>2, PrecedesOrder
<1> QED BY <1>4, <1>5, <1>6 DEF part, list

LEMMA WholeListing ==
  ASSUME RecordInv, NEW rank \in ScanRanks
  PROVE  \E n \in Nat : Listing(store, rank) = LastOf(Listing(store, rank), n)
<1>1. IsListing(Listing(store, rank), store, rank)
  BY ListingIs DEF RecordInv
<1>2. Cardinality(store) \in Nat
  BY FS_CardinalityType DEF RecordInv
<1>3. Len(Listing(store, rank)) = Cardinality(store)
  BY <1>1, <1>2, SeqDef, LenProperties DEF IsListing
<1> QED BY <1>2, <1>3 DEF LastOf

\* A chat keeps what it has read.
LEMMA RecentSet ==
  ASSUME RecordInv, ReadInv, NEW c \in Chats, NEW rank \in ScanRanks, NEW n \in Nat,
         recent' = [recent EXCEPT ![c] = LastOf(Listing(store, rank), n)],
         before' = [before EXCEPT ![c] = store],
         UNCHANGED <<store, slot>>
  PROVE  ReadInv'
<1> DEFINE part == LastOf(Listing(store, rank), n)
<1>1. /\ part \in Seq(Records)
      /\ RangeOf(part) \subseteq store
      /\ \A i, j \in DOMAIN part : i < j => part[i].at <= part[j].at /\ part[i] # part[j]
  BY ListingRead
<1>2. recent' = [recent EXCEPT ![c] = part]
  OBVIOUS
<1> HIDE DEF part
<1>3. recent' \in [Chats -> Seq(Records)]
      /\ \A d \in Chats : recent'[d] = part \/ recent'[d] = recent[d]
  BY <1>1, <1>2 DEF ReadInv
<1>4. before' \in [Chats -> SUBSET store] /\ slot' \in [Chats -> SUBSET store]
  BY DEF ReadInv
<1> QED BY <1>1, <1>3, <1>4 DEF ReadInv

LEMMA SlotSet ==
  ASSUME RecordInv, ReadInv, NEW c \in Chats, NEW rank \in ScanRanks, NEW S,
         slot' = [slot EXCEPT ![c] = RangeOf(Listing(store, rank)) \ S],
         UNCHANGED <<store, before, recent>>
  PROVE  ReadInv'
<1>1. IsListing(Listing(store, rank), store, rank)
  BY ListingIs DEF RecordInv
<1>2. RangeOf(Listing(store, rank)) \subseteq store
  BY <1>1 DEF IsListing, RangeOf
<1>3. slot' \in [Chats -> SUBSET store] /\ before' \in [Chats -> SUBSET store]
  BY <1>2 DEF ReadInv
<1> QED BY <1>3 DEF ReadInv, RangeOf

LEMMA NextReadInv == TurnInv /\ RecordInv /\ ReadInv /\ [Next]_vars => RecordInv' /\ ReadInv'
<1> SUFFICES ASSUME TurnInv, RecordInv, ReadInv, [Next]_vars
             PROVE  RecordInv' /\ ReadInv'
  OBVIOUS
<1>1. ASSUME UNCHANGED <<store, now, before, recent, slot>>
      PROVE  RecordInv' /\ ReadInv'
  BY <1>1, RecordKeeps, ReadKeeps
<1>2. ASSUME NEW c \in Chats, ReadRecent(c)
      PROVE  RecordInv' /\ ReadInv'
  <2>1. LastN \in Nat
    BY ConstantsAssumption
  <2> QED BY <1>2, <2>1, RecordKeeps, RecentSet DEF ReadRecent
<1>3. ASSUME NEW c \in Chats, ReadAll(c)
      PROVE  RecordInv' /\ ReadInv'
  <2>1. PICK rank \in ScanRanks : recent' = [recent EXCEPT ![c] = Listing(store, rank)]
    BY <1>3 DEF ReadAll
  <2>2. PICK n \in Nat : Listing(store, rank) = LastOf(Listing(store, rank), n)
    BY WholeListing
  <2>3. recent' = [recent EXCEPT ![c] = LastOf(Listing(store, rank), n)]
    BY <2>1, <2>2
  <2> QED BY <1>3, <2>3, RecordKeeps, RecentSet DEF ReadAll
<1>4. ASSUME NEW c \in Chats, ReadOlder(c)
      PROVE  RecordInv' /\ ReadInv'
  <2>1. PICK rank \in ScanRanks :
          slot' = [slot EXCEPT ![c] = RangeOf(Listing(store, rank))
                                        \ RangeOf(LastOf(Listing(store, rank), LastN))]
    BY <1>4 DEF ReadOlder
  <2> QED BY <1>4, <2>1, RecordKeeps, SlotSet DEF ReadOlder
<1>5. ASSUME NEW c \in Chats, pc[c] = "flow", StoreUser(c), UNCHANGED <<before, recent, slot>>
      PROVE  RecordInv' /\ ReadInv'
  BY <1>5, StoreUserRecord, ReadKeeps DEF StoreUser
<1>6. ASSUME NEW c \in Chats, StoreReply(c), UNCHANGED <<before, recent, slot>>
      PROVE  RecordInv' /\ ReadInv'
  <2>1. store \subseteq store'
    BY <1>6 DEF StoreReply
  <2> QED BY <1>6, <2>1, StoreReplyRecord, ReadKeeps
<1>7. ASSUME NEW m \in External, ExternalWrite(m)
      PROVE  RecordInv' /\ ReadInv'
  <2>1. store \subseteq store' /\ UNCHANGED <<before, recent, slot>>
    BY <1>7 DEF ExternalWrite
  <2> QED BY <1>7, <2>1, ExternalWriteRecord, ReadKeeps
<1>8. CASE UNCHANGED vars
  BY <1>1, <1>8 DEF vars
<1>9. ASSUME NEW c \in Chats,
             \/ ReadFails(c) \/ FlowFails(c) \/ Timeout(c) \/ WriteUser(c) \/ WriteUserFails(c)
             \/ WriteReply(c) \/ WriteReplyFails(c) \/ Reply(c)
      PROVE  RecordInv' /\ ReadInv'
  BY <1>1, <1>5, <1>6, <1>9 DEF ReadFails, FlowFails, Timeout, WriteUser, WriteUserFails,
     WriteReply, WriteReplyFails, Reply
<1>10. CASE Next
  BY <1>1, <1>2, <1>3, <1>4, <1>7, <1>9, <1>10 DEF Next, Crash
<1> QED BY <1>8, <1>10

LEMMA ReadInvariant == Spec => [](TurnInv /\ RecordInv /\ ReadInv)
BY InitTurnInv, NextTurnInv, InitRecordInv, NextReadInv, PTL DEF Spec

-----------------------------------------------------------------------------
(* The context *)

\* SCAN lists the messages in the same order each time.
OneScanOrder == \A r, q \in ScanRanks : r = q

\* What was there when a chat began is among its last messages, is about to be
\* found older, or is in the slot.
ContextInv ==
  \A c \in Chats :
    /\ pc[c] = "older" =>
         \A rank \in ScanRanks : recent[c] = LastOf(Listing(before[c], rank), LastN)
    /\ pc[c] \in {"flow", "writing"} => before[c] \subseteq RangeOf(recent[c]) \cup slot[c]

\* A chat's context is settled when it enters the flow.
LEMMA ContextKeeps ==
  ASSUME TurnInv, ContextInv, NEW c \in Chats, UNCHANGED <<before, recent, slot>>,
         \/ pc' = [pc EXCEPT ![c] = "done"] \/ pc' = [pc EXCEPT ![c] = "replying"]
         \/ pc' = [pc EXCEPT ![c] = "writing"] /\ pc[c] = "flow"
         \/ pc' = pc
  PROVE  ContextInv'
BY DEF TurnInv, ContextInv

LEMMA NextContextInv ==
  OneScanOrder /\ TurnInv /\ RecordInv /\ ReadInv /\ ContextInv /\ [Next]_vars => ContextInv'
<1> SUFFICES ASSUME OneScanOrder, TurnInv, RecordInv, ReadInv, ContextInv, [Next]_vars
             PROVE  ContextInv'
  OBVIOUS
<1>1. ASSUME NEW c \in Chats, ReadRecent(c)
      PROVE  ContextInv'
  <2>1. PICK rank \in ScanRanks :
          recent' = [recent EXCEPT ![c] = LastOf(Listing(store, rank), LastN)]
    BY <1>1 DEF ReadRecent
  <2>2. \A q \in ScanRanks : q = rank
    BY DEF OneScanOrder
  <2>3. /\ recent'[c] = LastOf(Listing(store, rank), LastN)
        /\ before'[c] = store
        /\ pc'[c] = "older"
    BY <1>1, <2>1 DEF ReadRecent, Goto, TurnInv, ReadInv
  <2>4. \A d \in Chats \ {c} : /\ recent'[d] = recent[d] /\ before'[d] = before[d]
                               /\ pc'[d] = pc[d] /\ slot'[d] = slot[d]
    BY <1>1, <2>1 DEF ReadRecent, Goto, TurnInv, ReadInv
  <2>5. \A q \in ScanRanks : recent'[c] = LastOf(Listing(before'[c], q), LastN)
    BY <2>2, <2>3
  <2> QED BY <2>3, <2>4, <2>5 DEF ContextInv
<1>2. ASSUME NEW c \in Chats, ReadOlder(c)
      PROVE  ContextInv'
  <2>1. PICK rank \in ScanRanks :
          slot' = [slot EXCEPT ![c] = RangeOf(Listing(store, rank))
                                        \ RangeOf(LastOf(Listing(store, rank), LastN))]
    BY <1>2 DEF ReadOlder
  <2>2. recent[c] = LastOf(Listing(before[c], rank), LastN)
    BY <1>2 DEF ReadOlder, ContextInv
  <2>3. /\ slot'[c] = RangeOf(Listing(store, rank))
                        \ RangeOf(LastOf(Listing(store, rank), LastN))
        /\ pc'[c] = "flow" /\ recent' = recent /\ before' = before
    BY <1>2, <2>1 DEF ReadOlder, Goto, TurnInv, ReadInv
  <2>4. before[c] \subseteq store /\ store \subseteq Records /\ IsFiniteSet(store)
    BY DEF ReadInv, RecordInv
  <2>5. ASSUME NEW r \in before[c], r \notin RangeOf(recent[c])
        PROVE  r \in slot'[c]
    <3>1. LastN \in Nat /\ r \notin RangeOf(LastOf(Listing(before[c], rank), LastN))
      BY <2>2, <2>5, ConstantsAssumption
    <3>2. r \in RangeOf(Listing(store, rank)) \ RangeOf(LastOf(Listing(store, rank), LastN))
      BY <2>4, <3>1, StaysOlder
    <3> QED BY <2>3, <3>2
  <2>6. before'[c] \subseteq RangeOf(recent'[c]) \cup slot'[c]
    BY <2>3, <2>5
  <2>7. \A d \in Chats \ {c} : pc'[d] = pc[d] /\ slot'[d] = slot[d]
    BY <1>2, <2>1 DEF ReadOlder, Goto, TurnInv, ReadInv
  <2> QED BY <2>3, <2>6, <2>7 DEF ContextInv
<1>3. ASSUME NEW c \in Chats, ReadAll(c)
      PROVE  ContextInv'
  <2>1. PICK rank \in ScanRanks : recent' = [recent EXCEPT ![c] = Listing(store, rank)]
    BY <1>3 DEF ReadAll
  <2>2. /\ recent'[c] = Listing(store, rank) /\ before'[c] = store /\ pc'[c] = "flow"
        /\ \A d \in Chats \ {c} : /\ recent'[d] = recent[d] /\ before'[d] = before[d]
                                  /\ pc'[d] = pc[d]
        /\ slot' = slot
    BY <1>3, <2>1 DEF ReadAll, Goto, TurnInv, ReadInv
  <2>3. IsListing(Listing(store, rank), store, rank)
    BY ListingIs DEF RecordInv
  <2>4. store \subseteq RangeOf(Listing(store, rank))
    <3>1. store \subseteq Records /\ IsFiniteSet(store)
      BY DEF RecordInv
    <3>2. \A r \in store : \E i \in 1 .. Cardinality(store) : Listing(store, rank)[i] = r
      BY <2>3, <3>1, ListingFacts
    <3>3. DOMAIN Listing(store, rank) = 1 .. Cardinality(store)
      BY <2>3 DEF IsListing
    <3> QED BY <3>2, <3>3 DEF RangeOf
  <2> QED BY <2>2, <2>4 DEF ContextInv
<1>4. ASSUME NEW c \in Chats,
             \/ ReadFails(c) \/ FlowFails(c) \/ Timeout(c) \/ WriteUser(c)
             \/ WriteUserFails(c) \/ WriteReply(c) \/ WriteReplyFails(c) \/ Reply(c)
      PROVE  ContextInv'
  BY <1>4, ContextKeeps
     DEF ReadFails, FlowFails, Timeout, WriteUser, WriteUserFails, WriteReply,
         WriteReplyFails, Reply, End, Goto
<1>5. ASSUME NEW m \in External, ExternalWrite(m)
      PROVE  ContextInv'
  BY <1>5 DEF ExternalWrite, ContextInv
<1>6. ASSUME Crash
      PROVE  ContextInv'
  <2>1. \A c \in Chats : pc'[c] = pc[c] \/ pc'[c] = "done"
    BY <1>6 DEF Crash
  <2> QED BY <1>6, <2>1 DEF Crash, ContextInv
<1>7. CASE UNCHANGED vars
  BY <1>7 DEF vars, ContextInv
<1>8. CASE Next
  BY <1>1, <1>2, <1>3, <1>4, <1>5, <1>6, <1>8 DEF Next
<1> QED BY <1>7, <1>8

-----------------------------------------------------------------------------
(* The theorems about what is stored and read *)

\* The messages, the places of the chats and what they have read have their types,
\* and what a chat has read is in the store.
THEOREM TypeCorrect == Spec => []TypeOK
<1>1. TurnInv /\ RecordInv /\ ReadInv => TypeOK
  <2> SUFFICES ASSUME TurnInv, RecordInv, ReadInv PROVE TypeOK
    OBVIOUS
  <2>1. ASSUME NEW r \in store
        PROVE  r \in {Record(k[1], k[2], at) : k \in Keys, at \in 0 .. now}
    <3>1. r \in Records /\ r.at <= now /\ now \in Nat
      BY DEF RecordInv
    <3>2. PICK k \in Keys, at \in Nat : r = Record(k[1], k[2], at)
      BY <3>1 DEF Records
    <3>3. at \in 0 .. now
      BY <3>1, <3>2, RecordOf
    <3> QED BY <3>2, <3>3
  <2> QED BY <2>1 DEF TypeOK, TurnInv, RecordInv, ReadInv
<1> QED BY <1>1, ReadInvariant, PTL

\* However many chats of a session overlap, what one of them lists has nothing of
\* another turn between a message and its reply.
THEOREM TurnsStayTogether == Spec => []TurnsTogether
<1>1. TurnInv /\ RecordInv /\ ReadInv => TurnsTogether
  <2> SUFFICES ASSUME RecordInv, ReadInv, NEW c \in Chats,
                      NEW i \in DOMAIN recent[c], NEW j \in DOMAIN recent[c],
                      i < j, recent[c][i].turn = recent[c][j].turn, NEW k \in i .. j
               PROVE  recent[c][k].turn \in {recent[c][i].turn} \cup External
    BY DEF TurnsTogether
  <2> DEFINE list == recent[c]
  <2>1. /\ list \in [1 .. Len(list) -> Records]
        /\ DOMAIN list = 1 .. Len(list) /\ Len(list) \in Nat
    BY LenProperties DEF ReadInv
  <2>2. /\ RangeOf(list) \subseteq store
        /\ \A a, b \in DOMAIN list : a < b => list[a].at <= list[b].at /\ list[a] # list[b]
    BY DEF ReadInv
  <2> HIDE DEF list
  <2>3. i \in DOMAIN list /\ j \in DOMAIN list /\ k \in DOMAIN list
    BY <2>1 DEF list
  <2>4. i \in Int /\ j \in Int /\ k \in Int /\ i <= k /\ k <= j
    BY <2>1, <2>3
  <2>5. list[i] \in store /\ list[j] \in store /\ list[k] \in store
    BY <2>2, <2>3 DEF RangeOf
  <2>6. /\ list[i].at \in Nat /\ list[j].at \in Nat /\ list[k].at \in Nat
        /\ list[i].turn \in Chats \cup External /\ list[k].turn \in Chats \cup External
    BY <2>1, <2>3, RecordFacts
  <2>7. list[i].turn \notin External
    <3>1. list[i] # list[j] /\ list[i].turn = list[j].turn
      BY <2>2, <2>3 DEF list
    <3> QED BY <2>5, <3>1 DEF RecordInv
  <2>8. list[i].at = list[j].at
    <3>1. list[i].turn = list[j].turn /\ list[i].turn \in Chats
      BY <2>6, <2>7 DEF list
    <3> QED BY <2>5, <3>1 DEF RecordInv
  <2>9. list[k].at = list[i].at
    <3>1. list[i].at <= list[k].at
      BY <2>2, <2>3, <2>4, <2>6
    <3>2. list[k].at <= list[j].at
      BY <2>2, <2>3, <2>4, <2>6
    <3> QED BY <2>6, <2>8, <3>1, <3>2
  <2>10. list[k].turn \in Chats => list[k].turn = list[i].turn
    BY <2>5, <2>6, <2>7, <2>9 DEF RecordInv
  <2> QED BY <2>6, <2>10 DEF list
<1> QED BY <1>1, ReadInvariant, PTL

\* As long as SCAN keeps its order, a chat's context has every message that was
\* stored when it began, whatever is written between its two reads.
THEOREM ContextIsComplete ==
  ASSUME OneScanOrder
  PROVE  Spec => []ContextComplete
<1>1. Init => ContextInv
  BY DEF Init, ContextInv
<1>2. TurnInv /\ RecordInv /\ ReadInv /\ ContextInv /\ [Next]_vars => ContextInv'
  BY NextContextInv
<1>3. ContextInv => ContextComplete
  BY DEF ContextInv, ContextComplete
<1> QED BY <1>1, <1>2, <1>3, ReadInvariant, PTL DEF Spec

-----------------------------------------------------------------------------
(* The log of turns *)

\* The times of the turns are 1, 2, ... without a gap; one chat at a time is
\* between its reads or its writes, and a turn that is being written is the last.
LogInv ==
  /\ \A i \in 1 .. now : \E c \in Chats : UserAt(c, i)
  /\ \A c \in Chats : \A r \in store : Key(r) = <<c, "user">> => r.at \in 1 .. now
  /\ \A c, d \in Chats :
       pc[c] \in {"older", "writing"} /\ pc[d] \in {"older", "writing"} => c = d
  /\ \A c \in Chats :
       /\ pc[c] = "writing" => UserAt(c, now) /\ ~ Stored(c, "model")
       /\ pc[c] = "idle" => before[c] = {}

AllInv == TurnInv /\ RecordInv /\ ReadInv /\ LogInv

LEMMA UserAtAdds ==
  ASSUME NEW turn, NEW source, NEW at,
         store' = store \cup {Record(turn, source, at)},
         NEW c, NEW i
  PROVE  UserAt(c, i)' <=> UserAt(c, i) \/ (c = turn /\ source = "user" /\ i = at)
<1> DEFINE new == Record(turn, source, at)
<1>1. Key(new) = <<turn, source>> /\ new.at = at
  BY RecordOf
<1>. HIDE DEF new
<1>2. store' = store \cup {new}
  BY DEF new
<1>3. (\E r \in store' : Key(r) = <<c, "user">> /\ r.at = i)
      <=> \/ \E r \in store : Key(r) = <<c, "user">> /\ r.at = i
          \/ Key(new) = <<c, "user">> /\ new.at = i
  BY <1>2
<1>. QED  BY <1>1, <1>3 DEF UserAt

\* A time has one turn, and a turn one time.
LEMMA OneTurnAtATime ==
  ASSUME RecordInv, NEW c \in Chats, NEW d \in Chats, NEW i, NEW j,
         UserAt(c, i), UserAt(d, j)
  PROVE  c = d <=> i = j
<1>1. PICK r \in store : Key(r) = <<c, "user">> /\ r.at = i
  BY DEF UserAt
<1>2. PICK s \in store : Key(s) = <<d, "user">> /\ s.at = j
  BY DEF UserAt
<1>3. r.turn = c /\ s.turn = d
  BY <1>1, <1>2 DEF Key
<1>. QED  BY <1>1, <1>2, <1>3 DEF RecordInv

LEMMA ChatAtFacts ==
  ASSUME RecordInv, LogInv, NEW i \in 1 .. now
  PROVE  /\ ChatAt(i) \in Chats /\ UserAt(ChatAt(i), i)
         /\ \A c \in Chats : UserAt(c, i) => c = ChatAt(i)
<1>1. \E c \in Chats : UserAt(c, i)
  BY DEF LogInv
<1>2. ChatAt(i) \in Chats /\ UserAt(ChatAt(i), i)
  BY <1>1 DEF ChatAt
<1>. QED  BY <1>2, OneTurnAtATime

LEMMA InitLogInv == Init => LogInv
<1>. SUFFICES ASSUME Init PROVE LogInv
  OBVIOUS
<1>1. now = 0 /\ store = {} /\ pc = [c \in Chats |-> "idle"] /\ before = [c \in Chats |-> {}]
  BY DEF Init
<1>2. 1 .. now = {}
  BY <1>1
<1>. QED  BY <1>1, <1>2 DEF LogInv

\* The store and the clock stay, and no chat gets between two reads or writes
\* unless no other is.
LEMMA LogKeeps ==
  ASSUME TurnInv, ReadInv, LogInv, UNCHANGED <<store, now>>, NEW c \in Chats,
         NEW where \in {"older", "flow", "done"},
         pc' = [pc EXCEPT ![c] = where],
         where = "older" => LoopFree,
         \A d \in Chats : d # c => before'[d] = before[d]
  PROVE  LogInv'
<1>1. \A d : \A i : UserAt(d, i)' <=> UserAt(d, i)
  BY DEF UserAt
<1>2. \A d : Stored(d, "model")' <=> Stored(d, "model")
  BY DEF Stored
<1>3. \A d \in Chats : d # c => pc'[d] = pc[d]
  BY DEF TurnInv
<1>4. pc'[c] = where
  BY DEF TurnInv
<1>5. \A d, e \in Chats :
        pc'[d] \in {"older", "writing"} /\ pc'[e] \in {"older", "writing"} => d = e
  BY <1>3, <1>4 DEF LogInv, LoopFree
<1>6. \A d \in Chats :
        /\ pc'[d] = "writing" => UserAt(d, now) /\ ~ Stored(d, "model")
        /\ pc'[d] = "idle" => before'[d] = {}
  BY <1>3, <1>4 DEF LogInv
<1>. QED  BY <1>1, <1>2, <1>5, <1>6 DEF LogInv

LEMMA StoreUserLog ==
  ASSUME AllInv, NEW c \in Chats, pc[c] = "flow", LoopFree, StoreUser(c), UNCHANGED before,
         NEW where \in {"writing", "done"}, Goto(c, where)
  PROVE  /\ LogInv'
         /\ \A d \in Chats : \A i : UserAt(d, i)' <=> UserAt(d, i) \/ (d = c /\ i = now + 1)
         /\ \A d : Stored(d, "model")' <=> Stored(d, "model")
<1>1. /\ now' = now + 1 /\ store' = store \cup {Record(c, "user", now + 1)}
      /\ pc' = [pc EXCEPT ![c] = where] /\ now \in Nat
  BY DEF StoreUser, Goto, AllInv, RecordInv
<1>2. \A d : \A i : UserAt(d, i)' <=> UserAt(d, i) \/ (d = c /\ i = now + 1)
  BY <1>1, UserAtAdds
<1>3. \A d : Stored(d, "model")' <=> Stored(d, "model")
  BY <1>1, WriteAdds
<1>4. \A i \in 1 .. now + 1 : \E d \in Chats : UserAt(d, i)'
  <2>. TAKE i \in 1 .. now + 1
  <2>1. CASE i = now + 1
    BY <1>2, <2>1
  <2>2. CASE i # now + 1
    <3>1. i \in 1 .. now
      BY <1>1, <2>2
    <3>. QED  BY <1>2, <3>1 DEF AllInv, LogInv
  <2>. QED  BY <2>1, <2>2
<1>5. \A d \in Chats : \A r \in store' : Key(r) = <<d, "user">> => r.at \in 1 .. now + 1
  <2>1. \A d \in Chats : \A r \in store : Key(r) = <<d, "user">> => r.at \in 1 .. now
    BY DEF AllInv, LogInv
  <2>2. Record(c, "user", now + 1).at = now + 1
    BY RecordOf
  <2>. QED  BY <1>1, <2>1, <2>2
<1>6. /\ pc'[c] = where /\ \A d \in Chats : d # c => pc'[d] = pc[d]
      /\ ~ Stored(c, "model")
  BY <1>1 DEF AllInv, TurnInv, StoredAt
<1>7. \A d \in Chats : /\ d # c => pc'[d] \notin {"older", "writing"}
                       /\ pc'[d] = "idle" => before'[d] = {}
  BY <1>1, <1>6 DEF LoopFree, AllInv, LogInv
<1>8. LogInv'
  BY <1>1, <1>2, <1>3, <1>4, <1>5, <1>6, <1>7 DEF LogInv
<1>. QED  BY <1>2, <1>3, <1>8

LEMMA StoreReplyLog ==
  ASSUME AllInv, NEW c \in Chats, pc[c] = "writing", StoreReply(c), UNCHANGED before,
         NEW where \in {"replying", "done"}, Goto(c, where)
  PROVE  /\ LogInv'
         /\ \A d \in Chats : \A i : UserAt(d, i)' <=> UserAt(d, i)
         /\ \A d : Stored(d, "model")' <=> Stored(d, "model") \/ d = c
<1>1. PICK at : store' = store \cup {Record(c, "model", at)}
  BY DEF StoreReply
<1>2. now' = now /\ pc' = [pc EXCEPT ![c] = where]
  BY DEF StoreReply, Goto
<1>3. \A d : \A i : UserAt(d, i)' <=> UserAt(d, i)
  BY <1>1, UserAtAdds
<1>4. \A d : Stored(d, "model")' <=> Stored(d, "model") \/ d = c
  BY <1>1, WriteAdds
<1>5. pc'[c] = where /\ \A d \in Chats : d # c => pc'[d] = pc[d]
  BY <1>2 DEF AllInv, TurnInv
<1>6. \A d \in Chats : \A r \in store' : Key(r) = <<d, "user">> => r.at \in 1 .. now
  <2>1. \A d \in Chats : \A r \in store : Key(r) = <<d, "user">> => r.at \in 1 .. now
    BY DEF AllInv, LogInv
  <2>2. Key(Record(c, "model", at)) = <<c, "model">>
    BY RecordOf
  <2>. QED  BY <1>1, <2>1, <2>2
<1>7. \A d \in Chats : d # c => pc'[d] \notin {"older", "writing"}
  BY <1>2, <1>5 DEF AllInv, LogInv
<1>8. LogInv'
  BY <1>2, <1>3, <1>4, <1>5, <1>6, <1>7 DEF AllInv, LogInv
<1>. QED  BY <1>3, <1>4, <1>8

LEMMA ExternalWriteLog ==
  ASSUME AllInv, NEW m \in External, ExternalWrite(m)
  PROVE  /\ LogInv'
         /\ \A d \in Chats : \A i : UserAt(d, i)' <=> UserAt(d, i)
         /\ \A d : Stored(d, "model")' <=> Stored(d, "model")
<1>1. PICK at : store' = store \cup {Record(m, "external_agent", at)}
  BY DEF ExternalWrite
<1>2. UNCHANGED <<now, pc, before>>
  BY DEF ExternalWrite
<1>3. \A d : \A i : UserAt(d, i)' <=> UserAt(d, i)
  BY <1>1, UserAtAdds
<1>4. \A d : Stored(d, "model")' <=> Stored(d, "model")
  BY <1>1, WriteAdds
<1>5. \A d \in Chats : \A r \in store' : Key(r) = <<d, "user">> => r.at \in 1 .. now
  <2>1. \A d \in Chats : \A r \in store : Key(r) = <<d, "user">> => r.at \in 1 .. now
    BY DEF AllInv, LogInv
  <2>2. Key(Record(m, "external_agent", at)) = <<m, "external_agent">>
    BY RecordOf
  <2>. QED  BY <1>1, <2>1, <2>2
<1>6. LogInv'
  BY <1>2, <1>3, <1>4, <1>5 DEF AllInv, LogInv
<1>. QED  BY <1>3, <1>4, <1>6

LEMMA CrashLog ==
  ASSUME AllInv, Crash
  PROVE  LogInv'
<1>1. UNCHANGED <<store, now, before>>
  BY DEF Crash
<1>2. \A c \in Chats : \/ pc'[c] = pc[c] /\ pc[c] \in {"idle", "done"}
                       \/ pc'[c] = "done"
  BY DEF Crash
<1>3. \A d : \A i : UserAt(d, i)' <=> UserAt(d, i)
  BY <1>1 DEF UserAt
<1>. QED  BY <1>1, <1>2, <1>3 DEF AllInv, LogInv

LEMMA NextLogInv == AllInv /\ [Next]_vars => AllInv'
<1>. SUFFICES ASSUME AllInv, [Next]_vars PROVE AllInv'
  OBVIOUS
<1>1. TurnInv' /\ RecordInv' /\ ReadInv'
  BY NextTurnInv, NextReadInv DEF AllInv
<1>. SUFFICES LogInv'
  BY <1>1 DEF AllInv
<1>2. ASSUME NEW c \in Chats,
             \/ ReadRecent(c) \/ ReadOlder(c) \/ ReadAll(c) \/ ReadFails(c)
             \/ FlowFails(c) \/ Timeout(c) \/ Reply(c)
             \/ (WriteUserFails(c) \/ WriteReplyFails(c)) /\ UNCHANGED <<store, now>>
      PROVE  LogInv'
  <2>1. /\ UNCHANGED <<store, now>>
        /\ \E where \in {"older", "flow", "done"} :
             pc' = [pc EXCEPT ![c] = where] /\ (where = "older" => LoopFree)
    BY <1>2 DEF ReadRecent, ReadOlder, ReadAll, ReadFails, FlowFails, Timeout,
       WriteUserFails, WriteReplyFails, Reply, End, Goto
  <2>2. \A d \in Chats : d # c => before'[d] = before[d]
    BY <1>2 DEF ReadRecent, ReadOlder, ReadAll, ReadFails, FlowFails, Timeout,
       WriteUserFails, WriteReplyFails, Reply, AllInv, ReadInv
  <2>. QED  BY <2>1, <2>2, LogKeeps DEF AllInv
<1>3. CASE UNCHANGED vars
  <2>1. UNCHANGED <<store, now, pc, before>>
    BY <1>3 DEF vars
  <2>2. \A d : \A i : UserAt(d, i)' <=> UserAt(d, i)
    BY <2>1 DEF UserAt
  <2>3. \A d : Stored(d, "model")' <=> Stored(d, "model")
    BY <2>1 DEF Stored
  <2>. QED  BY <2>1, <2>2, <2>3 DEF AllInv, LogInv
<1>4. ASSUME NEW c \in Chats,
             \/ (WriteUser(c) \/ WriteUserFails(c)) /\ StoreUser(c)
             \/ (WriteReply(c) \/ WriteReplyFails(c)) /\ StoreReply(c)
      PROVE  LogInv'
  BY <1>4, StoreUserLog, StoreReplyLog
     DEF WriteUser, WriteUserFails, WriteReply, WriteReplyFails, End
<1>5. ASSUME NEW m \in External, ExternalWrite(m) PROVE LogInv'
  BY <1>5, ExternalWriteLog
<1>6. CASE Crash
  BY <1>6, CrashLog
<1>7. ASSUME NEW c \in Chats,
             WriteUser(c) \/ WriteUserFails(c) \/ WriteReply(c) \/ WriteReplyFails(c)
      PROVE  LogInv'
  BY <1>2, <1>4, <1>7 DEF WriteUser, WriteUserFails, WriteReply, WriteReplyFails
<1>. QED  BY <1>2, <1>3, <1>5, <1>6, <1>7 DEF Next

LEMMA LogInvariant == Spec => []AllInv
<1>1. Init => AllInv
  BY InitTurnInv, InitRecordInv, InitLogInv DEF AllInv
<1>. QED  BY <1>1, NextLogInv, PTL DEF Spec

-----------------------------------------------------------------------------
(* Every step is a step of the log of turns, or none *)

Entry(i) == [chat |-> ChatAt(i), answered |-> Stored(ChatAt(i), "model")]

\* The log has an entry for every time that is settled.
LogOK ==
  /\ Settled \in Nat /\ Settled <= now /\ now \in Nat
  /\ Log \in Seq([chat : Chats, answered : BOOLEAN]) /\ Len(Log) = Settled
  /\ \A i \in 1 .. Settled : Log[i] = Entry(i)
  /\ \A i \in 1 .. now : /\ ChatAt(i) \in Chats /\ UserAt(ChatAt(i), i)
                         /\ \A c \in Chats : UserAt(c, i) => c = ChatAt(i)

LEMMA LogFacts == AllInv => LogOK
<1>. SUFFICES ASSUME AllInv PROVE LogOK
  OBVIOUS
<1>1. now \in Nat
  BY DEF AllInv, RecordInv
<1>2. Settled \in Nat /\ Settled <= now
  <2>1. ASSUME NEW c \in Chats, pc[c] = "writing" PROVE now - 1 \in Nat
    <3>1. UserAt(c, now)
      BY <2>1 DEF AllInv, LogInv
    <3>2. now \in 1 .. now
      BY <3>1 DEF UserAt, AllInv, LogInv
    <3>. QED  BY <1>1, <3>2
  <2>. QED  BY <1>1, <2>1 DEF Settled
<1>3. \A i \in 1 .. now : /\ ChatAt(i) \in Chats /\ UserAt(ChatAt(i), i)
                          /\ \A c \in Chats : UserAt(c, i) => c = ChatAt(i)
  BY ChatAtFacts DEF AllInv
<1>4. \A i : Stored(ChatAt(i), "model") \in BOOLEAN
  BY Zenon DEF Stored
<1>5. Log \in [1 .. Settled -> [chat : Chats, answered : BOOLEAN]]
  BY <1>1, <1>2, <1>3, <1>4 DEF Log
<1>6. Log \in Seq([chat : Chats, answered : BOOLEAN]) /\ Len(Log) = Settled
  <2> DEFINE T == [chat : Chats, answered : BOOLEAN]
  <2>. HIDE DEF T
  <2>1. Log \in [1 .. Settled -> T]
    BY <1>5 DEF T
  <2>2. Log \in Seq(T)
    BY <1>2, <2>1, SeqDef
  <2>3. DOMAIN Log = 1 .. Len(Log) /\ Len(Log) \in Nat
    BY <2>2, LenProperties
  <2>4. Len(Log) = Settled
    BY <1>2, <2>1, <2>3
  <2>. QED  BY <2>2, <2>4 DEF T
<1>7. \A i \in 1 .. Settled : Log[i] = Entry(i)
  BY DEF Log, Entry
<1>. QED  BY <1>1, <1>2, <1>3, <1>6, <1>7 DEF LogOK

\* Nothing of a settled turn changes.
SettledStays ==
  /\ Settled <= Settled'
  /\ \A c \in Chats : \A i \in 1 .. Settled : UserAt(c, i) =>
       UserAt(c, i)' /\ (Stored(c, "model")' <=> Stored(c, "model"))

LEMMA EntryStays ==
  ASSUME AllInv, AllInv', SettledStays, NEW i \in 1 .. Settled
  PROVE  Log'[i] = Log[i]
<1>1. LogOK
  BY LogFacts
<1>2. AllInv' => LogOK'
  BY LogFacts, PTL
<1>3. i \in 1 .. now /\ i \in 1 .. Settled' /\ i \in 1 .. now'
  BY <1>1, <1>2 DEF LogOK, SettledStays
<1>4. ChatAt(i) \in Chats /\ UserAt(ChatAt(i), i)
  BY <1>1, <1>3 DEF LogOK
<1>5. PICK c : c = ChatAt(i)
  OBVIOUS
<1>6. Entry(i)' = Entry(i)
  <2>1. c \in Chats /\ UserAt(c, i)' /\ (Stored(c, "model")' <=> Stored(c, "model"))
    BY <1>4, <1>5 DEF SettledStays
  <2>2. ChatAt(i)' = c
    BY <1>2, <1>3, <2>1 DEF LogOK
  <2>3. Stored(ChatAt(i), "model") <=> Stored(c, "model")
    BY <1>5
  <2>4. Stored(ChatAt(i), "model")' <=> Stored(c, "model")'
    BY <2>2 DEF Stored
  <2>5. Stored(ChatAt(i), "model")' = Stored(ChatAt(i), "model")
    <3>1. /\ Stored(ChatAt(i), "model") \in BOOLEAN
          /\ Stored(ChatAt(i), "model")' \in BOOLEAN
      BY Zenon DEF Stored
    <3>. QED  BY <2>1, <2>3, <2>4, <3>1
  <2>. QED  BY <1>5, <2>2, <2>5, Zenon DEF Entry
<1>. QED  BY <1>1, <1>2, <1>3, <1>6 DEF LogOK

LEMMA LogSame ==
  ASSUME AllInv, AllInv', SettledStays, Settled' = Settled
  PROVE  Log' = Log
<1>1. LogOK
  BY LogFacts
<1>2. AllInv' => LogOK'
  BY LogFacts, PTL
<1>. QED  BY <1>1, <1>2, EntryStays, SeqEqual DEF LogOK

\* A chat is in the log when its message is stored, and settled.
LEMMA LoggedFacts ==
  ASSUME AllInv, NEW c \in Chats
  PROVE  /\ Turns!Logged(c) => \E i \in 1 .. Settled : UserAt(c, i)
         /\ pc[c] \in {"idle", "older", "flow"} => ~ Turns!Logged(c)
<1>1. LogOK
  BY LogFacts
<1>2. ASSUME Turns!Logged(c)
      PROVE  \E i \in 1 .. Settled : UserAt(c, i)
  <2>1. PICK i \in DOMAIN Log : Log[i].chat = c
    BY <1>2 DEF Turns!Logged
  <2>2. i \in 1 .. Settled /\ i \in 1 .. now
    BY <1>1, <2>1, LenProperties DEF LogOK
  <2>3. Log[i] = Entry(i) /\ Entry(i).chat = ChatAt(i)
    BY <1>1, <2>2 DEF LogOK, Entry
  <2>4. c = ChatAt(i)
    BY <2>1, <2>3
  <2>. QED  BY <1>1, <2>2, <2>4 DEF LogOK
<1>3. (\E i \in 1 .. Settled : UserAt(c, i)) => Stored(c, "user")
  BY DEF UserAt, Stored
<1>. QED  BY <1>2, <1>3 DEF AllInv, TurnInv, StoredAt

LEMMA LogGrows ==
  ASSUME AllInv, AllInv', SettledStays, NEW n, n = Settled + 1, Settled' = n,
         NEW c \in Chats, UserAt(c, n)', \A i \in 1 .. Settled : ~ UserAt(c, i),
         NEW answered \in BOOLEAN, Stored(c, "model")' <=> answered
  PROVE  Turns!Appends(c, answered)
<1>1. LogOK
  BY LogFacts
<1>2. AllInv' => LogOK'
  BY LogFacts, PTL
<1> DEFINE T == [chat : Chats, answered : BOOLEAN]
           new == [chat |-> c, answered |-> answered]
<1>3. new \in T
  OBVIOUS
<1>4. Log'[n] = new
  <2>1. n \in 1 .. Settled' /\ n \in 1 .. now'
    BY <1>1, <1>2 DEF LogOK
  <2>2. ChatAt(n)' = c
    BY <1>2, <2>1 DEF LogOK
  <2>3. Stored(ChatAt(n), "model")' <=> answered
    BY <2>2 DEF Stored
  <2>4. Entry(n)' = new
    <3>1. Stored(ChatAt(n), "model")' \in BOOLEAN
      BY Zenon DEF Stored
    <3>2. Stored(ChatAt(n), "model")' = answered
      BY <2>3, <3>1
    <3>. QED  BY <2>2, <3>2, Zenon DEF Entry
  <2>. QED  BY <1>2, <2>1, <2>4 DEF LogOK
<1>5. /\ Append(Log, new) \in Seq(T)
      /\ Len(Append(Log, new)) = n
      /\ \A i \in 1 .. Settled : Append(Log, new)[i] = Log[i]
      /\ Append(Log, new)[n] = new
  BY <1>1, <1>3, AppendProperties DEF LogOK
<1>6. \A i \in 1 .. n : Log'[i] = Append(Log, new)[i]
  <2>1. \A i \in 1 .. Settled : Log'[i] = Log[i]
    BY EntryStays
  <2>2. \A i \in 1 .. n : i \in 1 .. Settled \/ i = n
    BY <1>1 DEF LogOK
  <2>. QED  BY <1>4, <1>5, <2>1, <2>2
<1>7. Log' \in Seq(T) /\ Len(Log') = n
  BY <1>2 DEF LogOK
<1>. HIDE DEF T, new
<1>8. Log' = Append(Log, new)
  BY <1>5, <1>6, <1>7, SeqEqual
<1>9. ~ Turns!Logged(c)
  BY LoggedFacts
<1>. QED  BY <1>8, <1>9 DEF new, Turns!Appends, Turns!Turn

\* The turn that is being written is the next one.
LEMMA WritingFacts ==
  ASSUME AllInv, NEW c \in Chats, pc[c] = "writing"
  PROVE  /\ now = Settled + 1 /\ Settled \in Nat
         /\ \A d \in Chats : d # c => pc[d] # "writing"
         /\ UserAt(c, now) /\ ~ Stored(c, "model") /\ outcome[c] = "none"
         /\ \A d \in Chats : \A i \in 1 .. Settled : UserAt(d, i) => d # c
<1>1. LogOK
  BY LogFacts
<1>2. now = Settled + 1 /\ Settled \in Nat /\ now \in Nat
  BY <1>1 DEF LogOK, Settled
<1>3. /\ \A d \in Chats : d # c => pc[d] # "writing"
      /\ UserAt(c, now) /\ ~ Stored(c, "model") /\ outcome[c] = "none"
  BY DEF AllInv, LogInv, TurnInv, StoredAt
<1>4. ASSUME NEW d \in Chats, NEW i \in 1 .. Settled, UserAt(d, i) PROVE d # c
  <2>1. i # now
    BY <1>2
  <2>. QED  BY <1>3, <1>4, <2>1, OneTurnAtATime DEF AllInv
<1>. QED  BY <1>2, <1>3, <1>4

LEMMA Unwritten ==
  ASSUME NEW c, UNCHANGED store
  PROVE  /\ \A i : UserAt(c, i)' <=> UserAt(c, i)
         /\ Stored(c, "model")' <=> Stored(c, "model")
BY DEF UserAt, Stored

LEMMA QuietLog ==
  ASSUME AllInv, AllInv', UNCHANGED store, Settled' = Settled
  PROVE  Log' = Log
<1>1. Settled \in Nat
  BY LogFacts DEF LogOK
<1>2. SettledStays
  BY <1>1, Unwritten DEF SettledStays
<1>. QED  BY <1>2, LogSame

\* Chats that write nothing settle nothing.
LEMMA SettledSame ==
  ASSUME TurnInv, NEW c \in Chats, NEW where, UNCHANGED now,
         pc' = [pc EXCEPT ![c] = where], where # "writing", pc[c] # "writing"
  PROVE  Settled' = Settled
<1>1. \A d \in Chats : pc'[d] = "writing" <=> pc[d] = "writing"
  BY DEF TurnInv
<1>. QED  BY <1>1 DEF Settled

SeenOf == [c \in Chats |-> Seen(c)]

LEMMA SeenSame ==
  ASSUME UNCHANGED before
  PROVE  SeenOf' = SeenOf
<1>1. \A c : Seen(c)' = Seen(c)
  BY DEF Seen
<1>. QED  BY <1>1 DEF SeenOf

-----------------------------------------------------------------------------
LEMMA ReadRefines ==
  ASSUME AllInv, AllInv', NEW c \in Chats, ReadRecent(c) \/ ReadAll(c)
  PROVE  Turns!Reads(c)
<1>1. /\ pc[c] = "idle" /\ LoopFree /\ UNCHANGED <<store, now, outcome>>
      /\ before' = [before EXCEPT ![c] = store]
      /\ \E where \in {"older", "flow"} : pc' = [pc EXCEPT ![c] = where]
  BY DEF ReadRecent, ReadAll, Goto
<1>2. Settled' = Settled /\ Settled = now
  BY <1>1, SettledSame DEF AllInv, LoopFree, Settled
<1>3. Log' = Log
  BY <1>1, <1>2, QuietLog
<1>4. LogOK /\ before'[c] = store /\ \A d \in Chats : d # c => before'[d] = before[d]
  BY <1>1, LogFacts DEF AllInv, ReadInv
<1>5. Seen(c)' = {Log[i] : i \in DOMAIN Log}
  <2> DEFINE entry(d) == [chat |-> d, answered |-> HeldBy(store, d, "model")]
             turns == {d \in Chats : HeldBy(store, d, "user")}
  <2>1. Seen(c)' = {entry(d) : d \in turns}
    BY <1>4, Zenon DEF Seen
  <2>2. \A d \in Chats : d \in turns <=> \E i \in 1 .. Settled : d = ChatAt(i)
    <3>. TAKE d \in Chats
    <3>1. d \in turns <=> \E r \in store : Key(r) = <<d, "user">>
      BY DEF HeldBy
    <3>2. ASSUME NEW r \in store, Key(r) = <<d, "user">>
          PROVE  \E i \in 1 .. Settled : d = ChatAt(i)
      <4>1. r.at \in 1 .. now /\ UserAt(d, r.at)
        BY <3>2 DEF AllInv, LogInv, UserAt
      <4>2. d = ChatAt(r.at)
        BY <1>4, <4>1 DEF LogOK
      <4>. QED  BY <1>2, <4>1, <4>2
    <3>3. ASSUME NEW i \in 1 .. Settled, d = ChatAt(i)
          PROVE  \E r \in store : Key(r) = <<d, "user">>
      <4>1. UserAt(ChatAt(i), i)
        BY <1>2, <1>4 DEF LogOK
      <4>. QED  BY <3>3, <4>1 DEF UserAt
    <3>. QED  BY <3>1, <3>2, <3>3
  <2>3. \A i \in 1 .. Settled : Log[i] = entry(ChatAt(i)) /\ ChatAt(i) \in Chats
    <3>1. \A i \in 1 .. Settled : Log[i] = Entry(i) /\ ChatAt(i) \in Chats
      BY <1>2, <1>4 DEF LogOK
    <3>2. \A i : Entry(i) = entry(ChatAt(i))
      BY Zenon DEF Entry, HeldBy, Stored
    <3>. QED  BY <3>1, <3>2
  <2>4. DOMAIN Log = 1 .. Settled
    BY <1>4, LenProperties DEF LogOK
  <2>. HIDE DEF entry, turns
  <2>5. turns \subseteq Chats
    BY DEF turns
  <2>. QED  BY <2>1, <2>2, <2>3, <2>4, <2>5
<1>6. SeenOf' = [SeenOf EXCEPT ![c] = {Log[i] : i \in DOMAIN Log}]
  <2>1. \A d \in Chats : d # c => Seen(d)' = Seen(d)
    BY <1>4, Zenon DEF Seen
  <2>. QED  BY <1>5, <2>1 DEF SeenOf
<1>7. outcome[c] = "none" /\ SeenOf[c] = {}
  <2>1. before[c] = {} /\ outcome[c] = "none"
    BY <1>1 DEF AllInv, LogInv, TurnInv, StoredAt
  <2>2. Seen(c) = {}
    BY <2>1 DEF Seen, HeldBy
  <2>. QED  BY <2>1, <2>2 DEF SeenOf
<1>8. ~ Turns!Logged(c)
  BY <1>1, LoggedFacts
<1>. QED  BY <1>1, <1>3, <1>6, <1>7, <1>8 DEF Turns!Reads, Turns!Running, SeenOf

LEMMA FailRefines ==
  ASSUME AllInv, AllInv', NEW c \in Chats,
         \/ ReadFails(c) \/ FlowFails(c) \/ Timeout(c)
         \/ WriteUserFails(c) /\ UNCHANGED <<store, now>>
  PROVE  Turns!Next
<1>1. /\ pc[c] \in {"idle", "older", "flow"} /\ UNCHANGED <<store, now, before>>
      /\ pc' = [pc EXCEPT ![c] = "done"]
      /\ \E how \in {"error", "timeout", "persist_failed"} :
           outcome' = [outcome EXCEPT ![c] = how]
  BY DEF ReadFails, FlowFails, Timeout, WriteUserFails, End, Goto
<1>2. Settled' = Settled
  BY <1>1, SettledSame DEF AllInv
<1>3. Log' = Log /\ SeenOf' = SeenOf
  BY <1>1, <1>2, QuietLog, SeenSame
<1>4. outcome[c] = "none" /\ ~ Turns!Logged(c)
  BY <1>1, LoggedFacts DEF AllInv, TurnInv, StoredAt
<1>5. \E how \in {"error", "timeout", "persist_failed"} : Turns!Fails(c, how)
  BY <1>1, <1>3, <1>4 DEF Turns!Fails, Turns!Ends, Turns!Running, SeenOf
<1>. QED  BY <1>5 DEF Turns!Next, Turns!PersistFails

\* The user's message is stored: alone, if the write raises.
LEMMA StoreUserRefines ==
  ASSUME AllInv, AllInv', NEW c \in Chats, StoreUser(c)
  PROVE  /\ WriteUser(c) => UNCHANGED Turns!vars
         /\ WriteUserFails(c) => Turns!PersistFails(c)
<1>. SUFFICES ASSUME WriteUser(c) \/ WriteUserFails(c)
              PROVE  /\ WriteUser(c) => UNCHANGED Turns!vars
                     /\ WriteUserFails(c) => Turns!PersistFails(c)
  OBVIOUS
<1>1. pc[c] = "flow" /\ LoopFree /\ UNCHANGED before /\ now' = now + 1
  BY DEF WriteUser, WriteUserFails, StoreUser
<1>2. /\ \A d \in Chats : \A i : UserAt(d, i)' <=> UserAt(d, i) \/ (d = c /\ i = now + 1)
      /\ \A d : Stored(d, "model")' <=> Stored(d, "model")
  BY <1>1, StoreUserLog DEF WriteUser, WriteUserFails, End
<1>3. LogOK /\ now \in Nat
  BY LogFacts DEF LogOK
<1>4. Settled = now
  BY <1>1 DEF LoopFree, Settled
<1>5. Settled' \in {now, now + 1} => SettledStays
  BY <1>2, <1>3, <1>4 DEF SettledStays
<1>6. SeenOf' = SeenOf
  BY <1>1, SeenSame
<1>7. ASSUME WriteUser(c)
      PROVE  UNCHANGED Turns!vars
  <2>1. pc' = [pc EXCEPT ![c] = "writing"] /\ UNCHANGED outcome
    BY <1>7 DEF WriteUser, Goto
  <2>2. pc'[c] = "writing"
    BY <2>1 DEF AllInv, TurnInv
  <2>3. Settled' = now
    BY <1>1, <1>3, <2>2 DEF Settled
  <2>4. Log' = Log
    BY <1>4, <1>5, <2>3, LogSame
  <2>. QED  BY <1>6, <2>1, <2>4 DEF Turns!vars, SeenOf
<1>8. ASSUME WriteUserFails(c)
      PROVE  Turns!PersistFails(c)
  <2>1. /\ pc' = [pc EXCEPT ![c] = "done"]
        /\ outcome' = [outcome EXCEPT ![c] = "persist_failed"]
    BY <1>8 DEF WriteUserFails, End, Goto
  <2>2. \A d \in Chats : pc'[d] # "writing"
    BY <1>1, <2>1 DEF LoopFree, AllInv, TurnInv
  <2>3. Settled' = now + 1
    BY <1>1, <2>2 DEF Settled
  <2>4. /\ ~ Stored(c, "user") /\ ~ Stored(c, "model") /\ outcome[c] = "none"
    BY <1>1 DEF AllInv, TurnInv, StoredAt
  <2>5. \A i \in 1 .. Settled : ~ UserAt(c, i)
    BY <2>4 DEF UserAt, Stored
  <2>6. PICK n : n = now + 1
    OBVIOUS
  <2>7. n = Settled + 1 /\ Settled' = n /\ UserAt(c, n)'
    BY <1>2, <1>4, <2>3, <2>6
  <2>8. Stored(c, "model")' <=> FALSE
    BY <1>2, <2>4
  <2>9. SettledStays
    BY <1>5, <2>3
  <2>10. Turns!Appends(c, FALSE)
    BY <2>5, <2>7, <2>8, <2>9, LogGrows
  <2>11. Turns!Ends(c, "persist_failed")
    BY <1>6, <2>1, <2>4 DEF Turns!Ends, Turns!Running, SeenOf
  <2>. QED  BY <2>10, <2>11 DEF Turns!PersistFails
<1>. QED  BY <1>7, <1>8

\* The turn of c is settled.
LEMMA SettlesTurn ==
  ASSUME AllInv, AllInv', NEW c \in Chats, pc[c] = "writing", UNCHANGED <<now, before>>,
         \A d \in Chats : pc'[d] # "writing",
         \A d \in Chats : \A i : UserAt(d, i)' <=> UserAt(d, i),
         NEW answered \in BOOLEAN, Stored(c, "model")' <=> answered,
         \A d \in Chats : d # c => (Stored(d, "model")' <=> Stored(d, "model"))
  PROVE  Turns!Appends(c, answered) /\ SeenOf' = SeenOf
<1>1. /\ now = Settled + 1 /\ Settled \in Nat /\ UserAt(c, now)
      /\ \A d \in Chats : \A i \in 1 .. Settled : UserAt(d, i) => d # c
  BY WritingFacts
<1>2. Settled' = now
  BY DEF Settled
<1>3. SettledStays
  BY <1>1, <1>2 DEF SettledStays
<1>4. PICK n : n = now
  OBVIOUS
<1>5. n = Settled + 1 /\ Settled' = n /\ UserAt(c, n)'
  BY <1>1, <1>2, <1>4
<1>6. \A i \in 1 .. Settled : ~ UserAt(c, i)
  BY <1>1
<1>. QED  BY <1>3, <1>5, <1>6, LogGrows, SeenSame

\* The reply is stored, whether the write returns or raises.
LEMMA StoreReplyRefines ==
  ASSUME AllInv, AllInv', NEW c \in Chats, StoreReply(c),
         WriteReply(c) \/ WriteReplyFails(c)
  PROVE  Turns!Next
<1>1. /\ pc[c] = "writing" /\ UNCHANGED <<now, before>>
      /\ \/ pc' = [pc EXCEPT ![c] = "replying"] /\ UNCHANGED outcome
         \/ /\ pc' = [pc EXCEPT ![c] = "done"]
            /\ outcome' = [outcome EXCEPT ![c] = "persist_failed"]
  BY DEF StoreReply, WriteReply, WriteReplyFails, End, Goto
<1>2. /\ outcome[c] = "none"
      /\ \A d \in Chats : pc'[d] # "writing"
  BY <1>1, WritingFacts DEF AllInv, TurnInv
<1>3. /\ \A d \in Chats : \A i : UserAt(d, i)' <=> UserAt(d, i)
      /\ \A d : Stored(d, "model")' <=> Stored(d, "model") \/ d = c
  BY <1>1, StoreReplyLog DEF WriteReply, WriteReplyFails, End
<1>4. Turns!Appends(c, TRUE) /\ SeenOf' = SeenOf
  BY <1>1, <1>2, <1>3, SettlesTurn
<1>5. CASE UNCHANGED outcome
  <2>1. Turns!Records(c)
    BY <1>2, <1>4, <1>5 DEF Turns!Records, Turns!Running, SeenOf
  <2>. QED  BY <2>1 DEF Turns!Next
<1>6. CASE outcome' = [outcome EXCEPT ![c] = "persist_failed"]
  <2>1. Turns!Ends(c, "persist_failed")
    BY <1>2, <1>4, <1>6 DEF Turns!Ends, Turns!Running, SeenOf
  <2>2. Turns!PersistFails(c)
    BY <1>4, <2>1 DEF Turns!PersistFails
  <2>. QED  BY <2>2 DEF Turns!Next
<1>. QED  BY <1>1, <1>5, <1>6

\* The reply is not stored.
LEMMA WriteReplyFailsRefines ==
  ASSUME AllInv, AllInv', NEW c \in Chats, WriteReplyFails(c), UNCHANGED <<store, now>>
  PROVE  Turns!PersistFails(c)
<1>1. /\ pc[c] = "writing" /\ UNCHANGED <<store, now, before>>
      /\ pc' = [pc EXCEPT ![c] = "done"]
      /\ outcome' = [outcome EXCEPT ![c] = "persist_failed"]
  BY DEF WriteReplyFails, End, Goto
<1>2. /\ outcome[c] = "none" /\ ~ Stored(c, "model")
      /\ \A d \in Chats : pc'[d] # "writing"
  BY <1>1, WritingFacts DEF AllInv, TurnInv
<1>3. \A d : /\ \A i : UserAt(d, i)' <=> UserAt(d, i)
             /\ Stored(d, "model")' <=> Stored(d, "model")
  BY <1>1, Unwritten
<1>4. Turns!Appends(c, FALSE) /\ SeenOf' = SeenOf
  BY <1>1, <1>2, <1>3, SettlesTurn
<1>5. Turns!Ends(c, "persist_failed")
  BY <1>1, <1>2, <1>4 DEF Turns!Ends, Turns!Running, SeenOf
<1>. QED  BY <1>4, <1>5 DEF Turns!PersistFails

\* The caller gets its reply when the whole turn is in the log.
LEMMA ReplyRefines ==
  ASSUME AllInv, AllInv', NEW c \in Chats, Reply(c)
  PROVE  Turns!Replies(c)
<1>1. /\ pc[c] = "replying" /\ UNCHANGED <<store, now, before>>
      /\ pc' = [pc EXCEPT ![c] = "done"]
      /\ outcome' = [outcome EXCEPT ![c] = "reply"]
  BY DEF Reply, End, Goto
<1>2. Settled' = Settled
  BY <1>1, SettledSame DEF AllInv
<1>3. Log' = Log /\ SeenOf' = SeenOf
  BY <1>1, <1>2, QuietLog, SeenSame
<1>4. outcome[c] = "none" /\ Stored(c, "user") /\ Stored(c, "model")
  BY <1>1 DEF AllInv, TurnInv, StoredAt
<1>5. PICK i \in 1 .. now : UserAt(c, i)
  <2>1. PICK r \in store : Key(r) = <<c, "user">>
    BY <1>4 DEF Stored
  <2>. QED  BY <2>1 DEF AllInv, LogInv, UserAt
<1>6. LogOK
  BY LogFacts
<1>7. i \in 1 .. Settled
  <2>1. ASSUME NEW d \in Chats, pc[d] = "writing"
        PROVE  i # now
    <3>1. UserAt(d, now) /\ d # c
      BY <1>1, <2>1 DEF AllInv, LogInv
    <3>. QED  BY <1>5, <3>1, OneTurnAtATime DEF AllInv
  <2>. QED  BY <1>6, <2>1 DEF Settled, LogOK
<1>8. Log[i] = Entry(i) /\ ChatAt(i) = c /\ i \in DOMAIN Log
  BY <1>5, <1>6, <1>7, LenProperties DEF LogOK
<1>9. Entry(i) = Turns!Turn(c, TRUE)
  <2>1. Stored(c, "model") = TRUE
    <3>1. Stored(c, "model") \in BOOLEAN
      BY Zenon DEF Stored
    <3>. QED  BY <1>4, <3>1
  <2>2. Stored(ChatAt(i), "model") = TRUE
    BY <1>8, <2>1, Zenon
  <2>. QED  BY <1>8, <2>2, Zenon DEF Entry, Turns!Turn
<1>10. \E j \in DOMAIN Log : Log[j] = Turns!Turn(c, TRUE)
  BY <1>8, <1>9
<1>. QED  BY <1>1, <1>3, <1>4, <1>10 DEF Turns!Replies, Turns!Ends, Turns!Running, SeenOf

LEMMA ExternalWriteRefines ==
  ASSUME AllInv, AllInv', NEW m \in External, ExternalWrite(m)
  PROVE  UNCHANGED Turns!vars
<1>1. UNCHANGED <<now, pc, before, outcome>>
  BY DEF ExternalWrite
<1>2. Settled' = Settled /\ Settled \in Nat
  BY <1>1, LogFacts DEF Settled, LogOK
<1>3. SettledStays
  BY <1>2, ExternalWriteLog DEF SettledStays
<1>4. Log' = Log /\ SeenOf' = SeenOf
  BY <1>1, <1>2, <1>3, LogSame, SeenSame
<1>. QED  BY <1>1, <1>4 DEF Turns!vars, SeenOf

\* The adapter dies: at most one of its chats had written half of its turn.
LEMMA CrashRefines ==
  ASSUME AllInv, AllInv', Crash
  PROVE  \E lost \in SUBSET Chats : Turns!Crash(lost)
<1> DEFINE lost == {c \in Chats : pc[c] \notin {"idle", "done"}}
<1>1. /\ lost # {} /\ UNCHANGED <<store, now, before>>
      /\ pc' = [c \in Chats |-> IF c \in lost THEN "done" ELSE pc[c]]
      /\ outcome' = [c \in Chats |-> IF c \in lost THEN "crashed" ELSE outcome[c]]
  BY DEF Crash
<1>2. \A c \in lost : outcome[c] = "none"
  BY DEF AllInv, TurnInv, StoredAt
<1>3. \A d \in Chats : pc'[d] # "writing"
  BY <1>1
<1>4. SeenOf' = SeenOf
  BY <1>1, SeenSame
<1>5. UNCHANGED Log \/ \E c \in lost : Turns!Appends(c, FALSE)
  <2>1. CASE \A c \in Chats : pc[c] # "writing"
    <3>1. Settled' = Settled
      BY <1>1, <1>3, <2>1 DEF Settled
    <3>. QED  BY <1>1, <3>1, QuietLog
  <2>2. ASSUME NEW c \in Chats, pc[c] = "writing"
        PROVE  c \in lost /\ Turns!Appends(c, FALSE)
    <3>1. ~ Stored(c, "model")
      BY <2>2, WritingFacts
    <3>2. \A d : /\ \A i : UserAt(d, i)' <=> UserAt(d, i)
                 /\ Stored(d, "model")' <=> Stored(d, "model")
      BY <1>1, Unwritten
    <3>. QED  BY <1>1, <1>3, <2>2, <3>1, <3>2, SettlesTurn
  <2>. QED  BY <2>1, <2>2
<1>6. lost \in SUBSET Chats
  OBVIOUS
<1>. HIDE DEF lost
<1>7. Turns!Crash(lost)
  BY <1>1, <1>2, <1>4, <1>5 DEF Turns!Crash, Turns!Running, SeenOf
<1>. QED  BY <1>6, <1>7

LEMMA InitTurns == Init => Turns!Init
<1>. SUFFICES ASSUME Init PROVE Turns!Init
  OBVIOUS
<1>1. /\ now = 0 /\ before = [c \in Chats |-> {}] /\ outcome = [c \in Chats |-> "none"]
      /\ pc = [c \in Chats |-> "idle"]
  BY DEF Init
<1>2. AllInv
  BY InitTurnInv, InitRecordInv, InitLogInv DEF AllInv
<1>3. Log = <<>>
  <2>1. Log \in Seq([chat : Chats, answered : BOOLEAN]) /\ Len(Log) = 0
    BY <1>1, <1>2, LogFacts DEF LogOK, Settled
  <2>. QED  BY <2>1, EmptySeq
<1>4. \A c \in Chats : Seen(c) = {}
  BY <1>1 DEF Seen, HeldBy
<1>. QED  BY <1>1, <1>3, <1>4 DEF Turns!Init

LEMMA StepTurns == AllInv /\ AllInv' /\ [Next]_vars => [Turns!Next]_(Turns!vars)
<1>. SUFFICES ASSUME AllInv, AllInv', [Next]_vars
              PROVE  Turns!Next \/ UNCHANGED Turns!vars
  OBVIOUS
<1>1. ASSUME NEW c \in Chats, ReadRecent(c) \/ ReadAll(c) PROVE Turns!Next
  BY <1>1, ReadRefines DEF Turns!Next
<1>2. ASSUME NEW c \in Chats, ReadOlder(c) PROVE UNCHANGED Turns!vars
  <2>1. /\ pc[c] = "older" /\ UNCHANGED <<store, now, before, outcome>>
        /\ pc' = [pc EXCEPT ![c] = "flow"]
    BY <1>2 DEF ReadOlder, Goto
  <2>2. Settled' = Settled
    BY <2>1, SettledSame DEF AllInv
  <2>3. Log' = Log /\ SeenOf' = SeenOf
    BY <2>1, <2>2, QuietLog, SeenSame
  <2>. QED  BY <2>1, <2>3 DEF Turns!vars, SeenOf
<1>3. ASSUME NEW c \in Chats, ReadFails(c) \/ FlowFails(c) \/ Timeout(c) PROVE Turns!Next
  BY <1>3, FailRefines
<1>4. ASSUME NEW c \in Chats, WriteUser(c) \/ WriteUserFails(c)
      PROVE  Turns!Next \/ UNCHANGED Turns!vars
  <2>1. CASE StoreUser(c)
    BY <1>4, <2>1, StoreUserRefines DEF Turns!Next
  <2>2. CASE WriteUserFails(c) /\ UNCHANGED <<store, now>>
    BY <2>2, FailRefines
  <2>. QED  BY <1>4, <2>1, <2>2 DEF WriteUser, WriteUserFails
<1>5. ASSUME NEW c \in Chats, WriteReply(c) \/ WriteReplyFails(c) \/ Reply(c)
      PROVE  Turns!Next
  <2>1. CASE Reply(c)
    BY <2>1, ReplyRefines DEF Turns!Next
  <2>2. CASE StoreReply(c) /\ (WriteReply(c) \/ WriteReplyFails(c))
    BY <2>2, StoreReplyRefines
  <2>3. CASE WriteReplyFails(c) /\ UNCHANGED <<store, now>>
    BY <2>3, WriteReplyFailsRefines DEF Turns!Next
  <2>. QED  BY <1>5, <2>1, <2>2, <2>3 DEF WriteReply, WriteReplyFails
<1>6. ASSUME NEW m \in External, ExternalWrite(m) PROVE UNCHANGED Turns!vars
  BY <1>6, ExternalWriteRefines
<1>7. CASE Crash
  BY <1>7, CrashRefines DEF Turns!Next
<1>8. CASE UNCHANGED vars
  <2>1. UNCHANGED <<store, now, pc, before, outcome>>
    BY <1>8 DEF vars
  <2>2. Settled' = Settled
    BY <2>1 DEF Settled
  <2>3. Log' = Log /\ SeenOf' = SeenOf
    BY <2>1, <2>2, QuietLog, SeenSame
  <2>. QED  BY <2>1, <2>3 DEF Turns!vars, SeenOf
<1>. QED  BY <1>1, <1>2, <1>3, <1>4, <1>5, <1>6, <1>7, <1>8 DEF Next

\* Behind two writes with times and a store without order there is a log of turns,
\* of which every chat reads whole ones and appends one, or none: before its caller
\* gets the reply, and never when it is told of an error or a timeout.
THEOREM TurnsImplemented == Spec => TurnsRecorded
BY InitTurns, StepTurns, LogInvariant, PTL DEF Spec, TurnsRecorded, Turns!Spec
=============================================================================
