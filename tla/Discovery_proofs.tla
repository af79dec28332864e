-------------------------- MODULE Discovery_proofs --------------------------
(***************************************************************************)
(* Proofs about Discovery, for any servers and names, and for answers and  *)
(* lists of any length: a published list offers what servers answered      *)
(* well with, and forgets no command of a server that gave no usable       *)
(* answer.  Both need what Select returns, which is defined by recursion.  *)
(***************************************************************************)
EXTENDS Discovery, TLAPS, WellFoundedInduction, SequenceTheorems

LEMMA LeastNat ==
  ASSUME NEW S, S \subseteq Nat, S # {}
  PROVE  \E n \in S : \A m \in S : n <= m
<1>1. \E n \in S : \A m \in S : ~ (<<m, n>> \in OpToRel(<, Nat))
  BY NatLessThanWellFounded, WFMin
<1>2. PICK n \in S : \A m \in S : ~ (<<m, n>> \in OpToRel(<, Nat))
  BY <1>1
<1>3. \A m \in S : ~ (m < n)
  BY <1>2, Zenon DEF OpToRel
<1> QED BY <1>3

-----------------------------------------------------------------------------
(* Selected elements *)

\* The equation of the loop in Select.
Chooses(f, seq, at, n) ==
  f = [i \in 0 .. n |-> IF i = 0 THEN <<>>
                        ELSE IF i \in at THEN Append(f[i - 1], seq[i])
                        ELSE f[i - 1]]

\* It has a solution for each length: otherwise there were a shortest without.
LEMMA ChoosesExists ==
  ASSUME NEW seq, NEW at, NEW n \in Nat
  PROVE  \E f : Chooses(f, seq, at, n)
<1> DEFINE none == {m \in Nat : ~ \E f : Chooses(f, seq, at, m)}
<1> SUFFICES ASSUME none # {} PROVE FALSE
  OBVIOUS
<1>1. PICK m \in none : \A k \in none : m <= k
  <2>1. none \subseteq Nat
    OBVIOUS
  <2> QED BY <2>1, LeastNat
<1>2. CASE m = 0
  <2> DEFINE f == [i \in 0 .. 0 |-> <<>>]
  <2>1. f = [i \in 0 .. 0 |-> IF i = 0 THEN <<>>
                              ELSE IF i \in at THEN Append(f[i - 1], seq[i])
                              ELSE f[i - 1]]
    OBVIOUS
  <2>2. Chooses(f, seq, at, m)
    BY <1>2, <2>1 DEF Chooses
  <2> QED BY <1>1, <2>2
<1>3. CASE m # 0
  <2>1. m - 1 \in Nat /\ m - 1 < m /\ m \in Nat
    BY <1>1, <1>3
  <2>2. PICK g : Chooses(g, seq, at, m - 1)
    BY <1>1, <2>1
  <2> DEFINE f == [i \in 0 .. m |->
                     IF i = m THEN IF m \in at THEN Append(g[m - 1], seq[m]) ELSE g[m - 1]
                     ELSE g[i]]
  <2>3. \A i \in 0 .. m - 1 :
          g[i] = IF i = 0 THEN <<>>
                 ELSE IF i \in at THEN Append(g[i - 1], seq[i]) ELSE g[i - 1]
    BY <2>2, Zenon DEF Chooses
  <2>4. ASSUME NEW i \in 0 .. m
        PROVE  f[i] = IF i = 0 THEN <<>>
                      ELSE IF i \in at THEN Append(f[i - 1], seq[i]) ELSE f[i - 1]
    <3>1. i # 0 => i - 1 \in 0 .. m /\ i - 1 # m /\ f[i - 1] = g[i - 1]
      BY <2>1
    <3>2. CASE i = m
      BY <1>3, <3>1, <3>2
    <3>3. CASE i # m
      <4>1. i \in 0 .. m - 1 /\ f[i] = g[i]
        BY <2>1, <3>3
      <4> QED BY <2>3, <3>1, <4>1
    <3> QED BY <3>2, <3>3
  <2>5. f = [i \in 0 .. m |-> f[i]]
    OBVIOUS
  <2> HIDE DEF f
  <2>6. Chooses(f, seq, at, m)
    BY <2>4, <2>5 DEF Chooses
  <2> QED BY <1>1, <2>6
<1> QED BY <1>2, <1>3

\* Select returns the elements at the positions, and no others.
LEMMA SelectFacts ==
  ASSUME NEW S, NEW seq \in Seq(S), NEW at, NEW T,
         \A i \in DOMAIN seq : i \in at => seq[i] \in T
  PROVE  /\ Select(seq, at) \in Seq(T)
         /\ \A i \in DOMAIN seq : i \in at =>
              \E k \in DOMAIN Select(seq, at) : Select(seq, at)[k] = seq[i]
<1> DEFINE n == Len(seq)
           f == CHOOSE f : Chooses(f, seq, at, n)
<1>1. n \in Nat /\ DOMAIN seq = 1 .. n
  BY LenProperties
<1>2. Chooses(f, seq, at, n)
  BY <1>1, ChoosesExists, Zenon
<1>3. Select(seq, at) = f[n]
  BY Zenon DEF Select, Chooses
<1> HIDE DEF n, f
<1>4. \A i \in 0 .. n :
        f[i] = IF i = 0 THEN <<>>
               ELSE IF i \in at THEN Append(f[i - 1], seq[i]) ELSE f[i - 1]
  BY <1>2, Zenon DEF Chooses
<1> DEFINE Good(m) == /\ f[m] \in Seq(T)
                      /\ \A i \in 1 .. m : i \in at =>
                           \E k \in DOMAIN f[m] : f[m][k] = seq[i]
           bad == {m \in 0 .. n : ~ Good(m)}
<1>5. bad = {}
  <2> SUFFICES ASSUME bad # {} PROVE FALSE
    OBVIOUS
  <2>1. PICK m \in bad : \A k \in bad : m <= k
    <3>1. bad \subseteq Nat
      BY <1>1
    <3> QED BY <3>1, LeastNat
  <2>2. m # 0
    <3>1. ASSUME m = 0 PROVE Good(m)
      <4>1. f[0] = <<>>
        BY <1>1, <1>4
      <4>2. 1 .. 0 = {}
        OBVIOUS
      <4> QED BY <3>1, <4>1, <4>2
    <3> QED BY <2>1, <3>1
  <2>3. m \in 1 .. n /\ m - 1 \in 0 .. n /\ ~ (m <= m - 1)
    BY <1>1, <2>1, <2>2
  <2>4. Good(m - 1)
    BY <2>1, <2>3
  <2>5. \A i \in 1 .. m : i \in 1 .. m - 1 \/ i = m
    BY <2>3
  <2>6. CASE m \in at
    <3>1. f[m] = Append(f[m - 1], seq[m]) /\ seq[m] \in T
      <4>1. m \in 0 .. n /\ m # 0 /\ m \in DOMAIN seq
        BY <1>1, <2>1, <2>2, <2>3
      <4>2. f[m] = Append(f[m - 1], seq[m])
        BY <1>4, <2>6, <4>1, Zenon
      <4> QED BY <2>6, <4>1, <4>2
    <3> DEFINE g == f[m - 1]
    <3>2. g \in Seq(T) /\ \A i \in 1 .. m - 1 : i \in at => \E k \in DOMAIN g : g[k] = seq[i]
      BY <2>4
    <3>3. /\ Append(g, seq[m]) \in Seq(T)
          /\ \A k \in DOMAIN g : k \in DOMAIN Append(g, seq[m])
                                 /\ Append(g, seq[m])[k] = g[k]
          /\ \E k \in DOMAIN Append(g, seq[m]) : Append(g, seq[m])[k] = seq[m]
      <4>1. /\ Append(g, seq[m]) \in Seq(T)
            /\ Len(Append(g, seq[m])) = Len(g) + 1
            /\ \A k \in 1 .. Len(g) : Append(g, seq[m])[k] = g[k]
            /\ Append(g, seq[m])[Len(g) + 1] = seq[m]
        BY <3>1, <3>2, AppendProperties
      <4>2. DOMAIN g = 1 .. Len(g) /\ Len(g) \in Nat
            /\ DOMAIN Append(g, seq[m]) = 1 .. Len(g) + 1
        BY <3>2, <4>1, LenProperties
      <4> HIDE DEF g
      <4>3. Len(g) + 1 \in 1 .. Len(g) + 1
        BY <4>2
      <4> QED BY <4>1, <4>2, <4>3
    <3> HIDE DEF g
    <3>4. \A i \in 1 .. m : i \in at =>
            \E k \in DOMAIN Append(g, seq[m]) : Append(g, seq[m])[k] = seq[i]
      BY <2>5, <3>2, <3>3
    <3>5. f[m] = Append(g, seq[m])
      BY <3>1 DEF g
    <3>6. Good(m)
      BY <3>3, <3>4, <3>5
    <3> QED BY <2>1, <3>6
  <2>7. CASE m \notin at
    <3>1. f[m] = f[m - 1]
      BY <1>1, <1>4, <2>3, <2>7
    <3>2. Good(m)
      BY <2>4, <2>5, <2>7, <3>1
    <3> QED BY <2>1, <3>2
  <2> QED BY <2>6, <2>7
<1>6. Good(n)
  BY <1>1, <1>5
<1> QED BY <1>1, <1>3, <1>6

-----------------------------------------------------------------------------
(* What a server's answer adds *)

Answers == Seq(Names \cup {Odd, Broken})

LEMMA ListsAreAnswers ==
  /\ CommandLists \subseteq Answers
  /\ ProxyLists \subseteq Answers
  /\ Upto(ServerEntries, MaxServers) \subseteq Seq(ServerEntries)
<1>1. ASSUME NEW A, NEW B, A \subseteq B, NEW n \in Nat
      PROVE  Upto(A, n) \subseteq Seq(B)
  <2>1. ASSUME NEW s \in Upto(A, n)
        PROVE  s \in Seq(B)
    <3>1. PICK k \in 0 .. n : s \in [1 .. k -> A]
      BY <2>1 DEF Upto
    <3>2. k \in Nat /\ s \in [1 .. k -> B]
      BY <1>1, <3>1
    <3> QED BY <3>2, SeqDef
  <2> QED BY <2>1
<1>2. MaxCommands \in Nat /\ MaxServers \in Nat
  BY ConstantsAssumption
<1> QED BY <1>1, <1>2 DEF CommandLists, ProxyLists, Answers

\* The commands of an answer, until one raises.
LEMMA ParsedFacts ==
  ASSUME NEW commands \in Answers, NEW server \in Servers
  PROVE  /\ Parsed(commands, server) \in Seq(Entries)
         /\ \A k \in DOMAIN Parsed(commands, server) :
              /\ Parsed(commands, server)[k].available
              /\ Parsed(commands, server)[k].server = server
<1> DEFINE at == {i \in DOMAIN commands :
                    commands[i] # Odd /\ \A j \in 1 .. i : commands[j] # Broken}
           names == Select(commands, at)
           parsed == [k \in DOMAIN names |->
                        [name |-> names[k], server |-> server, available |-> TRUE]]
<1>1. \A i \in DOMAIN commands : i \in at => commands[i] \in Names
  <2>1. /\ commands \in [1 .. Len(commands) -> Names \cup {Odd, Broken}]
        /\ DOMAIN commands = 1 .. Len(commands) /\ Len(commands) \in Nat
    BY LenProperties DEF Answers
  <2>2. ASSUME NEW i \in at
        PROVE  commands[i] \in Names
    <3>1. i \in 1 .. Len(commands) /\ i \in 1 .. i
      BY <2>1
    <3> QED BY <2>1, <3>1
  <2> QED BY <2>2
<1>2. names \in Seq(Names)
  <2> HIDE DEF at
  <2> QED BY <1>1, SelectFacts DEF Answers
<1>3. Parsed(commands, server) = parsed
  BY DEF Parsed
<1> HIDE DEF names
<1>4. /\ names \in [1 .. Len(names) -> Names]
      /\ DOMAIN names = 1 .. Len(names) /\ Len(names) \in Nat
  BY <1>2, LenProperties
<1>5. \A k \in DOMAIN names : [name |-> names[k], server |-> server, available |-> TRUE]
                                \in Entries
  BY <1>4 DEF Entries
<1>6. parsed \in [1 .. Len(names) -> Entries]
  BY <1>4, <1>5
<1>7. parsed \in Seq(Entries)
  BY <1>4, <1>6, SeqDef
<1>8. \A k \in DOMAIN parsed : parsed[k].available /\ parsed[k].server = server
  BY Zenon
<1> QED BY <1>3, <1>7, <1>8

LEMMA UnavailableFacts ==
  ASSUME NEW entries \in Seq(Entries)
  PROVE  /\ Unavailable(entries) \in Seq(Entries)
         /\ Available(Unavailable(entries)) = {}
         /\ Known(Unavailable(entries)) = Known(entries)
<1> DEFINE u == Unavailable(entries)
<1>1. /\ entries \in [1 .. Len(entries) -> Entries]
      /\ DOMAIN entries = 1 .. Len(entries) /\ Len(entries) \in Nat
  BY LenProperties
<1>2. DOMAIN u = DOMAIN entries
  BY DEF Unavailable
<1>3. ASSUME NEW i \in DOMAIN entries
      PROVE  /\ u[i] \in Entries /\ u[i].available = FALSE
             /\ Command(u[i]) = Command(entries[i])
  <2>1. u[i] = [entries[i] EXCEPT !.available = FALSE] /\ entries[i] \in Entries
    BY <1>1 DEF Unavailable
  <2> HIDE DEF u
  <2> QED BY <2>1 DEF Entries, Command
<1>4. u \in Seq(Entries)
  <2>1. u = [i \in 1 .. Len(entries) |-> u[i]]
    BY <1>1 DEF Unavailable
  <2> HIDE DEF u
  <2>2. u \in [1 .. Len(entries) -> Entries]
    BY <1>1, <1>3, <2>1
  <2> QED BY <1>1, <2>2, SeqDef
<1> HIDE DEF u
<1>5. Available(u) = {}
  BY <1>2, <1>3 DEF Available
<1>6. Known(u) = Known(entries)
  BY <1>2, <1>3 DEF Known
<1> QED BY <1>4, <1>5, <1>6 DEF u

\* What the cache has of a server.
LEMMA OfServerFacts ==
  ASSUME NEW entries \in Seq(Entries), NEW server
  PROVE  /\ OfServer(entries, server) \in Seq(Entries)
         /\ \A c \in Known(entries) : c.server = server => c \in Known(OfServer(entries, server))
<1> DEFINE at == {i \in DOMAIN entries : entries[i].server = server}
           kept == Select(entries, at)
<1>1. \A i \in DOMAIN entries : i \in at => entries[i] \in Entries
  BY LenProperties
<1>2. OfServer(entries, server) = kept
  BY DEF OfServer
<1>3. /\ kept \in Seq(Entries)
      /\ \A i \in DOMAIN entries : i \in at => \E k \in DOMAIN kept : kept[k] = entries[i]
  <2> HIDE DEF at
  <2> QED BY <1>1, SelectFacts
<1> HIDE DEF kept
<1>4. ASSUME NEW c \in Known(entries), c.server = server
      PROVE  c \in Known(kept)
  <2>1. PICK i \in DOMAIN entries : c = Command(entries[i])
    BY <1>4 DEF Known
  <2>2. entries[i].server = server
    BY <1>4, <2>1 DEF Command
  <2>3. PICK k \in DOMAIN kept : kept[k] = entries[i]
    BY <1>3, <2>2
  <2> QED BY <2>1, <2>3 DEF Known
<1> QED BY <1>2, <1>3, <1>4

\* A list that is appended adds its commands.
LEMMA JoinFacts ==
  ASSUME NEW a \in Seq(Entries), NEW b \in Seq(Entries)
  PROVE  /\ a \o b \in Seq(Entries)
         /\ Available(a \o b) = Available(a) \cup Available(b)
         /\ Known(a \o b) = Known(a) \cup Known(b)
<1> DEFINE ab == a \o b
<1>1. /\ ab \in Seq(Entries)
      /\ Len(ab) = Len(a) + Len(b)
      /\ \A i \in 1 .. Len(a) + Len(b) :
           ab[i] = IF i <= Len(a) THEN a[i] ELSE b[i - Len(a)]
  BY ConcatProperties
<1>2. /\ DOMAIN a = 1 .. Len(a) /\ Len(a) \in Nat
      /\ DOMAIN b = 1 .. Len(b) /\ Len(b) \in Nat
      /\ DOMAIN ab = 1 .. Len(a) + Len(b)
  BY <1>1, LenProperties
<1> HIDE DEF ab
<1>3. ASSUME NEW i \in DOMAIN ab
      PROVE  (\E k \in DOMAIN a : ab[i] = a[k]) \/ (\E k \in DOMAIN b : ab[i] = b[k])
  <2>1. CASE i <= Len(a)
    <3>1. i \in DOMAIN a /\ ab[i] = a[i]
      BY <1>1, <1>2, <2>1
    <3> QED BY <3>1
  <2>2. CASE ~ (i <= Len(a))
    <3>1. i - Len(a) \in DOMAIN b /\ ab[i] = b[i - Len(a)]
      BY <1>1, <1>2, <2>2
    <3> QED BY <3>1
  <2> QED BY <2>1, <2>2
<1>4. ASSUME NEW k \in DOMAIN a
      PROVE  \E i \in DOMAIN ab : ab[i] = a[k]
  <2>1. k \in DOMAIN ab /\ ab[k] = a[k]
    BY <1>1, <1>2
  <2> QED BY <2>1
<1>5. ASSUME NEW k \in DOMAIN b
      PROVE  \E i \in DOMAIN ab : ab[i] = b[k]
  <2>1. k + Len(a) \in DOMAIN ab /\ ab[k + Len(a)] = b[k]
    BY <1>1, <1>2
  <2> QED BY <2>1
<1>6. Available(ab) = Available(a) \cup Available(b)
  <2>1. ASSUME NEW c \in Available(ab)
        PROVE  c \in Available(a) \cup Available(b)
    BY <1>3 DEF Available
  <2>2. ASSUME NEW c \in Available(a) \cup Available(b)
        PROVE  c \in Available(ab)
    BY <1>4, <1>5 DEF Available
  <2> QED BY <2>1, <2>2
<1>7. Known(ab) = Known(a) \cup Known(b)
  <2>1. ASSUME NEW c \in Known(ab)
        PROVE  c \in Known(a) \cup Known(b)
    BY <1>3 DEF Known
  <2>2. ASSUME NEW c \in Known(a) \cup Known(b)
        PROVE  c \in Known(ab)
    BY <1>4, <1>5 DEF Known
  <2> QED BY <2>1, <2>2
<1> QED BY <1>1, <1>6, <1>7 DEF ab

\* The commands that make a server healthy in this refresh.
Healthy(commands, server) ==
  IF Raises(commands) THEN {}
  ELSE {[name |-> e.name, server |-> server] :
          e \in {Parsed(commands, server)[i] : i \in DOMAIN Parsed(commands, server)}}

\* An answer makes available just what it is healthy with, and otherwise keeps what
\* the cache knows of the server.
LEMMA TakenFacts ==
  ASSUME NEW commands \in Answers, NEW server \in Servers, cache \in Seq(Entries)
  PROVE  /\ Taken(commands, server) \in Seq(Entries)
         /\ Available(Taken(commands, server)) = Healthy(commands, server)
         /\ Healthy(commands, server) = {} =>
              \A c \in Known(cache) :
                c.server = server => c \in Known(Taken(commands, server))
         /\ \A h \in Healthy(commands, server) : h.server = server
         /\ Healthy(commands, server) \subseteq [name : Names, server : Servers]
<1> DEFINE parsed == Parsed(commands, server)
           old == OfServer(cache, server)
           kept == Unavailable(old)
<1>1. /\ parsed \in Seq(Entries)
      /\ \A k \in DOMAIN parsed : parsed[k].available /\ parsed[k].server = server
  BY ParsedFacts
<1>2. /\ old \in Seq(Entries)
      /\ \A c \in Known(cache) : c.server = server => c \in Known(old)
  BY OfServerFacts
<1> HIDE DEF old
<1>3. /\ kept \in Seq(Entries) /\ Available(kept) = {}
      /\ \A c \in Known(cache) : c.server = server => c \in Known(kept)
  BY <1>2, UnavailableFacts
<1>4. Unavailable(parsed) \in Seq(Entries) /\ Available(Unavailable(parsed)) = {}
  BY <1>1, UnavailableFacts
<1>5. Taken(commands, server) = IF Raises(commands) THEN Unavailable(parsed) \o kept
                                ELSE IF parsed = <<>> THEN kept ELSE parsed
  BY DEF Taken, old
<1>6. Healthy(commands, server) =
        IF Raises(commands) THEN {}
        ELSE {[name |-> e.name, server |-> server] : e \in {parsed[i] : i \in DOMAIN parsed}}
  BY DEF Healthy
<1> HIDE DEF parsed, kept
<1>7. \A i \in DOMAIN parsed : parsed[i] \in Entries
  BY <1>1, LenProperties
<1>8. \A h \in Healthy(commands, server) : h.server = server /\ h \in [name : Names, server : Servers]
  BY <1>6, <1>7 DEF Entries
<1>9. CASE Raises(commands)
  <2>1. /\ Unavailable(parsed) \o kept \in Seq(Entries)
        /\ Available(Unavailable(parsed) \o kept) = {}
        /\ Known(kept) \subseteq Known(Unavailable(parsed) \o kept)
    BY <1>3, <1>4, JoinFacts
  <2> QED BY <1>3, <1>5, <1>6, <1>8, <1>9, <2>1
<1>10. CASE ~ Raises(commands) /\ parsed = <<>>
  <2>1. DOMAIN parsed = {}
    <3>1. Len(parsed) = 0
      BY <1>10, EmptySeq
    <3>2. DOMAIN parsed = 1 .. 0
      BY <1>1, <3>1, LenProperties
    <3> QED BY <3>2
  <2>2. Healthy(commands, server) = {}
    BY <1>6, <1>10, <2>1
  <2> QED BY <1>3, <1>5, <1>8, <1>10, <2>2
<1>11. CASE ~ Raises(commands) /\ parsed # <<>>
  <2>1. Taken(commands, server) = parsed
    BY <1>5, <1>11
  <2>2. Available(parsed) = Healthy(commands, server)
    <3>1. Available(parsed) = {Command(parsed[i]) : i \in DOMAIN parsed}
      BY <1>1 DEF Available
    <3>2. \A i \in DOMAIN parsed : Command(parsed[i]) = [name |-> parsed[i].name, server |-> server]
      BY <1>1 DEF Command
    <3>3. Healthy(commands, server) = {[name |-> parsed[i].name, server |-> server] : i \in DOMAIN parsed}
      BY <1>6, <1>11
    <3> QED BY <3>1, <3>2, <3>3
  <2>3. DOMAIN parsed # {}
    <3>1. Len(parsed) \in Nat \ {0}
      BY <1>1, <1>11, EmptySeq
    <3>2. 1 \in DOMAIN parsed
      BY <1>1, <3>1, LenProperties
    <3> QED BY <3>2
  <2>4. Healthy(commands, server) # {}
    BY <1>6, <1>11, <2>3
  <2> QED BY <1>1, <1>8, <2>1, <2>2, <2>4
<1> QED BY <1>9, <1>10, <1>11

-----------------------------------------------------------------------------
(* The refresh *)

\* What a server that was asked, but is not healthy, had in the cache is in the new
\* one.
Remembered ==
  \A c \in Known(cache) :
    c.server \in asked /\ (\A h \in healthy : h.server # c.server) => c \in Known(fresh)

\* The inductive invariant: the cache that is being made already has of the servers
\* that were asked what the properties say of a published one.
DInv ==
  /\ TypeOK
  /\ AvailableIffServed
  /\ pc = "list" => asked = {} /\ healthy = {}
  /\ pc = "servers" => Available(fresh) = healthy /\ Remembered

LEMMA EmptyLists ==
  <<>> \in Seq(Entries) /\ <<>> \in Seq(ServerEntries)
  /\ Available(<<>>) = {} /\ Known(<<>>) = {}
<1>1. <<>> \in Seq(Entries) /\ <<>> \in Seq(ServerEntries) /\ Len(<<>>) = 0
  BY EmptySeq
<1>2. DOMAIN <<>> = 1 .. 0
  BY <1>1, LenProperties
<1>3. DOMAIN <<>> = {}
  BY <1>2
<1> QED BY <1>1, <1>3 DEF Available, Known

LEMMA InitDInv == Init => DInv
BY EmptyLists DEF Init, DInv, TypeOK, AvailableIffServed

LEMMA TakeCommandsKeeps ==
  ASSUME DInv, NEW commands \in Answers, pc = "servers", todo # <<>>,
         TakeCommands(commands)
  PROVE  DInv'
<1> DEFINE server == Head(todo).server
           taken == Taken(commands, server)
           more == Healthy(commands, server)
<1>1. Head(todo) \in ServerEntries /\ Tail(todo) \in Seq(ServerEntries)
  BY HeadTailProperties DEF DInv, TypeOK
<1>2. server \in Servers
  BY <1>1 DEF ServerEntries
<1> HIDE DEF server
<1>3. cache \in Seq(Entries) /\ fresh \in Seq(Entries)
  BY DEF DInv, TypeOK
<1>4. /\ taken \in Seq(Entries)
      /\ Available(taken) = more
      /\ more = {} => \A c \in Known(cache) : c.server = server => c \in Known(taken)
      /\ \A h \in more : h.server = server
      /\ more \subseteq [name : Names, server : Servers]
  BY <1>2, <1>3, TakenFacts
<1>5. fresh' = fresh \o taken /\ asked' = asked \cup {server}
      /\ todo' = Tail(todo) /\ UNCHANGED <<cache, pc, served>>
  BY DEF TakeCommands, server
<1>6. healthy' = healthy \cup more
  BY DEF TakeCommands, Healthy, server
<1>7. down' \subseteq Servers
  BY <1>2 DEF TakeCommands, server, DInv, TypeOK
<1> HIDE DEF taken, more
<1>8. /\ fresh' \in Seq(Entries)
      /\ Available(fresh') = Available(fresh) \cup Available(taken)
      /\ Known(fresh') = Known(fresh) \cup Known(taken)
  BY <1>3, <1>4, <1>5, JoinFacts
<1>9. TypeOK'
  BY <1>1, <1>2, <1>4, <1>5, <1>6, <1>7, <1>8 DEF DInv, TypeOK
<1>10. AvailableIffServed'
  BY <1>5 DEF DInv, AvailableIffServed, Available
<1>11. Available(fresh') = healthy'
  BY <1>4, <1>6, <1>8 DEF DInv
<1>12. ASSUME NEW c \in Known(cache), c.server \in asked',
              \A h \in healthy' : h.server # c.server
       PROVE  c \in Known(fresh')
  <2>1. CASE c.server \in asked
    <3>1. c \in Known(fresh)
      BY <1>6, <1>12, <2>1 DEF DInv, Remembered
    <3> QED BY <1>8, <3>1
  <2>2. CASE c.server = server
    <3>1. more = {}
      BY <1>4, <1>6, <1>12, <2>2
    <3>2. c \in Known(taken)
      BY <1>4, <2>2, <3>1
    <3> QED BY <1>8, <3>2
  <2> QED BY <1>5, <1>12, <2>1, <2>2
<1>13. Remembered'
  <2>1. Known(cache)' = Known(cache) /\ Known(fresh)' = Known(fresh')
    BY <1>5 DEF Known
  <2> QED BY <1>12, <2>1 DEF Remembered
<1>14. Available(fresh)' = healthy'
  BY <1>11 DEF Available
<1> QED BY <1>5, <1>9, <1>10, <1>13, <1>14 DEF DInv

LEMMA NextDInv == DInv /\ [Next]_vars => DInv'
<1> SUFFICES ASSUME DInv, [Next]_vars PROVE DInv'
  OBVIOUS
<1> USE DEF DInv, TypeOK, AvailableIffServed, Available, Remembered, Known
<1>1. CASE StartRefresh
  BY <1>1 DEF StartRefresh
<1>2. CASE ListFails
  BY <1>2 DEF ListFails
<1>3. ASSUME NEW servers \in Upto(ServerEntries, MaxServers), ListAnswers(servers)
      PROVE  DInv'
  <2>1. servers \in Seq(ServerEntries)
    BY ListsAreAnswers
  <2>2. fresh' = <<>> /\ asked' = {} /\ healthy' = {} /\ UNCHANGED <<cache, down, served>>
        /\ todo' = servers /\ pc' = "servers"
    BY <1>3 DEF ListAnswers
  <2>3. Available(<<>>) = {} /\ <<>> \in Seq(Entries)
    BY EmptyLists
  <2> QED BY <2>1, <2>2, <2>3
<1>4. CASE SkipServer
  <2>1. Tail(todo) \in Seq(ServerEntries)
    BY <1>4, HeadTailProperties DEF SkipServer
  <2> QED BY <1>4, <2>1 DEF SkipServer
<1>5. CASE RefreshRaises \/ Cancelled
  BY <1>5, EmptyLists DEF RefreshRaises, Cancelled
<1>6. CASE Publish
  BY <1>6 DEF Publish
<1>7. ASSUME NEW commands \in CommandLists, FetchAnswers(commands)
      PROVE  DInv'
  <2>1. commands \in Answers
    BY ListsAreAnswers
  <2> HIDE DEF DInv
  <2> QED BY <1>7, <2>1, TakeCommandsKeeps DEF FetchAnswers
<1>8. ASSUME NEW commands \in ProxyLists, TakeListed(commands)
      PROVE  DInv'
  <2>1. commands \in Answers
    BY ListsAreAnswers
  <2> HIDE DEF DInv
  <2> QED BY <1>8, <2>1, TakeCommandsKeeps DEF TakeListed
<1>9. CASE UNCHANGED vars
  BY <1>9 DEF vars
<1> QED BY <1>1, <1>2, <1>3, <1>4, <1>5, <1>6, <1>7, <1>8, <1>9 DEF Next

LEMMA DInvariant == Spec => []DInv
BY InitDInv, NextDInv, PTL DEF Spec

-----------------------------------------------------------------------------
(* The theorems *)

\* The cache, also while it is made, is a list of commands.
THEOREM TypeCorrect == Spec => []TypeOK
<1>1. DInv => TypeOK
  BY DEF DInv
<1> QED BY <1>1, DInvariant, PTL

\* A published list offers what servers answered well with in its refresh, and
\* nothing else.
THEOREM AvailableAreServed == Spec => []AvailableIffServed
<1>1. DInv => AvailableIffServed
  BY DEF DInv
<1> QED BY <1>1, DInvariant, PTL

\* Publishing forgets no command of a server that was asked and gave no usable answer.
THEOREM KnownAreKept == Spec => KnownCommandsKept
<1>1. DInv /\ [Next]_vars =>
        [cache' # cache =>
           \A c \in Known(cache) :
             c.server \in asked /\ (\A h \in healthy : h.server # c.server)
               => c \in Known(cache')]_vars
  <2> SUFFICES ASSUME DInv, Next, cache' # cache
               PROVE  \A c \in Known(cache) :
                        c.server \in asked /\ (\A h \in healthy : h.server # c.server)
                          => c \in Known(cache')
    OBVIOUS
  <2>1. Publish
    BY DEF Next, StartRefresh, ListFails, SkipServer, RefreshRaises, Cancelled,
           ListAnswers, FetchAnswers, TakeListed, TakeCommands
  <2>2. Remembered /\ cache' = fresh
    BY <2>1 DEF DInv, Publish
  <2> QED BY <2>2 DEF Remembered
<1> QED BY <1>1, DInvariant, PTL DEF Spec, KnownCommandsKept
=============================================================================
