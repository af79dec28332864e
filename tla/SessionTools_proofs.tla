------------------------- MODULE SessionTools_proofs --------------------------
(***************************************************************************)
(* What a chat may call, for every policy, session and discovery: first    *)
(* the tool list as such (ToolList), then sessions and chats over time.    *)
(***************************************************************************)
EXTENDS SessionTools, TLAPS, WellFoundedInduction, SequenceTheorems

LEMMA LeastNat ==
  ASSUME NEW S, S \subseteq Nat, S # {}
  PROVE  \E n \in S : \A m \in S : n <= m
<1>1. \E n \in S : \A m \in S : ~ (<<m, n>> \in OpToRel(<, Nat))
  BY NatLessThanWellFounded, WFMin
<1>2. PICK n \in S : \A m \in S : ~ (<<m, n>> \in OpToRel(<, Nat))
  BY <1>1
<1>3. \A m \in S : ~ (m < n)
  BY <1>2, Zenon DEF OpToRel
<1> QED BY <1>3

-----------------------------------------------------------------------------
(* Ids                                                                     *)

(* parse_command_id undoes make_command_id where the server has no dot.    *)
LEMMA IdParts ==
  ASSUME NEW n \in Seq(Segments) \ {<<>>}, NEW s \in Segments
  PROVE  /\ Name(Make(n, <<s>>)) = n
         /\ Server(Make(n, <<s>>)) = <<s>>
<1> DEFINE id == n \o <<s>>
<1>1. id \in Seq(Segments) /\ Len(id) = Len(n) + 1 /\ Len(n) \in Nat /\ Len(n) >= 1
  BY ConcatProperties, EmptySeq
<1>2. id[Len(id)] = s
  BY <1>1, ConcatProperties
<1>3. SubSeq(id, 1, Len(n)) = n
  <2>1. \A i \in 1 .. Len(n) : id[i] = n[i]
    BY <1>1, ConcatProperties
  <2> QED BY <1>1, <2>1, SubSeqProperties
<1> HIDE DEF id
<1>4. Name(id) = n
  BY <1>1, <1>3 DEF Name
<1>5. Server(id) = <<s>>
  BY <1>1, <1>2 DEF Server
<1> QED BY <1>4, <1>5 DEF Make, id

(* make_command_id undoes parse_command_id for every id with a dot.        *)
LEMMA PartsOfId ==
  ASSUME NEW id \in Seq(Segments), Len(id) >= 2
  PROVE  /\ Name(id) \in Seq(Segments)
         /\ \E s \in Segments : Server(id) = <<s>>
         /\ Make(Name(id), Server(id)) = id
<1> DEFINE n == Len(id) - 1
           init == SubSeq(id, 1, n)
           both == init \o <<id[n + 1]>>
<1>1. n \in Nat /\ n >= 1 /\ Len(id) = n + 1 /\ DOMAIN id = 1 .. n + 1
  OBVIOUS
<1>2. \A i \in 1 .. n + 1 : id[i] \in Segments
  BY <1>1
<1> HIDE DEF n
<1>3. /\ init \in Seq(Segments) /\ Len(init) = n
      /\ \A i \in 1 .. n : init[i] = id[i]
  BY <1>1, <1>2, SubSeqProperties
<1> HIDE DEF init
<1>4. <<id[n + 1]>> \in Seq(Segments) /\ Len(<<id[n + 1]>>) = 1 /\ <<id[n + 1]>>[1] = id[n + 1]
  BY <1>1, <1>2
<1>5. /\ both \in Seq(Segments) /\ Len(both) = n + 1
      /\ \A i \in 1 .. n + 1 : both[i] = IF i <= n THEN init[i] ELSE id[n + 1]
  BY <1>1, <1>3, <1>4, ConcatProperties
<1>6. both = id
  BY <1>1, <1>3, <1>5, SeqEqual
<1>7. Name(id) = init /\ Server(id) = <<id[n + 1]>>
  BY <1>1 DEF Name, Server, init, n
<1> QED BY <1>1, <1>2, <1>3, <1>6, <1>7 DEF Make

(* An available id has a dot, so it is taken apart and is that of an entry;*)
(* the parts are those of the entry unless its server has dots.            *)
LEMMA AvailableParts ==
  ASSUME NEW d \in Seq(Entries), NEW id \in AvailableIds(d)
  PROVE  /\ \E i \in DOMAIN d :
              /\ d[i].available /\ IdOf(d[i]) = id
              /\ \/ d[i].name = Name(id) /\ d[i].server = Server(id)
                 \/ Len(d[i].server) > 1
         /\ Make(Name(id), Server(id)) = id
         /\ \E s \in Segments : Server(id) = <<s>>
         /\ Server(id) # NoServer
<1>1. PICK i \in DOMAIN d : d[i].available /\ IdOf(d[i]) = id
  BY DEF AvailableIds
<1>2. d[i] \in Entries
  BY ElementOfSeq
<1>3. d[i].name \in Seq(Segments) \ {<<>>} /\ d[i].server \in Seq(Segments) \ {<<>>}
  BY <1>2 DEF Entries
<1> DEFINE n == d[i].name
           s == d[i].server
<1>4. id = n \o s
  BY <1>1 DEF IdOf, Make
<1> HIDE DEF n, s
<1>5. /\ Len(n) \in Nat /\ Len(n) >= 1 /\ Len(s) \in Nat /\ Len(s) >= 1
      /\ id \in Seq(Segments) /\ Len(id) = Len(n) + Len(s)
  BY <1>3, <1>4, ConcatProperties, EmptySeq DEF n, s
<1>6. /\ \E seg \in Segments : Server(id) = <<seg>>
      /\ Make(Name(id), Server(id)) = id
  BY <1>5, PartsOfId
<1>7. ASSUME ~ (Len(s) > 1)
      PROVE  n = Name(id) /\ s = Server(id)
  <2>1. s = <<s[1]>> /\ s[1] \in Segments
    BY <1>3, <1>5, <1>7 DEF s
  <2>2. id = Make(n, <<s[1]>>)
    BY <1>4, <2>1 DEF Make
  <2> QED BY <1>3, <2>1, <2>2, IdParts DEF n
<1> QED BY <1>1, <1>6, <1>7, InputsAssumption DEF n, s

LEMMA FirstAtIndex ==
  ASSUME NEW d \in Seq(Entries), NEW id \in AvailableIds(d)
  PROVE  FirstAt(d, id) \in 1 .. Len(d)
<1> DEFINE at == {i \in DOMAIN d : d[i].available /\ IdOf(d[i]) = id}
<1>1. DOMAIN d = 1 .. Len(d) /\ Len(d) \in Nat
  OBVIOUS
<1>2. at \subseteq Nat /\ at # {}
  BY <1>1 DEF AvailableIds
<1>3. PICK i \in at : \A j \in at : i <= j
  BY <1>2, LeastNat
<1>4. \A j \in 1 .. i - 1 : ~ (d[j].available /\ IdOf(d[j]) = id)
  BY <1>1, <1>3
<1> QED BY <1>1, <1>3, <1>4 DEF FirstAt

LEMMA OfferedAvailable ==
  ASSUME NEW p, NEW s, NEW ids
  PROVE  /\ Permitted(p, s, ids) \subseteq ids
         /\ Permitted(p, s, ids) \subseteq Offered(p, s, ids)
         /\ Offered(p, s, ids) \subseteq ids
         /\ \A id \in Offered(p, s, ids) : id \notin s.forbidden
         /\ Offered(p, s, ids) \ Permitted(p, s, ids) \subseteq VectorIds
BY DEF Offered, Permitted, Allowed, FilterCandidates

-----------------------------------------------------------------------------
(* The registry                                                            *)

LEMMA Positions ==
  ASSUME NEW p, NEW s, NEW d \in Seq(Entries),
         NEW id \in Offered(p, s, AvailableIds(d))
  PROVE  /\ Position(p, s, d, id) \in Nat
         /\ (/\ Position(p, s, d, id) <= Len(d))
              <=> (/\ id \in Permitted(p, s, AvailableIds(d))
                   /\ Preferred # NoServer /\ Server(id) = Preferred)
<1> DEFINE permitted == Permitted(p, s, AvailableIds(d))
<1>1. Len(d) \in Nat
  OBVIOUS
<1>2. CASE id \in permitted
  <2>1. FirstAt(d, id) \in 1 .. Len(d)
    BY <1>2, OfferedAvailable, FirstAtIndex
  <2> QED BY <1>1, <1>2, <2>1 DEF Position
<1>3. CASE id \notin permitted
  <2> DEFINE k == CHOOSE i \in DOMAIN Vectorization : Vectorization[i] = id
  <2>1. id \in VectorIds
    BY <1>3, OfferedAvailable
  <2>2. k \in DOMAIN Vectorization
    BY <2>1 DEF VectorIds
  <2>3. Position(p, s, d, id) = 2 * Len(d) + k
    BY <1>3 DEF Position
  <2> HIDE DEF k
  <2>4. k \in Nat \ {0}
    <3>1. DOMAIN Vectorization = 1 .. Len(Vectorization)
      BY InputsAssumption
    <3> QED BY <2>2, <3>1
  <2> QED BY <1>1, <1>3, <2>3, <2>4
<1> QED BY <1>2, <1>3

(* The winner of a name is an offered command of that name, and no other   *)
(* is in front of it.                                                      *)
LEMMA Winners ==
  ASSUME NEW p, NEW s, NEW d \in Seq(Entries),
         NEW name \in {Name(id) : id \in Offered(p, s, AvailableIds(d))}
  PROVE  LET w == Winner(p, s, d, name)
         IN  /\ w \in Offered(p, s, AvailableIds(d))
             /\ Name(w) = name
             /\ \A other \in Offered(p, s, AvailableIds(d)) :
                  Name(other) = name => Position(p, s, d, w) <= Position(p, s, d, other)
<1> DEFINE rivals == {id \in Offered(p, s, AvailableIds(d)) : Name(id) = name}
           places == {Position(p, s, d, id) : id \in rivals}
<1>1. rivals # {}
  OBVIOUS
<1>2. places \subseteq Nat /\ places # {}
  BY <1>1, Positions
<1>3. PICK n \in places : \A m \in places : n <= m
  BY <1>2, LeastNat
<1>4. \E id \in rivals : \A other \in rivals :
        Position(p, s, d, id) <= Position(p, s, d, other)
  BY <1>3
<1>5. Winner(p, s, d, name) = CHOOSE id \in rivals : \A other \in rivals :
        Position(p, s, d, id) <= Position(p, s, d, other)
  BY DEF Winner
<1> HIDE DEF rivals
<1>6. /\ Winner(p, s, d, name) \in rivals
      /\ \A other \in rivals :
           Position(p, s, d, Winner(p, s, d, name)) <= Position(p, s, d, other)
  BY <1>4, <1>5
<1> QED BY <1>6 DEF rivals

(* What the registry is, without what it is computed by.                   *)
RegistryRight(p, s, d, r) ==
  /\ DOMAIN r = {Name(id) : id \in Offered(p, s, AvailableIds(d))}
  /\ \A name \in DOMAIN r :
       /\ r[name].command = name
       /\ \E id \in Offered(p, s, AvailableIds(d)) :
            /\ Name(id) = name /\ Server(id) = r[name].server
            /\ \A other \in Offered(p, s, AvailableIds(d)) :
                 Name(other) = name =>
                   Position(p, s, d, id) <= Position(p, s, d, other)

LEMMA Registries ==
  ASSUME NEW p, NEW s, NEW d \in Seq(Entries)
  PROVE  RegistryRight(p, s, d, RegistryOf(p, s, d))
<1> DEFINE names == {Name(id) : id \in Offered(p, s, AvailableIds(d))}
           r == RegistryOf(p, s, d)
<1>1. DOMAIN r = names
  BY DEF RegistryOf
<1>2. ASSUME NEW name \in names
      PROVE  /\ r[name].command = name
             /\ \E id \in Offered(p, s, AvailableIds(d)) :
                  /\ Name(id) = name /\ Server(id) = r[name].server
                  /\ \A other \in Offered(p, s, AvailableIds(d)) :
                       Name(other) = name =>
                         Position(p, s, d, id) <= Position(p, s, d, other)
  <2> DEFINE w == Winner(p, s, d, name)
  <2>1. r[name] = [command |-> Name(w), server |-> Server(w)]
    BY <1>2 DEF RegistryOf
  <2>2. /\ w \in Offered(p, s, AvailableIds(d)) /\ Name(w) = name
        /\ \A other \in Offered(p, s, AvailableIds(d)) :
             Name(other) = name => Position(p, s, d, w) <= Position(p, s, d, other)
    BY <1>2, Winners
  <2> HIDE DEF w, r
  <2> QED BY <2>1, <2>2
<1> QED BY <1>1, <1>2 DEF RegistryRight

LEMMA NothingFound ==
  ASSUME NEW p, NEW s
  PROVE  RegistryOf(p, s, <<>>) = NoTools
<1>1. AvailableIds(<<>>) = {}
  BY DEF AvailableIds
<1>2. Offered(p, s, AvailableIds(<<>>)) = {}
  BY <1>1, OfferedAvailable
<1> QED BY <1>2 DEF RegistryOf, NoTools

-----------------------------------------------------------------------------
(* Sessions and chats                                                      *)

(* The tools of a chat are those of the session as it was read and of what *)
(* the discovery found; before that, none.                                 *)
IInv ==
  /\ TypeOK
  /\ found \in Seq(Entries)
  /\ tools = RegistryOf(policy, snapshot, found)
  /\ pc = "discovery" => ran = {}

LEMMA InitInv == Init => IInv
<1> SUFFICES ASSUME Init PROVE IInv
  OBVIOUS
<1>1. tools = RegistryOf(policy, snapshot, found)
  BY NothingFound DEF Init
<1>2. found \in Seq(Entries)
  BY EmptySeq DEF Init
<1> QED BY <1>1, <1>2, InputsAssumption DEF Init, IInv, TypeOK

LEMMA SessionCommandInv == IInv /\ SessionCommand => IInv'
<1> SUFFICES ASSUME IInv, SessionCommand PROVE IInv'
  OBVIOUS
<1>1. session' \in Lists /\ revoked' \subseteq session'.forbidden
      /\ UNCHANGED <<policy, chatVars>>
  <2>1. CASE \E allowed \in {session.allowed} \cup {l.allowed : l \in ListInputs},
                forbidden \in {session.forbidden} \cup {l.forbidden : l \in ListInputs} :
               SessionUpdate(allowed, forbidden)
    BY <2>1, InputsAssumption DEF SessionUpdate, IInv, TypeOK, Lists
  <2>2. ASSUME NEW c \in Commands, RemoveCommand(c)
        PROVE  session' \in Lists /\ revoked' \subseteq session'.forbidden
               /\ UNCHANGED <<policy, chatVars>>
    BY <2>2 DEF RemoveCommand, IInv, TypeOK, Lists
  <2>3. ASSUME NEW c \in Commands, NEW checked \in BOOLEAN, AddCommand(c, checked)
        PROVE  session' \in Lists /\ revoked' \subseteq session'.forbidden
               /\ UNCHANGED <<policy, chatVars>>
    BY <2>3 DEF AddCommand, IInv, TypeOK, Lists
  <2> QED BY <2>1, <2>2, <2>3 DEF SessionCommand
<1> QED BY <1>1 DEF IInv, TypeOK, chatVars

LEMMA ChatInv == IInv /\ Chat => IInv'
<1> SUFFICES ASSUME IInv, Chat PROVE IInv'
  OBVIOUS
<1>1. CASE StartChat
  <2>1. tools' = RegistryOf(policy', snapshot', found')
    BY <1>1, NothingFound DEF StartChat
  <2>2. found' \in Seq(Entries)
    BY <1>1, EmptySeq DEF StartChat
  <2> QED BY <1>1, <2>1, <2>2 DEF StartChat, IInv, TypeOK
<1>2. ASSUME NEW discovered \in Discoveries, BuildTools(discovered)
      PROVE  IInv'
  <2>1. tools' = RegistryOf(policy', snapshot', found') /\ found' \in Seq(Entries)
    BY <1>2, InputsAssumption DEF BuildTools
  <2> QED BY <1>2, <2>1 DEF BuildTools, IInv, TypeOK
<1>3. CASE BuildFails
  BY <1>3 DEF BuildFails, IInv, TypeOK
<1>4. ASSUME NEW name \in DOMAIN tools, RunTool(name)
      PROVE  IInv'
  BY <1>4 DEF RunTool, IInv, TypeOK
<1>5. CASE EndChat
  BY <1>5 DEF EndChat, IInv, TypeOK
<1> QED BY <1>1, <1>2, <1>3, <1>4, <1>5 DEF Chat

LEMMA InvokeInv == IInv /\ Invoke => IInv'
<1> SUFFICES ASSUME IInv, NEW discovered \in Discoveries, NEW name, NEW target,
                    InvokeTool(discovered, name, target)
             PROVE  IInv'
  BY DEF Invoke
<1> DEFINE registry == RegistryOf(policy, NoLists, discovered)
<1>1. /\ tools' = registry /\ found' = discovered /\ policy' = policy
      /\ snapshot' = NoLists /\ withdrawn' = {} /\ pc = "idle" /\ pc' = pc
      /\ UNCHANGED <<session, revoked>>
      /\ invoked' = Kind(registry, name, target)
      /\ ran' = IF invoked' = "call" THEN {registry[name]} ELSE {}
  BY DEF InvokeTool
<1> HIDE DEF registry
<1>2. invoked' \in {"call", "help", "gateway", "refused"}
      /\ (invoked' = "call" => name \in DOMAIN registry)
  BY <1>1 DEF Kind
<1>3. tools' = RegistryOf(policy', snapshot', found')
  BY <1>1 DEF registry
<1>4. NoLists \in Lists
  BY DEF NoLists, Lists
<1>5. found' \in Seq(Entries)
  BY <1>1, InputsAssumption
<1> QED BY <1>1, <1>2, <1>3, <1>4, <1>5 DEF IInv, TypeOK

LEMMA Inv == Spec => []IInv
<1>1. IInv /\ UNCHANGED vars => IInv'
  BY DEF IInv, TypeOK, vars
<1>2. IInv /\ [Next]_vars => IInv'
  BY <1>1, SessionCommandInv, ChatInv, InvokeInv DEF Next
<1> QED BY <1>2, InitInv, PTL DEF Spec

-----------------------------------------------------------------------------
(* The variables keep their types; what ran is always in the registry, and *)
(* the history of revocations within the forbid-lists.                     *)
THEOREM TypeCorrect == Spec => []TypeOK
<1>1. IInv => TypeOK
  BY DEF IInv
<1> QED BY <1>1, Inv, PTL

(* Each tool of a chat is an offered command: it was found, and passed what*)
(* has to be passed.                                                       *)
LEMMA ToolOffered ==
  ASSUME IInv, NEW name \in DOMAIN tools
  PROVE  /\ tools[name].command = name
         /\ Make(name, tools[name].server)
              \in Offered(policy, snapshot, AvailableIds(found))
<1>1. RegistryRight(policy, snapshot, found, tools)
  BY Registries DEF IInv
<1>2. PICK id \in Offered(policy, snapshot, AvailableIds(found)) :
        Name(id) = name /\ Server(id) = tools[name].server
  BY <1>1 DEF RegistryRight
<1>3. id \in AvailableIds(found)
  BY OfferedAvailable
<1>4. Make(Name(id), Server(id)) = id
  BY <1>3, AvailableParts DEF IInv
<1> QED BY <1>1, <1>2, <1>4 DEF RegistryRight

(* remove_command_from_session: what was removed before a chat began is not*)
(* run by it, whatever the discovery finds and the model calls.            *)
THEOREM RevokedStaysOut == Spec => []RevokedNeverRuns
<1>1. IInv => RevokedNeverRuns
  <2> SUFFICES ASSUME IInv, NEW t \in ran
               PROVE  t.command \o t.server \notin withdrawn
    BY DEF RevokedNeverRuns
  <2>1. PICK name \in DOMAIN tools : t = tools[name]
    BY DEF IInv, TypeOK
  <2>2. /\ t.command = name
        /\ Make(name, t.server) \in Offered(policy, snapshot, AvailableIds(found))
    BY <2>1, ToolOffered
  <2>3. Make(name, t.server) \notin snapshot.forbidden
    BY <2>2, OfferedAvailable
  <2> QED BY <2>2, <2>3 DEF Make, IInv, TypeOK
<1> QED BY <1>1, Inv, PTL

(* A call goes to a server that published a command of exactly that name,  *)
(* unless the id of the server it is meant for has dots.                   *)
THEOREM CallsReachTheirServer == Spec => []CallsGoHome
<1>1. IInv => CallsGoHome
  <2> SUFFICES ASSUME IInv, NEW name \in DOMAIN tools
               PROVE  /\ tools[name].command = name
                      /\ \E i \in DOMAIN found :
                           /\ found[i].available
                           /\ IdOf(found[i]) = Make(name, tools[name].server)
                           /\ \/ /\ found[i].name = name
                                 /\ found[i].server = tools[name].server
                              \/ Len(found[i].server) > 1
    BY DEF CallsGoHome
  <2>1. RegistryRight(policy, snapshot, found, tools)
    BY Registries DEF IInv
  <2>2. PICK id \in Offered(policy, snapshot, AvailableIds(found)) :
          Name(id) = name /\ Server(id) = tools[name].server
    BY <2>1 DEF RegistryRight
  <2>3. id \in AvailableIds(found)
    BY OfferedAvailable
  <2>4. /\ Make(Name(id), Server(id)) = id
        /\ \E i \in DOMAIN found :
             /\ found[i].available /\ IdOf(found[i]) = id
             /\ \/ found[i].name = Name(id) /\ found[i].server = Server(id)
                \/ Len(found[i].server) > 1
    BY <2>3, AvailableParts DEF IInv
  <2>5. tools[name].command = name
    BY <2>1 DEF RegistryRight
  <2> QED BY <2>2, <2>4, <2>5
<1> QED BY <1>1, Inv, PTL

(* And such a server is never called: no call goes to an id with dots.     *)
DottedNeverCalled ==
  \A i \in DOMAIN found, name \in DOMAIN tools :
    Len(found[i].server) > 1 => tools[name].server # found[i].server

THEOREM DottedAreMissed == Spec => []DottedNeverCalled
<1>1. IInv => DottedNeverCalled
  <2> SUFFICES ASSUME IInv, NEW i \in DOMAIN found, NEW name \in DOMAIN tools,
                      Len(found[i].server) > 1
               PROVE  tools[name].server # found[i].server
    BY Zenon DEF DottedNeverCalled
  <2>1. RegistryRight(policy, snapshot, found, tools)
    BY Registries DEF IInv
  <2>2. PICK id \in Offered(policy, snapshot, AvailableIds(found)) :
          Server(id) = tools[name].server
    BY <2>1 DEF RegistryRight
  <2>3. id \in AvailableIds(found)
    BY OfferedAvailable
  <2>4. \E s \in Segments : Server(id) = <<s>>
    BY <2>3, AvailableParts DEF IInv
  <2>5. Len(tools[name].server) = 1
    BY <2>2, <2>4
  <2>6. ~ (1 > 1)
    OBVIOUS
  <2> QED BY <2>5, <2>6, Zenon
<1> QED BY <1>1, Inv, PTL

(* The commands of the preferred server win where they are permitted, in   *)
(* every order in which discovery may list the servers.                    *)
THEOREM PreferredWins == Spec => []PreferredServerWins
<1>1. IInv => PreferredServerWins
  <2> SUFFICES ASSUME IInv, NEW id \in Permitted(policy, snapshot, AvailableIds(found)),
                      Server(id) = Preferred
               PROVE  tools[Name(id)].server = Preferred
    BY DEF PreferredServerWins
  <2>1. id \in Offered(policy, snapshot, AvailableIds(found)) /\ id \in AvailableIds(found)
    BY OfferedAvailable
  <2>2. found \in Seq(Entries) /\ Len(found) \in Nat
    BY DEF IInv
  <2>3. Preferred # NoServer
    BY <2>1, <2>2, AvailableParts
  <2>4. Position(policy, snapshot, found, id) <= Len(found)
    BY <2>1, <2>2, <2>3, Positions
  <2>5. RegistryRight(policy, snapshot, found, tools)
    BY Registries DEF IInv
  <2>6. PICK w \in Offered(policy, snapshot, AvailableIds(found)) :
          /\ Server(w) = tools[Name(id)].server
          /\ Position(policy, snapshot, found, w) <= Position(policy, snapshot, found, id)
    BY <2>1, <2>5 DEF RegistryRight
  <2>7. /\ Position(policy, snapshot, found, w) \in Nat
        /\ Position(policy, snapshot, found, id) \in Nat
    BY <2>1, <2>2, <2>6, Positions
  <2>8. Position(policy, snapshot, found, w) <= Len(found)
    BY <2>2, <2>4, <2>6, <2>7
  <2> QED BY <2>2, <2>6, <2>8, Positions
<1> QED BY <1>1, Inv, PTL

(* Policy, lists and discovery permit what is offered; only vectorization  *)
(* commands escape the policy, and they not the session's forbid-list.     *)
THEOREM OffersPermitted == Spec => []OnlyPermittedOffered
<1>1. IInv => OnlyPermittedOffered
  <2> SUFFICES ASSUME IInv, NEW name \in DOMAIN tools, NEW id,
                      id = Make(name, tools[name].server)
               PROVE  /\ id \in AvailableIds(found) \ snapshot.forbidden
                      /\ \/ id \in VectorIds
                         \/ /\ id \notin policy.forbidden
                            /\ policy.mode = "deny_by_default" => id \in policy.allowed
                            /\ \A list \in {policy.allowed, snapshot.allowed} :
                                 list # {} => id \in list
    BY DEF OnlyPermittedOffered
  <2>1. id \in Offered(policy, snapshot, AvailableIds(found))
    BY ToolOffered
  <2>2. id \in AvailableIds(found) \ snapshot.forbidden
    BY <2>1, OfferedAvailable
  <2>3. id \in VectorIds \/ id \in Permitted(policy, snapshot, AvailableIds(found))
    BY <2>1, OfferedAvailable
  <2> QED BY <2>2, <2>3 DEF Permitted, Allowed, FilterCandidates
<1> QED BY <1>1, Inv, PTL

-----------------------------------------------------------------------------
(* How far the promises hold that the code does not keep                   *)

(* The config's forbid-list fails for the vectorization commands only, and *)
(* for them unless the session forbids them, too.                          *)
ForbiddenUnlessVector ==
  \A name \in DOMAIN tools :
    LET id == Make(name, tools[name].server)
    IN  id \in policy.forbidden => id \in VectorIds \ snapshot.forbidden

THEOREM OnlyVectorsEscapePolicy == Spec => []ForbiddenUnlessVector
<1>1. OnlyPermittedOffered => ForbiddenUnlessVector
  BY DEF OnlyPermittedOffered, ForbiddenUnlessVector
<1> QED BY <1>1, OffersPermitted, PTL

(* So a configuration that forbids none of them is obeyed.                 *)
THEOREM ForbiddenByConfigStaysOut ==
  ASSUME \A p \in Policies : p.forbidden \cap VectorIds = {}
  PROVE  Spec => []ConfigForbiddenNotOffered
<1>1. TypeOK /\ ForbiddenUnlessVector => ConfigForbiddenNotOffered
  BY DEF TypeOK, ForbiddenUnlessVector, ConfigForbiddenNotOffered
<1> QED BY <1>1, TypeCorrect, OnlyVectorsEscapePolicy, PTL

(* What a removal leaves available: no more than before, unless it takes   *)
(* the last command off the allow-list, which then no longer filters.      *)
LEMMA Removal ==
  ASSUME NEW c, RemoveCommand(c), NEW ids
  PROVE  Permitted(policy, session', ids) \subseteq
           IF session.allowed = {c} THEN FilterCandidates(policy, ids) \ session.forbidden
                                    ELSE Permitted(policy, session, ids)
<1>1. /\ session'.allowed = session.allowed \ {c}
      /\ session'.forbidden = session.forbidden \cup {c}
  BY DEF RemoveCommand
<1>2. CASE session.allowed = {c}
  BY <1>1, <1>2 DEF Permitted, Allowed
<1>3. CASE session.allowed = {}
  BY <1>1, <1>3 DEF Permitted, Allowed
<1>4. CASE session.allowed # {} /\ session.allowed # {c}
  <2>1. session.allowed \ {c} # {}
    BY <1>4
  <2> QED BY <1>1, <1>4, <2>1 DEF Permitted, Allowed
<1> QED BY <1>2, <1>3, <1>4

(* remove_command_from_session makes no other command available as long as *)
(* no session loses the last command of its allow-list.                    *)
LastKept == [][\A c \in Commands : RemoveCommand(c) => session.allowed # {c}]_vars

THEOREM RemovalNarrows == Spec /\ LastKept => RemovalNeverWidens
<1>1. ASSUME [\A c \in Commands : RemoveCommand(c) => session.allowed # {c}]_vars
      PROVE  [\A c \in Commands : RemoveCommand(c) =>
                \A discovered \in Discoveries :
                  Permitted(policy, session', AvailableIds(discovered))
                    \subseteq Permitted(policy, session, AvailableIds(discovered))]_vars
  BY <1>1, Removal
<1> QED BY <1>1, PTL DEF LastKept, RemovalNeverWidens

(* And when one does, what becomes available is still within the policy    *)
(* and not forbidden to the session.                                       *)
RemovalWithin ==
  [][\A c \in Commands : RemoveCommand(c) =>
       \A discovered \in Discoveries :
         Permitted(policy, session', AvailableIds(discovered))
           \subseteq FilterCandidates(policy, AvailableIds(discovered))
                       \ (session.forbidden \cup {c})]_vars

THEOREM RemovalStaysWithinPolicy == Spec => RemovalWithin
<1>1. ASSUME NEW c \in Commands, RemoveCommand(c), NEW ids
      PROVE  Permitted(policy, session', ids)
               \subseteq FilterCandidates(policy, ids) \ (session.forbidden \cup {c})
  BY <1>1 DEF RemoveCommand, Permitted, Allowed
<1>2. [\A c \in Commands : RemoveCommand(c) =>
         \A discovered \in Discoveries :
           Permitted(policy, session', AvailableIds(discovered))
             \subseteq FilterCandidates(policy, AvailableIds(discovered))
                         \ (session.forbidden \cup {c})]_vars
  BY <1>1
<1> QED BY <1>2, PTL DEF RemovalWithin
=============================================================================
