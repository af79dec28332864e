------------------------ MODULE RedisSessions_proofs ------------------------
(***************************************************************************)
(* Proofs about RedisSessions: the types of its variables for any number   *)
(* of processes, and that it implements the atomic SessionStore, in which  *)
(* a revocation stays, as long as no process writes a session that another *)
(* has read and will write; so in particular for a single process.         *)
(*                                                                         *)
(* The argument is that what a process has read is still what is stored    *)
(* when it writes (Fresh).                                                 *)
(***************************************************************************)
EXTENDS RedisSessions, TLAPS

TwoLists == {"add", "remove"}

\* What a process between two Redis calls may rely on.
Underway(p) ==
  /\ pc[p] # "idle" => req[p] \in Requests
  /\ pc[p] = "get" => req[p].op \in TwoLists
  /\ pc[p] \in {"reget", "hset"} /\ req[p].op \in TwoLists => first[p] \in Store!Session
  /\ pc[p] = "reget" => req[p].op # "create"
  /\ pc[p] = "hset" /\ req[p].op # "create" => existing[p] \in Store!Session

IInv == TypeOK /\ \A p \in Procs : Underway(p)

\* What a process has read is what is stored.
Fresh(p) ==
  /\ pc[p] \in {"reget", "hset"} /\ req[p].op \in TwoLists => first[p] = redis[req[p].id]
  /\ pc[p] = "hset" /\ req[p].op # "create" => existing[p] = redis[req[p].id]

\* A process has read the session that it is about to write.
Holds(p) ==
  \/ pc[p] = "reget" /\ req[p].op \in TwoLists
  \/ pc[p] = "hset" /\ req[p].op # "create"

\* Process p does not write a session that another one holds.
Undisturbing(p) ==
  Hset(p) => \A q \in Procs : Holds(q) /\ q # p => req[q].id # req[p].id

\* What the code has no lock for: no write falls between the first read and
\* the write of another command on the same session.
Undisturbed == [][\A p \in Procs : Undisturbing(p)]_vars

SingleProcess == \A p, q \in Procs : p = q

-----------------------------------------------------------------------------
LEMMA RequestShape ==
  ASSUME NEW r \in Requests
  PROVE  /\ r.id \in Ids
         /\ r.op \in {"create", "update", "add", "remove"}
         /\ r.op = "create" => r.arg \in Store!Session
         /\ r.op = "update" => r.arg \in Store!Attrs
         /\ r.op \in TwoLists => r.arg \in Commands
  BY DEF Requests, TwoLists

LEMMA MergeType ==
  ASSUME NEW s \in Store!Session, NEW a \in Store!Attrs
  PROVE  Store!Merge(s, a) \in Store!Session
  BY DEF Store!Merge, Store!Session, Store!Attrs, Store!Fields

LEMMA ListsType ==
  ASSUME NEW s \in Store!Session, NEW c \in Commands
  PROVE  /\ Store!WithCommand(s, c) \in Store!Session
         /\ Store!WithoutCommand(s, c) \in Store!Session
         /\ ListsOf(s) \in Store!Attrs
  BY DEF Store!WithCommand, Store!WithoutCommand, ListsOf, Store!Session, Store!Attrs,
         Store!Fields

\* Merging the lists of a session into that session gives the lists' session.
LEMMA MergeOwnLists ==
  ASSUME NEW s \in Store!Session, NEW c \in Commands
  PROVE  /\ Store!Merge(s, ListsOf(Store!WithCommand(s, c))) = Store!WithCommand(s, c)
         /\ Store!Merge(s, ListsOf(Store!WithoutCommand(s, c))) = Store!WithoutCommand(s, c)
  BY DEF Store!Merge, ListsOf, Store!WithCommand, Store!WithoutCommand

LEMMA InputsAreRequests == InputRequests \subseteq Requests
  BY InputsAssumption DEF InputRequests, Requests

\* On its own fresh reading, a process writes what the atomic operation would.
LEMMA FreshMerged ==
  ASSUME IInv, NEW p \in Procs, pc[p] = "hset", Fresh(p)
  PROVE  LET r == req[p]
             s == redis[r.id]
         IN  /\ r.op = "create" => Merged(p) = r.arg
             /\ r.op = "update" => Merged(p) = Store!Merge(s, r.arg)
             /\ r.op = "add"    => Merged(p) = Store!WithCommand(s, r.arg)
             /\ r.op = "remove" => Merged(p) = Store!WithoutCommand(s, r.arg)
             /\ r.op # "create" => s \in Store!Session
<1>1. req[p] \in Requests
  BY DEF IInv, Underway
<1>2. CASE req[p].op = "create"
  BY <1>2 DEF Merged
<1>3. CASE req[p].op = "update"
  BY <1>3 DEF Merged, Fresh, IInv, Underway
<1>4. CASE req[p].op \in TwoLists
  <2>1. /\ first[p] = redis[req[p].id] /\ existing[p] = redis[req[p].id]
        /\ redis[req[p].id] \in Store!Session
        /\ req[p].arg \in Commands
    BY <1>1, <1>4, RequestShape DEF Fresh, IInv, Underway, TwoLists
  <2>2. CASE req[p].op = "add"
    BY <2>1, <2>2, MergeOwnLists DEF Merged
  <2>3. CASE req[p].op = "remove"
    BY <2>1, <2>3, MergeOwnLists DEF Merged
  <2> QED
    BY <1>4, <2>2, <2>3 DEF TwoLists
<1> QED
  BY <1>1, <1>2, <1>3, <1>4, RequestShape DEF TwoLists

LEMMA MergedType ==
  ASSUME IInv, NEW p \in Procs, pc[p] = "hset"
  PROVE  Merged(p) \in Store!Session
<1>1. req[p] \in Requests
  BY DEF IInv, Underway
<1>2. CASE req[p].op = "create"
  BY <1>1, <1>2, RequestShape DEF Merged
<1>3. CASE req[p].op = "update"
  <2>1. existing[p] \in Store!Session /\ req[p].arg \in Store!Attrs
    BY <1>1, <1>3, RequestShape DEF IInv, Underway
  <2> QED
    BY <2>1, <1>3, MergeType DEF Merged
<1>4. CASE req[p].op \in TwoLists
  <2>1. /\ existing[p] \in Store!Session /\ first[p] \in Store!Session
        /\ req[p].arg \in Commands
    BY <1>1, <1>4, RequestShape DEF IInv, Underway, TwoLists
  <2>2. /\ ListsOf(Store!WithCommand(first[p], req[p].arg)) \in Store!Attrs
        /\ ListsOf(Store!WithoutCommand(first[p], req[p].arg)) \in Store!Attrs
    BY <2>1, ListsType
  <2>3. CASE req[p].op = "add"
    BY <2>1, <2>2, <2>3, MergeType DEF Merged
  <2>4. CASE req[p].op = "remove"
    BY <2>1, <2>2, <2>4, MergeType DEF Merged
  <2> QED
    BY <1>4, <2>3, <2>4 DEF TwoLists
<1> QED
  BY <1>1, <1>2, <1>3, <1>4, RequestShape DEF TwoLists

LEMMA StillRevokedType ==
  ASSUME NEW r \in Requests, NEW old \in SUBSET Commands
  PROVE  StillRevoked(old, r) \in SUBSET Commands
  BY RequestShape DEF StillRevoked, TwoLists

-----------------------------------------------------------------------------
(* Types, for any number of processes *)

LEMMA InitIInv == Init => IInv
  BY DEF Init, IInv, TypeOK, Underway, Store!StoreInit

LEMMA BeginIInv ==
  ASSUME IInv, NEW p \in Procs, NEW r \in InputRequests, Begin(p, r)
  PROVE  IInv'
<1>1. r \in Requests
  BY InputsAreRequests
<1>2. r.op \in {"create", "update", "add", "remove"}
  BY <1>1, RequestShape
<1>3. TypeOK'
  BY <1>1, <1>2 DEF IInv, TypeOK, Begin, Goto
<1>4. ASSUME NEW q \in Procs
      PROVE  Underway(q)'
  BY <1>1, <1>2 DEF IInv, TypeOK, Underway, Begin, Goto, TwoLists
<1> QED
  BY <1>3, <1>4 DEF IInv

LEMMA GetIInv ==
  ASSUME IInv, NEW p \in Procs, Get(p)
  PROVE  IInv'
<1>1. req[p] \in Requests /\ req[p].id \in Ids
  BY RequestShape DEF IInv, Underway, Get
<1>2. TypeOK'
  BY <1>1 DEF IInv, TypeOK, Get, Goto
<1>3. ASSUME NEW q \in Procs
      PROVE  Underway(q)'
  BY <1>1 DEF IInv, TypeOK, Underway, Get, Goto, TwoLists
<1> QED
  BY <1>2, <1>3 DEF IInv

LEMMA RegetIInv ==
  ASSUME IInv, NEW p \in Procs, Reget(p)
  PROVE  IInv'
<1>1. req[p] \in Requests /\ req[p].id \in Ids
  BY RequestShape DEF IInv, Underway, Reget
<1>2. TypeOK'
  BY <1>1 DEF IInv, TypeOK, Reget, Goto
<1>3. ASSUME NEW q \in Procs
      PROVE  Underway(q)'
  BY <1>1 DEF IInv, TypeOK, Underway, Reget, Goto, TwoLists
<1> QED
  BY <1>2, <1>3 DEF IInv

LEMMA HsetIInv ==
  ASSUME IInv, NEW p \in Procs, Hset(p)
  PROVE  IInv'
<1>1. req[p] \in Requests /\ req[p].id \in Ids
  BY RequestShape DEF IInv, Underway, Hset
<1>2. Merged(p) \in Store!Session
  BY MergedType DEF Hset
<1>3. StillRevoked(revoked[req[p].id], req[p]) \in SUBSET Commands
  BY <1>1, StillRevokedType DEF IInv, TypeOK
<1>4. TypeOK'
  BY <1>1, <1>2, <1>3 DEF IInv, TypeOK, Hset, Goto
<1>5. ASSUME NEW q \in Procs
      PROVE  Underway(q)'
  BY <1>1 DEF IInv, TypeOK, Underway, Hset, Goto
<1> QED
  BY <1>4, <1>5 DEF IInv

LEMMA NextIInv == IInv /\ [Next]_vars => IInv'
<1> SUFFICES ASSUME IInv, [Next]_vars
             PROVE  IInv'
  OBVIOUS
<1>1. CASE UNCHANGED vars
  BY <1>1 DEF IInv, TypeOK, Underway, vars
<1>2. ASSUME NEW p \in Procs, NEW r \in InputRequests, Begin(p, r)
      PROVE  IInv'
  BY <1>2, BeginIInv
<1>3. ASSUME NEW p \in Procs, Get(p) PROVE IInv'
  BY <1>3, GetIInv
<1>4. ASSUME NEW p \in Procs, Reget(p) PROVE IInv'
  BY <1>4, RegetIInv
<1>5. ASSUME NEW p \in Procs, Hset(p) PROVE IInv'
  BY <1>5, HsetIInv
<1>6. ASSUME NEW p \in Procs, Fail(p) PROVE IInv'
  BY <1>6 DEF IInv, TypeOK, Underway, Fail, Goto
<1> QED
  BY <1>1, <1>2, <1>3, <1>4, <1>5, <1>6 DEF Next

\* The variables keep their types whatever the processes interleave: a merge
\* never starts from a session that is missing (session_store.py:216-263).
THEOREM TypeCorrect == Spec => []TypeOK
<1>1. IInv => TypeOK
  BY DEF IInv
<1> QED
  BY <1>1, InitIInv, NextIInv, PTL DEF Spec

-----------------------------------------------------------------------------
(* Commands that nobody disturbs *)

SInv ==
  /\ IInv
  /\ \A p \in Procs : Fresh(p)
  /\ RevocationHolds

LEMMA InitSInv == Init => SInv
  BY InitIInv DEF Init, SInv, Fresh, RevocationHolds, Store!StoreInit

\* Only an hset changes the hashes, and it takes its process back to idle.
LEMMA FreshPreserved ==
  ASSUME SInv, [Next]_vars, [\A p \in Procs : Undisturbing(p)]_vars
  PROVE  \A p \in Procs : Fresh(p)'
<1> SUFFICES ASSUME NEW q \in Procs
             PROVE  Fresh(q)'
  OBVIOUS
<1>0. IInv /\ Fresh(q) /\ TypeOK
  BY DEF SInv, IInv
<1>1. CASE UNCHANGED vars
  BY <1>0, <1>1 DEF Fresh, vars
<1>2. ASSUME NEW p \in Procs, NEW r \in InputRequests, Begin(p, r)
      PROVE  Fresh(q)'
  <2>1. r.op \in {"create", "update", "add", "remove"}
    BY InputsAreRequests, RequestShape
  <2> QED
    BY <1>0, <1>2, <2>1 DEF TypeOK, Fresh, Begin, Goto, TwoLists
<1>3. ASSUME NEW p \in Procs, Get(p)
      PROVE  Fresh(q)'
  BY <1>0, <1>3 DEF TypeOK, Fresh, Get, Goto
<1>4. ASSUME NEW p \in Procs, Reget(p)
      PROVE  Fresh(q)'
  BY <1>0, <1>4 DEF TypeOK, Fresh, Reget, Goto
<1>5. ASSUME NEW p \in Procs, Hset(p)
      PROVE  Fresh(q)'
  <2>1. CASE p = q
    BY <1>0, <1>5, <2>1 DEF TypeOK, Fresh, Hset, Goto
  <2>2. CASE p # q /\ ~ Holds(q)
    <3>1. pc'[q] = pc[q] /\ req'[q] = req[q]
      BY <1>0, <1>5, <2>2 DEF TypeOK, Hset, Goto
    <3> QED
      BY <2>2, <3>1 DEF Fresh, Holds, TwoLists
  <2>3. CASE p # q /\ Holds(q)
    <3>1. pc[p] = "hset" /\ pc'[p] = "idle"
      BY <1>0, <1>5 DEF TypeOK, Hset, Goto
    <3>2. Undisturbing(p)
      BY <3>1 DEF vars
    <3>3. req[q].id # req[p].id
      BY <1>5, <2>3, <3>2 DEF Undisturbing
    <3>4. req[q].id \in Ids /\ redis'[req[q].id] = redis[req[q].id]
      BY <1>0, <1>5, <2>3, <3>3, RequestShape DEF IInv, TypeOK, Underway, Holds, Hset
    <3>5. /\ pc'[q] = pc[q] /\ req'[q] = req[q]
          /\ first'[q] = first[q] /\ existing'[q] = existing[q]
      BY <1>0, <1>5, <2>3 DEF TypeOK, Hset, Goto
    <3> QED
      BY <1>0, <3>4, <3>5 DEF Fresh
  <2> QED
    BY <2>1, <2>2, <2>3
<1>6. ASSUME NEW p \in Procs, Fail(p)
      PROVE  Fresh(q)'
  BY <1>0, <1>6 DEF TypeOK, Fresh, Fail, Goto
<1> QED
  BY <1>1, <1>2, <1>3, <1>4, <1>5, <1>6 DEF Next

LEMMA HsetRevocation ==
  ASSUME SInv, NEW p \in Procs, Hset(p)
  PROVE  RevocationHolds'
<1> DEFINE r == req[p]
<1>0. IInv /\ TypeOK /\ Fresh(p) /\ pc[p] = "hset" /\ r \in Requests /\ r.id \in Ids
  BY RequestShape DEF SInv, IInv, Underway, Hset
<1>1. SUFFICES ASSUME NEW id \in Ids, redis'[id] # NoSession
               PROVE  revoked'[id] \subseteq redis'[id].forbidden
  BY DEF RevocationHolds
<1>2. CASE id # r.id
  BY <1>0, <1>1, <1>2 DEF SInv, RevocationHolds, TypeOK, Hset
<1>3. CASE id = r.id
  <2>1. /\ redis'[id] = Merged(p)
        /\ revoked'[id] = StillRevoked(revoked[id], r)
    BY <1>0, <1>3 DEF TypeOK, Hset
  <2>2. r.op # "create" =>
          redis[id] \in Store!Session /\ revoked[id] \subseteq redis[id].forbidden
    BY <1>0, <1>3, FreshMerged, NoSessionAssumption DEF SInv, RevocationHolds
  <2>3. CASE r.op = "create"
    BY <2>1, <2>3 DEF StillRevoked
  <2>4. CASE r.op = "update"
    <3>1. redis'[id] = Store!Merge(redis[id], r.arg)
      BY <1>0, <1>3, <2>1, <2>4, FreshMerged
    <3> QED
      BY <2>1, <2>2, <2>4, <3>1 DEF StillRevoked, Store!Merge
  <2>5. CASE r.op = "add"
    <3>1. redis'[id] = Store!WithCommand(redis[id], r.arg)
      BY <1>0, <1>3, <2>1, <2>5, FreshMerged
    <3> QED
      BY <2>1, <2>2, <2>5, <3>1 DEF StillRevoked, Store!WithCommand
  <2>6. CASE r.op = "remove"
    <3>1. redis'[id] = Store!WithoutCommand(redis[id], r.arg)
      BY <1>0, <1>3, <2>1, <2>6, FreshMerged
    <3> QED
      BY <2>1, <2>2, <2>6, <3>1 DEF StillRevoked, Store!WithoutCommand
  <2> QED
    BY <1>0, <2>3, <2>4, <2>5, <2>6, RequestShape
<1> QED
  BY <1>2, <1>3

LEMMA NextSInv ==
  SInv /\ [Next]_vars /\ [\A p \in Procs : Undisturbing(p)]_vars => SInv'
<1> SUFFICES ASSUME SInv, [Next]_vars, [\A p \in Procs : Undisturbing(p)]_vars
             PROVE  SInv'
  OBVIOUS
<1>1. IInv'
  BY NextIInv DEF SInv
<1>2. \A p \in Procs : Fresh(p)'
  BY FreshPreserved
<1>3. RevocationHolds'
  <2>1. CASE UNCHANGED <<redis, revoked>>
    BY <2>1 DEF SInv, RevocationHolds
  <2>2. ASSUME NEW p \in Procs, Hset(p)
        PROVE  RevocationHolds'
    BY <2>2, HsetRevocation
  <2> QED
    BY <2>1, <2>2 DEF Next, Begin, Get, Reget, Fail, vars
<1> QED
  BY <1>1, <1>2, <1>3 DEF SInv

\* Whatever the processes do: as long as no write falls into another command
\* on its session, a removed command stays on the forbid-list until some caller
\* adds it again or replaces the list.
THEOREM RevocationHoldsUndisturbed == Spec /\ Undisturbed => []RevocationHolds
<1>1. SInv => RevocationHolds
  BY DEF SInv
<1> QED
  BY <1>1, NextSInv, InitSInv, PTL DEF Spec, Undisturbed

\* A single process disturbs nobody.
LEMMA AloneUndisturbed ==
  ASSUME SingleProcess PROVE \A p \in Procs : Undisturbing(p)
  BY DEF SingleProcess, Undisturbing

\* With a single process on the Redis it always does.
THEOREM RevocationHoldsAlone ==
  ASSUME SingleProcess
  PROVE  Spec => []RevocationHolds
  BY AloneUndisturbed, RevocationHoldsUndisturbed, PTL DEF Undisturbed

\* The hset of a command is the atomic operation of the store.
LEMMA HsetRefines ==
  ASSUME SInv, NEW p \in Procs, Hset(p)
  PROVE  Store!StoreNext
<1> DEFINE r == req[p]
<1>0. IInv /\ TypeOK /\ Fresh(p) /\ pc[p] = "hset" /\ r \in Requests /\ r.id \in Ids
  BY RequestShape DEF SInv, IInv, Underway, Hset
<1>1. /\ redis' = [redis EXCEPT ![r.id] = Merged(p)]
      /\ last' = r
  BY DEF Hset
<1>2. r.op # "create" => redis[r.id] # NoSession
  BY <1>0, FreshMerged, NoSessionAssumption
<1>3. CASE r.op = "create"
  <2>1. Merged(p) = r.arg /\ r.arg \in Store!Session
    BY <1>0, <1>3, FreshMerged, RequestShape
  <2>2. r = [op |-> "create", id |-> r.id, arg |-> r.arg]
    BY <1>0, <1>3 DEF Requests
  <2>3. Store!Create(r.id, r.arg)
    BY <1>1, <2>1, <2>2 DEF Store!Create
  <2> QED
    BY <1>0, <2>1, <2>3 DEF Store!StoreNext
<1>4. CASE r.op = "update"
  <2>1. Merged(p) = Store!Merge(redis[r.id], r.arg) /\ r.arg \in Store!Attrs
    BY <1>0, <1>4, FreshMerged, RequestShape
  <2>2. r = [op |-> "update", id |-> r.id, arg |-> r.arg]
    BY <1>0, <1>4 DEF Requests
  <2>3. Store!Update(r.id, r.arg)
    BY <1>1, <1>2, <1>4, <2>1, <2>2 DEF Store!Update
  <2> QED
    BY <1>0, <2>1, <2>3 DEF Store!StoreNext
<1>5. CASE r.op = "add"
  <2>1. Merged(p) = Store!WithCommand(redis[r.id], r.arg) /\ r.arg \in Commands
    BY <1>0, <1>5, FreshMerged, RequestShape DEF TwoLists
  <2>2. r = [op |-> "add", id |-> r.id, arg |-> r.arg]
    BY <1>0, <1>5 DEF Requests
  <2>3. Store!AddCommand(r.id, r.arg)
    BY <1>1, <1>2, <1>5, <2>1, <2>2 DEF Store!AddCommand
  <2> QED
    BY <1>0, <2>1, <2>3 DEF Store!StoreNext
<1>6. CASE r.op = "remove"
  <2>1. Merged(p) = Store!WithoutCommand(redis[r.id], r.arg) /\ r.arg \in Commands
    BY <1>0, <1>6, FreshMerged, RequestShape DEF TwoLists
  <2>2. r = [op |-> "remove", id |-> r.id, arg |-> r.arg]
    BY <1>0, <1>6 DEF Requests
  <2>3. Store!RemoveCommand(r.id, r.arg)
    BY <1>1, <1>2, <1>6, <2>1, <2>2 DEF Store!RemoveCommand
  <2> QED
    BY <1>0, <2>1, <2>3 DEF Store!StoreNext
<1> QED
  BY <1>0, <1>3, <1>4, <1>5, <1>6, RequestShape

\* As long as no write falls into another command on its session, the
\* commands implement the store that their callers are promised: hset is the
\* atomic step, the reads stutter.
THEOREM StoreRefinedUndisturbed == Spec /\ Undisturbed => StoreRefined
<1>1. Init => Store!StoreInit
  BY DEF Init
<1>2. SInv /\ [Next]_vars => [Store!StoreNext]_<<redis, last>>
  <2>1. SUFFICES ASSUME SInv, Next, ~ UNCHANGED <<redis, last>>
                 PROVE  Store!StoreNext
    BY DEF vars
  <2>2. PICK p \in Procs : Hset(p)
    BY <2>1 DEF Next, Begin, Get, Reget, Fail
  <2> QED
    BY <2>1, <2>2, HsetRefines
<1> QED
  BY <1>1, <1>2, NextSInv, InitSInv, PTL
  DEF Spec, Undisturbed, StoreRefined, Store!StoreSpec

\* With a single process on the Redis they always do.
THEOREM StoreRefinedAlone ==
  ASSUME SingleProcess
  PROVE  Spec => StoreRefined
  BY AloneUndisturbed, StoreRefinedUndisturbed, PTL DEF Undisturbed
=============================================================================
