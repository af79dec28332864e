---------------------------- MODULE ContextBuilder ----------------------------
(***************************************************************************)
(* The context of a request (src/mwps/context_builder.py and               *)
(* relevance_slot_builder.py), and its two users: mwps_chat, which sends   *)
(* it, and get_model_context, which shows what would be sent.              *)
(*                                                                         *)
(* A message of the context is the segment it comes from, its place there, *)
(* its number of characters and, in the history, its word-overlap score.   *)
(* Nothing changes between the reads here; ChatSession has the races.      *)
(***************************************************************************)
EXTENDS Integers, Sequences, FiniteSets

CONSTANTS
  Sizes,          \* numbers of characters of a message
  Scores,         \* relevance scores, for the query of the request
  MaxSystem,      \* bound on the standards, and on the rules, of a session
  MaxHistory,     \* bound on the stored messages
  LastNs,         \* last_n_messages
  Limits,         \* max_context_tokens
  Reserved,       \* min_semantic_tokens + min_documentation_tokens
  CharsPerToken,  \* CHARS_PER_TOKEN_ESTIMATE
  Tools,          \* names of tools
  Help            \* the help tool

ASSUME ConstantsAssumption ==
  /\ Sizes \subseteq Nat /\ Scores \subseteq Nat
  /\ MaxSystem \in Nat /\ MaxHistory \in Nat
  /\ LastNs \subseteq Nat /\ Limits \subseteq Nat \ {0}
  /\ Reserved \in Nat /\ CharsPerToken \in Nat \ {0}
  /\ Help \notin Tools

VARIABLES
  session,    \* the sizes of the session's standards and rules, with the files'
  stored,     \* the stored messages, by created_at
  lastN,
  maxTokens,
  offered,    \* the names of the session's tool list
  fileTools,  \* the tools of tools_file_path
  sent,       \* what mwps_chat has sent to the provider
  shown       \* what get_model_context has answered

vars == <<session, stored, lastN, maxTokens, offered, fileTools, sent, shown>>

inputs == <<session, stored, lastN, maxTokens, offered, fileTools>>

Upto(S, n) == UNION {[1 .. k -> S] : k \in 0 .. n}

Message(part, at, size) == [part |-> part, at |-> at, size |-> size]

\* The blocks of a segment, from the sizes of its texts.
Blocks(part, sizes) == [i \in DOMAIN sizes |-> Message(part, i, sizes[i])]

-----------------------------------------------------------------------------
(* The segments *)

\* Where a Python slice with this bound cuts n elements.
Cut(bound, n) ==
  IF bound < 0 THEN IF n + bound < 0 THEN 0 ELSE n + bound
               ELSE IF bound > n THEN n ELSE bound

AllStored == [i \in DOMAIN stored |-> Message("recent", i, stored[i].size)]

\* Mutants: messages[-n:] also for n = 0; places are counted from zero.
RecentWithoutZero ==
  SubSeq(AllStored, Cut(- lastN, Len(stored)) + 1, Len(stored))
RecentFromZero ==
  IF lastN = 0 THEN <<>>
  ELSE [i \in 1 .. Len(stored) - Cut(- lastN, Len(stored)) |->
          LET at == Cut(- lastN, Len(stored)) + i
          IN  Message("recent", at - 1, stored[at].size)]

\* The last N messages: messages[-n:] if n else [].
Recent ==
  IF lastN = 0 THEN <<>>
  ELSE SubSeq(AllStored, Cut(- lastN, Len(stored)) + 1, Len(stored))

\* The older messages, which have a body: messages[:-n] if n else messages.
Older ==
  {i \in IF lastN = 0 THEN DOMAIN stored ELSE 1 .. Cut(- lastN, Len(stored)) :
     stored[i].size > 0}

\* fill_slot: sorted by score, greatest first; the sort is stable.
Sorted ==
  [k \in 1 .. Cardinality(Older) |->
     CHOOSE i \in Older :
       Cardinality({j \in Older : \/ stored[j].score > stored[i].score
                                  \/ stored[j].score = stored[i].score /\ j < i}) = k - 1]

RelevanceSlot ==
  [k \in DOMAIN Sorted |-> Message("older", Sorted[k], stored[Sorted[k]].size)]

Ordered ==
  Blocks("standard", session.standards) \o Blocks("rule", session.rules)
    \o Recent \o RelevanceSlot

-----------------------------------------------------------------------------
(* The trim *)

Chars(messages) ==
  LET sum[i \in 0 .. Len(messages)] ==
        IF i = 0 THEN 0 ELSE sum[i - 1] + messages[i].size
  IN  sum[Len(messages)]

Tokens(messages) == Chars(messages) \div CharsPerToken

Without(messages, n) == SubSeq(messages, n + 1, Len(messages))

\* Mutant: the loop goes on at the limit.
LoopAtLimit(messages, limit) ==
  LET loop[k \in 0 .. Len(messages)] ==
        IF k = 0 THEN [dropped |-> 0, chars |-> Chars(messages)]
        ELSE LET at == loop[k - 1] IN
             IF at.chars \div CharsPerToken >= limit
             THEN [dropped |-> at.dropped + 1,
                   chars   |-> at.chars - messages[at.dropped + 1].size]
             ELSE at
  IN  loop[Len(messages)]

\* The loop of the trim after k rounds, of which there are no more than messages:
\* the messages it has dropped, and the characters it holds to be left, which it
\* counts down from the sum.
Loop(messages, limit) ==
  LET loop[k \in 0 .. Len(messages)] ==
        IF k = 0 THEN [dropped |-> 0, chars |-> Chars(messages)]
        ELSE LET at == loop[k - 1] IN
             IF at.chars \div CharsPerToken > limit
             THEN [dropped |-> at.dropped + 1,
                   chars   |-> at.chars - messages[at.dropped + 1].size]
             ELSE at
  IN  loop[Len(messages)]

\* trim_messages_to_token_limit: messages are dropped from the start.
Trim(messages, limit) ==
  IF limit <= 0 THEN messages ELSE Without(messages, Loop(messages, limit).dropped)

\* The commands give max_context_tokens, which the config makes positive, also
\* as the window of the model.
EffectiveLimit == maxTokens

\* The remainder is negative: ContextBuilderError.
LimitTooSmall == EffectiveLimit - Reserved < 0

-----------------------------------------------------------------------------
(* The commands; both append the request's own message, left out here *)

None == [kind |-> "none", messages |-> <<>>, tools |-> {}]

Init ==
  /\ session \in [standards : Upto(Sizes, MaxSystem), rules : Upto(Sizes, MaxSystem)]
  /\ stored \in Upto([size : Sizes, score : Scores], MaxHistory)
  /\ lastN \in LastNs
  /\ maxTokens \in Limits
  /\ offered \in SUBSET Tools
  /\ fileTools \in SUBSET Tools
  /\ sent = None
  /\ shown = None

\* On an error of the builder mwps_chat sends all messages.
Chat ==
  /\ sent = None
  /\ sent' = [kind |-> IF LimitTooSmall THEN "fallback" ELSE "context",
              messages |-> IF LimitTooSmall THEN AllStored
                           ELSE Trim(Ordered, EffectiveLimit),
              tools |-> offered \cup {Help}]
  /\ UNCHANGED <<inputs, shown>>

\* Without a tool of the session the tools of the file are shown.
GetModelContext ==
  /\ shown = None
  /\ shown' = IF LimitTooSmall THEN [None EXCEPT !.kind = "error"]
              ELSE [kind |-> "context", messages |-> Trim(Ordered, EffectiveLimit),
                    tools |-> {Help} \cup IF offered # {} THEN offered ELSE fileTools]
  /\ UNCHANGED <<inputs, sent>>

Next == Chat \/ GetModelContext

Spec == Init /\ [][Next]_vars

-----------------------------------------------------------------------------
(* Properties *)

Parts == <<"standard", "rule", "recent", "older">>

TypeOK ==
  \A answer \in {sent, shown} :
    /\ answer.kind \in {"none", "context", "fallback", "error"}
    /\ \A i \in DOMAIN answer.messages :
         /\ answer.messages[i].part \in {Parts[p] : p \in DOMAIN Parts}
         /\ answer.messages[i].at \in Nat \ {0}
         /\ answer.messages[i].size \in Sizes
    /\ answer.tools \subseteq Tools \cup {Help}

\* A context keeps to the limit, and no message is given up that still had room:
\* counting down is as good as adding up what is left
\* (trim_messages_to_token_limit, context_builder.py:43-65).
FillsLimit ==
  \A answer \in {sent, shown} : answer.kind = "context" =>
    /\ Tokens(answer.messages) <= EffectiveLimit
    /\ LET dropped == Len(Ordered) - Len(answer.messages) IN
       dropped > 0 => Tokens(Without(Ordered, dropped - 1)) > EffectiveLimit

\* The last N messages and the slot for the others, two slices cut in two files
\* (context_builder.py:130, relevance_slot_builder.py:64-65), and the history
\* that is sent instead: no stored message is there twice, and one with a body
\* is missing only from a context that was too long.
HistoryOnce ==
  \A answer \in {sent, shown}, i \in DOMAIN stored :
    LET copies == {k \in DOMAIN answer.messages :
                     /\ answer.messages[k].part \in {"recent", "older"}
                     /\ answer.messages[k].at = i}
    IN  answer.kind \in {"context", "fallback"} =>
          /\ \A k, l \in copies : k = l
          /\ copies = {} =>
               \/ stored[i].size = 0
               \/ answer.kind = "context" /\ Tokens(Ordered) > EffectiveLimit
=============================================================================
