----------------------- MODULE PartialRolloutProofs -----------------------
(***************************************************************************)
(* Proofs about PartialRollout: for any number of conversations, servers   *)
(* and interruptions, no token of a conversation is lost or said twice,    *)
(* and servers interrupt exactly the requests they should.                 *)
(***************************************************************************)
EXTENDS PartialRollout, TLAPS

AllTokens == Tokens \cup {"reply"}
Outputs == [tokens : Seq(Tokens), over : BOOLEAN]
Answers == [tokens : Seq(Tokens), is_cancel : BOOLEAN]

Types ==
  /\ TypeOK
  /\ ids \in [Convs -> Seq(AllTokens)] /\ spoken \in [Convs -> Seq(AllTokens)]
  /\ mask \in [Convs -> Seq({0, 1})]
  /\ assistant_turns \in [Convs -> Nat] /\ user_turns \in [Convs -> Nat]
  /\ output \in [Convs -> Outputs]
  /\ answer \in [Convs -> Answers]
  /\ cancel_event \in [Convs -> {"none", "clear", "set"}]
  /\ server \in [Convs -> Servers]

Masks(m, s) == DOMAIN m = DOMAIN s /\ \A i \in DOMAIN s : m[i] = 0 <=> s[i] = "reply"

\* Unbroken is not inductive: that a turn is counted when its answer is complete, and
\* once, rests on where in its loop a conversation is in which state.
Told(c) ==
  /\ spoken[c] = ids[c] \o InAnswer(c)
  /\ Masks(mask[c], ids[c])
  /\ state[c] \in {"pending", "generating"} => assistant_turns[c] = user_turns[c]
  /\ state[c] \in {"processing_tools", "interacting"} => assistant_turns[c] = user_turns[c] + 1
  /\ c \notin SingleTurn /\ at[c] \in {"request", "server", "answer"} => state[c] = "generating"
  /\ c \in SingleTurn => state[c] = "pending"
  /\ at[c] \in {"processing_tools", "interacting"} => state[c] = at[c]

TalkInv == Types /\ \A c \in Convs : Told(c)

-----------------------------------------------------------------------------
(* Sequences of tokens and their masks                                       *)

LEMMA MaskAppend ==
  ASSUME NEW s \in Seq(AllTokens), NEW t \in Seq(AllTokens),
         NEW m \in Seq({0, 1}), NEW o \in Seq({0, 1}), Masks(m, s), Masks(o, t)
  PROVE  s \o t \in Seq(AllTokens) /\ m \o o \in Seq({0, 1}) /\ Masks(m \o o, s \o t)
<1>1. s \o t \in Seq(AllTokens) /\ m \o o \in Seq({0, 1})
  OBVIOUS
<1>2. Len(m) = Len(s) /\ Len(o) = Len(t)
  BY DEF Masks
<1>3. DOMAIN (m \o o) = 1 .. Len(s) + Len(t) /\ DOMAIN (s \o t) = 1 .. Len(s) + Len(t)
  BY <1>2
<1>4. ASSUME NEW i \in 1 .. Len(s) + Len(t)
      PROVE  (m \o o)[i] = 0 <=> (s \o t)[i] = "reply"
  <2>1. CASE i <= Len(s)
    <3>1. (m \o o)[i] = m[i] /\ (s \o t)[i] = s[i] /\ i \in DOMAIN s
      BY <1>2, <2>1
    <3> QED
      BY <3>1 DEF Masks
  <2>2. CASE i > Len(s)
    <3>1. (m \o o)[i] = o[i - Len(s)] /\ (s \o t)[i] = t[i - Len(s)] /\ i - Len(s) \in DOMAIN t
      BY <1>2, <2>2
    <3> QED
      BY <3>1 DEF Masks
  <2>3. i <= Len(s) \/ i > Len(s)
    OBVIOUS
  <2> QED
    BY <2>1, <2>2, <2>3
<1> QED
  BY <1>1, <1>3, <1>4 DEF Masks

LEMMA OnesMask ==
  ASSUME NEW t \in Seq(Tokens)
  PROVE  t \in Seq(AllTokens) /\ Ones(t) \in Seq({0, 1}) /\ Masks(Ones(t), t)
<1>1. t \in Seq(AllTokens) /\ \A i \in DOMAIN t : t[i] # "reply"
  BY DEF AllTokens, Tokens
<1>2. DOMAIN t = 1 .. Len(t) /\ Len(t) \in Nat
  OBVIOUS
<1>3. Ones(t) = [i \in 1 .. Len(t) |-> 1]
  BY <1>2 DEF Ones
<1> QED
  BY <1>1, <1>2, <1>3 DEF Masks

LEMMA RepliesMask ==
  ASSUME NEW n \in Nat
  PROVE  /\ Replies(n) \in Seq(AllTokens) /\ [i \in 1 .. n |-> 0] \in Seq({0, 1})
         /\ Masks([i \in 1 .. n |-> 0], Replies(n))
BY DEF Replies, AllTokens, Masks

LEMMA NothingYet ==
  ASSUME NEW s \in Seq(AllTokens) PROVE s \o <<>> = s
OBVIOUS

\* What is left to show when a conversation's step leaves the manager alone.
LEMMA TypesKept ==
  ASSUME TalkInv, UNCHANGED <<control, server>>,
         at' \in [Convs -> {"held", "loop", "request", "server", "answer", "processing_tools",
                            "interacting", "done", "failed"}],
         state' \in [Convs -> {"pending", "generating", "processing_tools", "interacting",
                               "terminated"}],
         ids' \in [Convs -> Seq(AllTokens)], spoken' \in [Convs -> Seq(AllTokens)],
         mask' \in [Convs -> Seq({0, 1})],
         assistant_turns' \in [Convs -> Nat], user_turns' \in [Convs -> Nat],
         output' \in [Convs -> Outputs],
         answer' \in [Convs -> Answers],
         cancel_event' \in [Convs -> {"none", "clear", "set"}]
  PROVE  Types'
<1>1. TypeOK'
  <2>1. \A c \in Convs : ids'[c] \in Seq(Tokens \cup {"reply"}) /\ mask'[c] \in Seq({0, 1})
    BY DEF AllTokens
  <2> QED
    BY <2>1 DEF TalkInv, Types, TypeOK, control
<1> QED
  BY <1>1 DEF TalkInv, Types

-----------------------------------------------------------------------------
LEMMA TalkInit == ASSUME ConstantsOK PROVE Init => TalkInv
<1> SUFFICES ASSUME Init PROVE TalkInv
  OBVIOUS
<1>1. <<>> \in Seq(AllTokens) /\ <<>> \in Seq({0, 1}) /\ <<>> \in Seq(Tokens) /\ <<>> \in Seq(Tokens \cup {"reply"})
  OBVIOUS
<1>2. TypeOK
  BY <1>1 DEF Init, TypeOK, ConstantsOK
<1>3. (CHOOSE s \in Servers : TRUE) \in Servers
  BY DEF ConstantsOK
<1>4. Types
  <2>1. /\ [tokens |-> <<>>, over |-> FALSE] \in Outputs
        /\ [tokens |-> <<>>, is_cancel |-> FALSE] \in Answers
    BY <1>1 DEF Outputs, Answers
  <2> QED
    BY <1>1, <1>2, <1>3, <2>1 DEF Init, Types
<1>5. ASSUME NEW c \in Convs PROVE Told(c)
  BY <1>1, NothingYet DEF Init, Told, Masks, InAnswer
<1> QED
  BY <1>4, <1>5 DEF TalkInv

\* A step of one conversation.
LEMMA OneConversation ==
  ASSUME TalkInv, NEW c \in Convs, Types', Told(c)',
         \A d \in Convs \ {c} :
           /\ at'[d] = at[d] /\ state'[d] = state[d] /\ ids'[d] = ids[d] /\ mask'[d] = mask[d]
           /\ assistant_turns'[d] = assistant_turns[d] /\ user_turns'[d] = user_turns[d]
           /\ answer'[d] = answer[d] /\ spoken'[d] = spoken[d]
  PROVE  TalkInv'
<1>1. ASSUME NEW d \in Convs \ {c} PROVE Told(d)'
  BY <1>1 DEF TalkInv, Told, InAnswer
<1> QED
  BY <1>1 DEF TalkInv

\* A step that touches no conversation.
LEMMA NoConversation ==
  ASSUME TalkInv, UNCHANGED <<at, agent, answer, spoken>>, Types'
  PROVE  TalkInv'
BY DEF TalkInv, Told, InAnswer, agent

LEMMA ManagerTalk == ASSUME ConstantsOK, TalkInv, Manager PROVE TalkInv'
<1>1. UNCHANGED <<at, agent, server, output, answer, spoken>>
  BY DEF Manager, Pause, WorkerCancels, Cancelled, Gathered, ServerCancels, Resumes, request
<1>2. /\ phase' \in {"running", "cancelling", "waiting", "paused", "resuming"}
      /\ pauses' \in 0 .. MaxPauses /\ stopped' \subseteq Servers \cup {Worker}
  BY DEF Manager, Pause, WorkerCancels, Cancelled, Gathered, ServerCancels, Resumes,
         TalkInv, Types, TypeOK, ConstantsOK
<1>3. cancel_event' \in [Convs -> {"none", "clear", "set"}]
  BY DEF Manager, Pause, WorkerCancels, Cancelled, Gathered, ServerCancels, Resumes,
         TalkInv, Types, request
<1>4. TypeOK'
  BY <1>1, <1>2 DEF TalkInv, Types, TypeOK, agent
<1>5. Types'
  BY <1>1, <1>3, <1>4 DEF TalkInv, Types, agent
<1> QED
  BY <1>1, <1>5, NoConversation

LEMMA SubmitTalk ==
  ASSUME ConstantsOK, TalkInv, NEW g \in Groups, Submit(g)
  PROVE  TalkInv'
<1>1. /\ at' = [c \in Convs |-> IF c \in g /\ at[c] = "held" THEN "loop" ELSE at[c]]
      /\ UNCHANGED <<control, agent, request, spoken>>
  BY DEF Submit
<1>2. server' \in [Convs -> Servers]
  BY DEF Submit, TalkInv, Types
<1>3. Types'
  BY <1>1, <1>2 DEF TalkInv, Types, TypeOK, agent, request, control
<1>4. ASSUME NEW c \in Convs PROVE Told(c)'
  <2>1. at'[c] = at[c] \/ (at[c] = "held" /\ at'[c] = "loop")
    BY <1>1
  <2>2. Told(c)
    BY DEF TalkInv
  <2> QED
    BY <1>1, <2>1, <2>2 DEF Told, InAnswer, agent, request
<1> QED
  BY <1>3, <1>4 DEF TalkInv

-----------------------------------------------------------------------------
(* The server                                                                *)

LEMMA ArriveTalk ==
  ASSUME ConstantsOK, TalkInv, NEW c \in Convs, Arrive(c)
  PROVE  TalkInv'
<1> DEFINE none == [tokens |-> <<>>, is_cancel |-> TRUE]
           new == [tokens |-> <<>>, over |-> FALSE]
<1>1. none \in Answers /\ new \in Outputs
  BY DEF Answers, Outputs
<1>2. none.tokens = <<>>
  OBVIOUS
<1>3. /\ at[c] = "request" /\ UNCHANGED <<control, agent, server, spoken>>
      /\ \/ /\ at' = [at EXCEPT ![c] = "answer"] /\ answer' = [answer EXCEPT ![c] = none]
            /\ UNCHANGED <<cancel_event, output>>
         \/ /\ at' = [at EXCEPT ![c] = "server"] /\ answer' = answer
            /\ cancel_event' = [cancel_event EXCEPT ![c] = "clear"]
            /\ output' = [output EXCEPT ![c] = new]
  BY DEF Arrive
<1> HIDE DEF none, new
<1>4. Types'
  <2>1. at' \in [Convs -> {"held", "loop", "request", "server", "answer", "processing_tools",
                          "interacting", "done", "failed"}]
    <3>1. at \in [Convs -> {"held", "loop", "request", "server", "answer", "processing_tools",
                           "interacting", "done", "failed"}]
      BY DEF TalkInv, Types, TypeOK
    <3>2. at' = [at EXCEPT ![c] = "answer"] \/ at' = [at EXCEPT ![c] = "server"]
      BY <1>3
    <3> QED
      BY <3>1, <3>2
  <2>2. answer' \in [Convs -> Answers]
    <3>1. answer \in [Convs -> Answers]
      BY DEF TalkInv, Types
    <3>2. answer' = answer \/ answer' = [answer EXCEPT ![c] = none]
      BY <1>3
    <3> QED
      BY <1>1, <3>1, <3>2
  <2>3. output' \in [Convs -> Outputs]
    <3>1. output \in [Convs -> Outputs]
      BY DEF TalkInv, Types
    <3>2. output' = output \/ output' = [output EXCEPT ![c] = new]
      BY <1>3
    <3> QED
      BY <1>1, <3>1, <3>2
  <2>4. cancel_event' \in [Convs -> {"none", "clear", "set"}]
    BY <1>3 DEF TalkInv, Types
  <2> QED
    BY <1>3, <2>1, <2>2, <2>3, <2>4, TypesKept DEF TalkInv, Types, TypeOK, agent
<1>5. Told(c)'
  BY <1>2, <1>3, NothingYet DEF TalkInv, Types, TypeOK, Told, InAnswer, agent
<1> QED
  BY <1>3, <1>4, <1>5, OneConversation DEF TalkInv, Types, TypeOK, agent

LEMMA EngineTalk ==
  ASSUME ConstantsOK, TalkInv, NEW c \in Convs, Engine(c)
  PROVE  TalkInv'
<1>1. CASE EngineRaises(c)
  <2>1. /\ at[c] = "server" /\ at' = [at EXCEPT ![c] = "failed"]
        /\ UNCHANGED <<control, agent, server, request, spoken>>
    BY <1>1 DEF EngineRaises
  <2>2. Types'
    BY <2>1 DEF TalkInv, Types, TypeOK, agent, request, control
  <2>3. Told(c)'
    BY <2>1 DEF TalkInv, Types, TypeOK, Told, InAnswer, agent, request
  <2> QED
    BY <2>1, <2>2, <2>3, OneConversation DEF TalkInv, Types, TypeOK, agent, request
<1>2. CASE EngineEnds(c) \/ \E t \in Tokens : Emit(c, t)
  <2>1. UNCHANGED <<control, at, agent, server, cancel_event, answer, spoken>>
    BY <1>2 DEF EngineEnds, Emit
  <2>2. output' \in [Convs -> Outputs]
    <3>1. output[c].tokens \in Seq(Tokens) /\ output[c].over \in BOOLEAN
      <4>1. output[c] \in Outputs
        BY DEF TalkInv, Types
      <4> QED
        BY <4>1 DEF Outputs
    <3>2. CASE EngineEnds(c)
      <4>1. [output[c] EXCEPT !.over = TRUE] \in Outputs
        <5> DEFINE x == output[c]
        <5>1. x \in Outputs
          BY DEF TalkInv, Types
        <5> HIDE DEF x
        <5>2. [x EXCEPT !.over = TRUE] \in Outputs
          BY <5>1 DEF Outputs
        <5> QED
          BY <5>2 DEF x
      <4>2. output' = [output EXCEPT ![c] = [output[c] EXCEPT !.over = TRUE]]
        BY <3>2 DEF EngineEnds
      <4> QED
        BY <4>1, <4>2 DEF TalkInv, Types
    <3>3. ASSUME NEW t \in Tokens, Emit(c, t)
          PROVE  output' \in [Convs -> Outputs]
      <4>1. Append(output[c].tokens, t) \in Seq(Tokens)
        BY <3>1, <3>3
      <4>2. [output[c] EXCEPT !.tokens = Append(output[c].tokens, t)]
              \in Outputs
        <5> DEFINE x == Append(output[c].tokens, t)
        <5>1. x \in Seq(Tokens) /\ output[c] \in Outputs
          BY <4>1 DEF TalkInv, Types
        <5> HIDE DEF x
        <5>2. [output[c] EXCEPT !.tokens = x] \in Outputs
          BY <5>1 DEF Outputs
        <5> QED
          BY <5>2 DEF x
      <4>3. output' = [output EXCEPT ![c] = [output[c] EXCEPT !.tokens = Append(output[c].tokens, t)]]
        BY <3>3 DEF Emit
      <4> HIDE <4>1
      <4> QED
        BY <4>2, <4>3 DEF TalkInv, Types
    <3> QED
      BY <1>2, <3>2, <3>3
  <2>3. Types'
    BY <2>1, <2>2 DEF TalkInv, Types, TypeOK, agent, control
  <2> QED
    BY <2>1, <2>3, NoConversation
<1> QED
  BY <1>1, <1>2 DEF Engine

LEMMA AnsweredTalk ==
  ASSUME ConstantsOK, TalkInv, NEW c \in Convs, Answered(c)
  PROVE  TalkInv'
<1> DEFINE tokens == output[c].tokens
           said == [tokens |-> tokens, is_cancel |-> ~output[c].over]
           new == [tokens |-> <<>>, over |-> FALSE]
<1>1. tokens \in Seq(Tokens) /\ tokens \in Seq(AllTokens)
  <2>1. output[c] \in Outputs
    BY DEF TalkInv, Types
  <2>2. tokens \in Seq(Tokens)
    BY <2>1 DEF Outputs
  <2> QED
    BY <2>2, OnesMask
<1>2. /\ said \in Answers /\ said.tokens = tokens
      /\ new \in Outputs
  BY <1>1 DEF Answers, Outputs
<1>3. /\ at[c] = "server" /\ at' = [at EXCEPT ![c] = "answer"]
      /\ answer' = [answer EXCEPT ![c] = said]
      /\ cancel_event' \in [Convs -> {"none", "clear", "set"}]
      /\ output' = [output EXCEPT ![c] = new]
      /\ spoken' = [spoken EXCEPT ![c] = @ \o tokens]
      /\ UNCHANGED <<control, agent, server>>
  BY DEF Answered, TalkInv, Types
<1> HIDE DEF said, new, tokens
<1>4. spoken[c] \o tokens \in Seq(AllTokens)
  BY <1>1 DEF TalkInv, Types
<1>5. Types'
  BY <1>2, <1>3, <1>4 DEF TalkInv, Types, TypeOK, agent, control
<1>6. Told(c)'
  <2>1. spoken[c] = ids[c]
    BY <1>3, NothingYet DEF TalkInv, Types, Told, InAnswer
  <2>2. spoken'[c] = ids'[c] \o InAnswer(c)'
    BY <1>2, <1>3, <2>1 DEF TalkInv, Types, TypeOK, InAnswer, agent
  <2> QED
    BY <1>3, <2>2 DEF TalkInv, Types, TypeOK, Told, agent
<1> QED
  BY <1>3, <1>5, <1>6, OneConversation DEF TalkInv, Types, TypeOK, agent

-----------------------------------------------------------------------------
(* The agent loops                                                           *)

LEMMA StepTalk ==
  ASSUME ConstantsOK, TalkInv, NEW c \in Convs, Step(c) \/ Complete(c)
  PROVE  TalkInv'
<1>1. /\ at[c] = "loop"
      /\ UNCHANGED <<control, ids, mask, assistant_turns, user_turns, server, request, spoken>>
  BY DEF Step, Complete, agent
<1>2. \/ /\ c \in SingleTurn /\ at' = [at EXCEPT ![c] = "request"] /\ state' = state
      \/ /\ \E x \in {"held", "done"} : at' = [at EXCEPT ![c] = x]
         /\ state' = state
      \/ /\ c \notin SingleTurn /\ state[c] = "pending"
         /\ at' = [at EXCEPT ![c] = "loop"] /\ state' = [state EXCEPT ![c] = "generating"]
      \/ /\ c \notin SingleTurn /\ state[c] = "generating"
         /\ at' = [at EXCEPT ![c] = "request"] /\ state' = [state EXCEPT ![c] = state[c]]
      \/ /\ c \notin SingleTurn /\ state[c] \in {"processing_tools", "interacting"}
         /\ at' = [at EXCEPT ![c] = state[c]] /\ state' = [state EXCEPT ![c] = state[c]]
  <2>1. state[c] \in {"pending", "generating", "processing_tools", "interacting", "terminated"}
    BY DEF TalkInv, Types, TypeOK
  <2> QED
    BY <2>1 DEF Step, Complete, agent
<1>3. Types'
  <2>1. at' \in [Convs -> {"held", "loop", "request", "server", "answer", "processing_tools",
                          "interacting", "done", "failed"}]
    BY <1>2 DEF TalkInv, Types, TypeOK
  <2>2. state' \in [Convs -> {"pending", "generating", "processing_tools", "interacting",
                             "terminated"}]
    <3>1. state[c] \in {"pending", "generating", "processing_tools", "interacting", "terminated"}
      BY DEF TalkInv, Types, TypeOK
    <3>2. \E x \in {"generating", state[c]} : state' = state \/ state' = [state EXCEPT ![c] = x]
      BY <1>2
    <3> QED
      BY <3>1, <3>2 DEF TalkInv, Types, TypeOK
  <2> QED
    BY <1>1, <2>1, <2>2, TypesKept DEF TalkInv, Types, request
<1>4. Told(c)'
  BY <1>1, <1>2 DEF TalkInv, Types, TypeOK, Told, InAnswer, request
<1> QED
  BY <1>1, <1>2, <1>3, <1>4, OneConversation DEF TalkInv, Types, TypeOK, request

\* An answer becomes part of the conversation.
LEMMA TakeAnswer ==
  ASSUME TalkInv, NEW c \in Convs, at[c] = "answer",
         Append2(c, answer[c].tokens, Ones(answer[c].tokens)), spoken' = spoken
  PROVE  /\ ids' \in [Convs -> Seq(AllTokens)] /\ mask' \in [Convs -> Seq({0, 1})]
         /\ Masks(mask'[c], ids'[c]) /\ spoken'[c] = ids'[c] \o <<>>
         /\ \A d \in Convs \ {c} : ids'[d] = ids[d] /\ mask'[d] = mask[d]
<1> DEFINE t == answer[c].tokens
<1>1. t \in Seq(Tokens) /\ ids[c] \in Seq(AllTokens) /\ mask[c] \in Seq({0, 1})
  <2>1. answer[c] \in Answers
    BY DEF TalkInv, Types
  <2>2. t \in Seq(Tokens)
    BY <2>1 DEF Answers
  <2> HIDE DEF t
  <2> QED
    BY <2>2 DEF TalkInv, Types
<1>2. Masks(mask[c], ids[c]) /\ spoken[c] = ids[c] \o t
  BY DEF TalkInv, Told, InAnswer
<1> HIDE DEF t
<1>3. t \in Seq(AllTokens) /\ Ones(t) \in Seq({0, 1}) /\ Masks(Ones(t), t)
  BY <1>1, OnesMask
<1>4. /\ ids[c] \o t \in Seq(AllTokens) /\ mask[c] \o Ones(t) \in Seq({0, 1})
      /\ Masks(mask[c] \o Ones(t), ids[c] \o t)
  BY <1>1, <1>2, <1>3, MaskAppend
<1>5. ids' = [ids EXCEPT ![c] = ids[c] \o t] /\ mask' = [mask EXCEPT ![c] = mask[c] \o Ones(t)]
  BY DEF Append2, t
<1>6. ids'[c] = ids[c] \o t /\ mask'[c] = mask[c] \o Ones(t)
  BY <1>5 DEF TalkInv, Types
<1>7. spoken'[c] = ids'[c] \o <<>>
  BY <1>2, <1>4, <1>6, NothingYet
<1> QED
  BY <1>4, <1>5, <1>6, <1>7 DEF TalkInv, Types

LEMMA SingleTurnTalk ==
  ASSUME ConstantsOK, TalkInv, NEW c \in Convs, SingleTurnAnswer(c)
  PROVE  TalkInv'
<1>1. /\ c \in SingleTurn /\ at[c] = "answer"
      /\ \E x \in {"held", "done"} : at' = [at EXCEPT ![c] = x]
      /\ UNCHANGED <<control, state, assistant_turns, user_turns, server, request, spoken>>
  BY DEF SingleTurnAnswer
<1>2. /\ ids' \in [Convs -> Seq(AllTokens)] /\ mask' \in [Convs -> Seq({0, 1})]
      /\ Masks(mask'[c], ids'[c]) /\ spoken'[c] = ids'[c] \o <<>>
      /\ \A d \in Convs \ {c} : ids'[d] = ids[d] /\ mask'[d] = mask[d]
  BY <1>1, TakeAnswer DEF SingleTurnAnswer
<1>3. Types'
  <2>1. at' \in [Convs -> {"held", "loop", "request", "server", "answer", "processing_tools",
                          "interacting", "done", "failed"}]
    BY <1>1 DEF TalkInv, Types, TypeOK
  <2> QED
    BY <1>1, <1>2, <2>1, TypesKept DEF TalkInv, Types, TypeOK, request
<1>4. Told(c)'
  <2>1. at'[c] \in {"held", "done"}
    BY <1>1 DEF TalkInv, Types, TypeOK
  <2>2. InAnswer(c)' = <<>>
    BY <2>1 DEF InAnswer
  <2>3. Told(c)
    BY DEF TalkInv
  <2> QED
    BY <1>1, <1>2, <2>1, <2>2, <2>3 DEF Told
<1>5. \A d \in Convs \ {c} : at'[d] = at[d]
  BY <1>1 DEF TalkInv, Types, TypeOK
<1> QED
  BY <1>1, <1>2, <1>3, <1>4, <1>5, OneConversation DEF request

LEMMA AnswerTalk ==
  ASSUME ConstantsOK, TalkInv, NEW c \in Convs, InterruptedAnswer(c) \/ FinalAnswer(c)
  PROVE  TalkInv'
<1>1. /\ c \notin SingleTurn /\ at[c] = "answer" /\ at' = [at EXCEPT ![c] = "loop"]
      /\ Append2(c, answer[c].tokens, Ones(answer[c].tokens))
      /\ UNCHANGED <<control, user_turns, server, request, spoken>>
  BY DEF InterruptedAnswer, FinalAnswer
<1>2. /\ ids' \in [Convs -> Seq(AllTokens)] /\ mask' \in [Convs -> Seq({0, 1})]
      /\ Masks(mask'[c], ids'[c]) /\ spoken'[c] = ids'[c] \o <<>>
      /\ \A d \in Convs \ {c} : ids'[d] = ids[d] /\ mask'[d] = mask[d]
  BY <1>1, TakeAnswer
<1>3. \/ UNCHANGED <<assistant_turns, state>>
      \/ /\ assistant_turns' = [assistant_turns EXCEPT ![c] = @ + 1]
         /\ \E x \in {"terminated", "processing_tools", "interacting"} :
              state' = [state EXCEPT ![c] = x]
  <2>1. CASE InterruptedAnswer(c)
    BY <2>1 DEF InterruptedAnswer
  <2>2. CASE FinalAnswer(c)
    <3> DEFINE over == \/ Len(mask'[c]) >= response_length
                       \/ Exceeds(assistant_turns'[c], max_assistant_turns)
                       \/ Exceeds(user_turns[c], max_user_turns)
               next == CASE over -> "terminated"
                         [] HasCall(answer[c].tokens) -> "processing_tools"
                         [] HasInteraction -> "interacting"
                         [] OTHER -> "terminated"
    <3>1. /\ assistant_turns' = [assistant_turns EXCEPT ![c] = @ + 1]
          /\ state' = [state EXCEPT ![c] = next]
      BY <2>2 DEF FinalAnswer
    <3> HIDE DEF over
    <3>2. next \in {"terminated", "processing_tools", "interacting"}
      OBVIOUS
    <3> HIDE DEF next
    <3> QED
      BY <3>1, <3>2
  <2> QED
    BY <2>1, <2>2
<1>4. Types'
  <2>1. at' \in [Convs -> {"held", "loop", "request", "server", "answer", "processing_tools",
                          "interacting", "done", "failed"}]
    BY <1>1 DEF TalkInv, Types, TypeOK
  <2>2. state' \in [Convs -> {"pending", "generating", "processing_tools", "interacting",
                             "terminated"}]
    BY <1>3 DEF TalkInv, Types, TypeOK
  <2>3. assistant_turns' \in [Convs -> Nat]
    <3>1. assistant_turns[c] + 1 \in Nat
      BY DEF TalkInv, Types
    <3>2. assistant_turns \in [Convs -> Nat]
      BY DEF TalkInv, Types
    <3>3. \/ assistant_turns' = assistant_turns
          \/ assistant_turns' = [assistant_turns EXCEPT ![c] = assistant_turns[c] + 1]
      BY <1>3
    <3> QED
      BY <3>1, <3>2, <3>3
  <2> QED
    BY <1>1, <1>2, <2>1, <2>2, <2>3, TypesKept DEF TalkInv, Types, request
<1>5. Told(c)'
  <2>1. state[c] = "generating" /\ assistant_turns[c] = user_turns[c] /\ user_turns[c] \in Nat
    BY <1>1 DEF TalkInv, Types, Told
  <2>2. at'[c] = "loop" /\ InAnswer(c)' = <<>> /\ user_turns'[c] = user_turns[c]
    BY <1>1 DEF TalkInv, Types, TypeOK, InAnswer
  <2>3. \/ state'[c] = "generating" /\ assistant_turns'[c] = user_turns'[c]
        \/ /\ state'[c] \in {"terminated", "processing_tools", "interacting"}
           /\ assistant_turns'[c] = user_turns'[c] + 1
    BY <1>3, <2>1, <2>2 DEF TalkInv, Types, TypeOK
  <2> QED
    BY <1>1, <1>2, <2>2, <2>3 DEF Told
<1>6. \A d \in Convs \ {c} :
        /\ at'[d] = at[d] /\ state'[d] = state[d]
        /\ assistant_turns'[d] = assistant_turns[d] /\ user_turns'[d] = user_turns[d]
  BY <1>1, <1>2, <1>3 DEF TalkInv, Types, TypeOK
<1> QED
  BY <1>1, <1>2, <1>3, <1>4, <1>5, <1>6, OneConversation DEF request

\* A reply becomes part of the conversation.
LEMMA TakeReply ==
  ASSUME TalkInv, NEW c \in Convs, at[c] # "answer", NEW n \in Nat, Reply(c, n)
  PROVE  /\ ids' \in [Convs -> Seq(AllTokens)] /\ mask' \in [Convs -> Seq({0, 1})]
         /\ spoken' \in [Convs -> Seq(AllTokens)]
         /\ Masks(mask'[c], ids'[c]) /\ spoken'[c] = ids'[c] \o <<>>
         /\ \A d \in Convs \ {c} : ids'[d] = ids[d] /\ mask'[d] = mask[d] /\ spoken'[d] = spoken[d]
<1> DEFINE t == Replies(n)
           o == [i \in 1 .. n |-> 0]
<1>1. t \in Seq(AllTokens) /\ o \in Seq({0, 1}) /\ Masks(o, t)
  BY RepliesMask
<1>2. /\ ids' = [ids EXCEPT ![c] = ids[c] \o t] /\ mask' = [mask EXCEPT ![c] = mask[c] \o o]
      /\ spoken' = [spoken EXCEPT ![c] = spoken[c] \o t]
  BY DEF Reply, Append2
<1> HIDE DEF t, o
<1>3. ids[c] \in Seq(AllTokens) /\ mask[c] \in Seq({0, 1}) /\ Masks(mask[c], ids[c])
  BY DEF TalkInv, Types, Told
<1>4. spoken[c] = ids[c]
  BY <1>3, NothingYet DEF TalkInv, Told, InAnswer
<1>5. /\ ids[c] \o t \in Seq(AllTokens) /\ mask[c] \o o \in Seq({0, 1})
      /\ Masks(mask[c] \o o, ids[c] \o t)
  BY <1>1, <1>3, MaskAppend
<1>6. ids'[c] = ids[c] \o t /\ mask'[c] = mask[c] \o o /\ spoken'[c] = ids[c] \o t
  BY <1>2, <1>4 DEF TalkInv, Types
<1>7. spoken'[c] = ids'[c] \o <<>>
  BY <1>5, <1>6, NothingYet
<1> QED
  BY <1>2, <1>4, <1>5, <1>6, <1>7 DEF TalkInv, Types

LEMMA ReplyTalk ==
  ASSUME ConstantsOK, TalkInv, NEW c \in Convs, NEW n \in Nat,
         ToolsReply(c, n) \/ UserReplies(c, n)
  PROVE  TalkInv'
<1>1. /\ at[c] \in {"processing_tools", "interacting"} /\ at' = [at EXCEPT ![c] = "loop"]
      /\ UNCHANGED <<control, assistant_turns, server, request>>
  BY DEF ToolsReply, UserReplies
<1>2. \/ /\ UNCHANGED <<ids, mask, spoken, user_turns>>
         /\ state' = [state EXCEPT ![c] = "terminated"]
      \/ /\ Reply(c, n) /\ user_turns' = [user_turns EXCEPT ![c] = @ + 1]
         /\ \E x \in {"generating", "terminated"} : state' = [state EXCEPT ![c] = x]
  BY DEF ToolsReply, UserReplies
<1>3. /\ ids' \in [Convs -> Seq(AllTokens)] /\ mask' \in [Convs -> Seq({0, 1})]
      /\ spoken' \in [Convs -> Seq(AllTokens)]
      /\ Masks(mask'[c], ids'[c]) /\ spoken'[c] = ids'[c] \o <<>>
      /\ \A d \in Convs \ {c} : ids'[d] = ids[d] /\ mask'[d] = mask[d] /\ spoken'[d] = spoken[d]
  <2>1. CASE UNCHANGED <<ids, mask, spoken, user_turns>>
    BY <1>1, <2>1 DEF TalkInv, Types, Told, InAnswer
  <2>2. CASE Reply(c, n)
    BY <1>1, <2>2, TakeReply
  <2> QED
    BY <1>2, <2>1, <2>2
<1>4. Types'
  <2>1. at' \in [Convs -> {"held", "loop", "request", "server", "answer", "processing_tools",
                          "interacting", "done", "failed"}]
    BY <1>1 DEF TalkInv, Types, TypeOK
  <2>2. state' \in [Convs -> {"pending", "generating", "processing_tools", "interacting",
                             "terminated"}]
    BY <1>2 DEF TalkInv, Types, TypeOK
  <2>3. user_turns' \in [Convs -> Nat]
    <3>1. user_turns[c] + 1 \in Nat
      BY DEF TalkInv, Types
    <3>2. user_turns \in [Convs -> Nat]
      BY DEF TalkInv, Types
    <3>3. user_turns' = user_turns \/ user_turns' = [user_turns EXCEPT ![c] = user_turns[c] + 1]
      BY <1>2
    <3> QED
      BY <3>1, <3>2, <3>3
  <2> QED
    BY <1>1, <1>2, <1>3, <2>1, <2>2, <2>3, TypesKept DEF TalkInv, Types, request
<1>5. Told(c)'
  <2>1. /\ state[c] \in {"processing_tools", "interacting"} /\ c \notin SingleTurn
        /\ assistant_turns[c] = user_turns[c] + 1 /\ user_turns[c] \in Nat
    BY <1>1 DEF TalkInv, Types, Told
  <2>2. at'[c] = "loop" /\ InAnswer(c)' = <<>> /\ assistant_turns'[c] = assistant_turns[c]
    BY <1>1 DEF TalkInv, Types, TypeOK, InAnswer
  <2>3. \/ state'[c] = "terminated"
        \/ state'[c] = "generating" /\ user_turns'[c] = user_turns[c] + 1
    BY <1>2 DEF TalkInv, Types, TypeOK
  <2> QED
    BY <1>3, <2>1, <2>2, <2>3 DEF Told
<1>6. \A d \in Convs \ {c} :
        /\ at'[d] = at[d] /\ state'[d] = state[d]
        /\ assistant_turns'[d] = assistant_turns[d] /\ user_turns'[d] = user_turns[d]
  <2>1. \A d \in Convs \ {c} : at'[d] = at[d] /\ assistant_turns'[d] = assistant_turns[d]
    BY <1>1 DEF TalkInv, Types, TypeOK
  <2>2. \A d \in Convs \ {c} : state'[d] = state[d]
    BY <1>2 DEF TalkInv, Types, TypeOK
  <2>3. \A d \in Convs \ {c} : user_turns'[d] = user_turns[d]
    BY <1>2 DEF TalkInv, Types
  <2> QED
    BY <2>1, <2>2, <2>3
<1> QED
  BY <1>1, <1>2, <1>3, <1>4, <1>5, <1>6, OneConversation DEF request

LEMMA TalkNext == ASSUME ConstantsOK PROVE TalkInv /\ [Next]_vars => TalkInv'
<1> SUFFICES ASSUME TalkInv, [Next]_vars PROVE TalkInv'
  OBVIOUS
<1>1. CASE UNCHANGED vars
  <2>1. Types'
    BY <1>1 DEF TalkInv, Types, TypeOK, vars, control, agent, request
  <2> QED
    BY <1>1, <2>1, NoConversation DEF vars, request
<1>2. CASE Manager
  BY <1>2, ManagerTalk
<1>3. ASSUME NEW g \in Groups, Submit(g) PROVE TalkInv'
  BY <1>3, SubmitTalk
<1>4. ASSUME NEW c \in Convs, Progress(c) PROVE TalkInv'
  <2>1. 1 .. MaxReply \subseteq Nat
    OBVIOUS
  <2> QED
    BY <1>4, <2>1, ArriveTalk, AnsweredTalk, StepTalk, SingleTurnTalk, AnswerTalk, ReplyTalk DEF Progress
<1>5. ASSUME NEW c \in Convs, Engine(c) PROVE TalkInv'
  BY <1>5, EngineTalk
<1> QED
  BY <1>1, <1>2, <1>3, <1>4, <1>5 DEF Next

\* Unbroken: for any groups, servers, limits, replies and number of interruptions.
THEOREM ConversationsUnbroken == Spec => []Unbroken
<1> USE ConstantsOK
<1>1. TalkInv => Unbroken
  BY DEF TalkInv, Types, Told, Masks, Unbroken
<1> QED
  BY <1>1, TalkInit, TalkNext, PTL DEF Spec

-----------------------------------------------------------------------------
(* Interruption.  While the manager resumes the servers, only orphans of a   *)
(* failed sample can still be at an engine; a conversation that fails does   *)
(* not come back.                                                            *)

CancelInv ==
  /\ CancelMeant
  /\ \A c \in Convs : at[c] = "server" => cancel_event[c] # "none"
  /\ phase \in {"paused", "resuming"} => \A c \in Convs : Returned(c) \/ Orphan(c)

LEMMA CancelInit == ASSUME ConstantsOK PROVE Init => CancelInv
BY DEF Init, CancelInv, CancelMeant

\* The manager moves only the conversations' events.
LEMMA ManagerCancel ==
  ASSUME ConstantsOK, TalkInv, CancelInv, Manager
  PROVE  CancelInv'
<1>1. at' = at /\ server' = server
  BY DEF Manager, Pause, WorkerCancels, Cancelled, Gathered, ServerCancels, Resumes
<1>2. \A c \in Convs : Orphan(c)' = Orphan(c) /\ Returned(c)' = Returned(c)
  BY <1>1 DEF Orphan, Failed, Returned
<1>3. \A c \in Convs : server[c] \in Servers
  BY DEF TalkInv, Types
<1>4. CASE Pause \/ WorkerCancels \/ Cancelled \/ Gathered
  <2>1. cancel_event' = cancel_event
    BY <1>4 DEF Pause, WorkerCancels, Cancelled, Gathered, request
  <2>2. CASE Pause \/ Cancelled \/ Gathered
    <3>1. stopped' = stopped
      BY <2>2 DEF Pause, Cancelled, Gathered
    <3>2. phase' \in {"paused", "resuming"} => \A c \in Convs : Returned(c) \/ Orphan(c)
      BY <2>2 DEF Pause, Cancelled, Gathered
    <3> QED
      BY <1>1, <1>2, <2>1, <3>1, <3>2 DEF CancelInv, CancelMeant
  <2>3. CASE WorkerCancels
    <3>1. stopped' = stopped \cup {Worker} /\ phase' = phase /\ phase = "cancelling"
      BY <2>3 DEF WorkerCancels
    <3>2. \A c \in Convs : server[c] \in stopped' <=> server[c] \in stopped
      BY <3>1, <1>3 DEF ConstantsOK
    <3> QED
      BY <1>1, <1>2, <2>1, <3>1, <3>2 DEF CancelInv, CancelMeant
  <2> QED
    BY <1>4, <2>2, <2>3
<1>5. ASSUME NEW s \in Servers, ServerCancels(s) PROVE CancelInv'
  <2>1. /\ phase = "cancelling" /\ phase' = phase /\ stopped' = stopped \cup {s}
        /\ cancel_event' = [c \in Convs |-> IF server[c] = s /\ cancel_event[c] # "none"
                                            THEN "set" ELSE cancel_event[c]]
    BY <1>5 DEF ServerCancels
  <2> QED
    BY <1>1, <1>2, <2>1 DEF CancelInv, CancelMeant
<1>6. ASSUME NEW p \in Servers \cup {Worker}, Resumes(p) PROVE CancelInv'
  <2>1. phase \in {"paused", "resuming"} /\ stopped' = stopped \ {p} /\ cancel_event' = cancel_event
    BY <1>6 DEF Resumes, request
  <2>2. \A c \in Convs : Returned(c) \/ Orphan(c)
    BY <2>1 DEF CancelInv
  <2>3. \A c \in Convs : at[c] = "server" => Orphan(c)
    BY <2>2 DEF Returned
  <2> QED
    BY <1>1, <1>2, <2>1, <2>2, <2>3 DEF CancelInv, CancelMeant
<1> QED
  BY <1>4, <1>5, <1>6 DEF Manager

\* A step of one conversation that is not its arrival at a server.
LEMMA OneCancel ==
  ASSUME TalkInv, CancelInv, NEW c \in Convs, UNCHANGED <<phase, stopped, server>>,
         \A d \in Convs \ {c} : at'[d] = at[d] /\ cancel_event'[d] = cancel_event[d],
         ~Returned(c), at'[c] = "server" => at[c] = "server" /\ cancel_event'[c] = cancel_event[c]
  PROVE  CancelInv'
<1>1. at[c] # "failed"
  BY DEF Returned
<1>2. \A d \in Convs : at[d] = "failed" => at'[d] = "failed"
  BY <1>1
<1>3. \A d \in Convs : Orphan(d) => Orphan(d)'
  <2> SUFFICES ASSUME NEW d \in Convs, Orphan(d) PROVE Orphan(d)'
    OBVIOUS
  <2>1. PICK g \in Groups : d \in g /\ \E e \in g : at[e] = "failed"
    BY DEF Orphan, Failed
  <2>2. g \subseteq Convs
    BY <2>1, ConstantsOK DEF ConstantsOK
  <2> QED
    BY <1>2, <2>1, <2>2 DEF Orphan, Failed
<1>4. \A d \in Convs \ {c} : Returned(d) => Returned(d)'
  BY DEF Returned
<1>5. phase' \in {"paused", "resuming"} => \A d \in Convs : (Returned(d) \/ Orphan(d))'
  <2> SUFFICES ASSUME phase \in {"paused", "resuming"}, NEW d \in Convs
               PROVE  Returned(d)' \/ Orphan(d)'
    OBVIOUS
  <2>1. Returned(d) \/ Orphan(d)
    BY DEF CancelInv
  <2> QED
    BY <2>1, <1>3, <1>4
<1>6. CancelMeant'
  BY <1>3 DEF CancelInv, CancelMeant
<1>7. \A d \in Convs : at'[d] = "server" => cancel_event'[d] # "none"
  BY DEF CancelInv
<1> QED
  BY <1>5, <1>6, <1>7 DEF CancelInv

\* A request that arrives gets a new event, or the answer of a paused server.
LEMMA ArriveCancel ==
  ASSUME TalkInv, CancelInv, NEW c \in Convs, Arrive(c)
  PROVE  CancelInv'
<1>1. /\ at[c] = "request" /\ UNCHANGED <<phase, stopped, server>>
      /\ \/ at' = [at EXCEPT ![c] = "answer"] /\ UNCHANGED cancel_event
         \/ /\ server[c] \notin stopped /\ at' = [at EXCEPT ![c] = "server"]
            /\ cancel_event' = [cancel_event EXCEPT ![c] = "clear"]
  BY DEF Arrive, control
<1>2. \A d \in Convs \ {c} : at'[d] = at[d] /\ cancel_event'[d] = cancel_event[d]
  BY <1>1 DEF TalkInv, Types, TypeOK
<1>3. ~Returned(c)
  BY <1>1 DEF Returned
<1>4. CASE at' = [at EXCEPT ![c] = "answer"]
  <2>1. at'[c] = "answer"
    BY <1>4 DEF TalkInv, Types, TypeOK
  <2> QED
    BY <1>1, <1>2, <1>3, <2>1, OneCancel
<1>5. CASE server[c] \notin stopped /\ at' = [at EXCEPT ![c] = "server"]
           /\ cancel_event' = [cancel_event EXCEPT ![c] = "clear"]
  <2>1. at'[c] = "server" /\ cancel_event'[c] = "clear"
    BY <1>5 DEF TalkInv, Types, TypeOK
  <2>2. \A d \in Convs : at[d] = "failed" => at'[d] = "failed"
    BY <1>1, <1>2
  <2>3. \A d \in Convs : Orphan(d) => Orphan(d)'
    <3> SUFFICES ASSUME NEW d \in Convs, Orphan(d) PROVE Orphan(d)'
      OBVIOUS
    <3>1. PICK g \in Groups : d \in g /\ \E e \in g : at[e] = "failed"
      BY DEF Orphan, Failed
    <3>2. g \subseteq Convs
      BY <3>1, ConstantsOK DEF ConstantsOK
    <3> QED
      BY <2>2, <3>1, <3>2 DEF Orphan, Failed
  <2>4. \A d \in Convs : Returned(d) => Returned(d)'
    BY <1>2, <1>3 DEF Returned
  <2>5. phase' \in {"paused", "resuming"} => \A d \in Convs : (Returned(d) \/ Orphan(d))'
    <3> SUFFICES ASSUME phase \in {"paused", "resuming"}, NEW d \in Convs
                 PROVE  Returned(d)' \/ Orphan(d)'
      BY <1>1
    <3>1. Returned(d) \/ Orphan(d)
      BY DEF CancelInv
    <3> QED
      BY <3>1, <2>3, <2>4
  <2>6. CancelMeant'
    BY <1>1, <1>2, <1>5, <2>1, <2>3 DEF CancelInv, CancelMeant
  <2>7. \A d \in Convs : at'[d] = "server" => cancel_event'[d] # "none"
    BY <1>2, <2>1 DEF CancelInv
  <2> QED
    BY <2>5, <2>6, <2>7 DEF CancelInv
<1> QED
  BY <1>1, <1>4, <1>5

LEMMA SubmitCancel ==
  ASSUME ConstantsOK, TalkInv, CancelInv, NEW g \in Groups, Submit(g)
  PROVE  CancelInv'
<1>1. /\ phase = "running" /\ phase' = phase /\ stopped' = stopped /\ cancel_event' = cancel_event
      /\ \A c \in g : Returned(c)
      /\ at' = [c \in Convs |-> IF c \in g /\ at[c] = "held" THEN "loop" ELSE at[c]]
      /\ \A c \in Convs \ g : server'[c] = server[c]
  BY DEF Submit, control, request
<1>2. \A c \in Convs : at'[c] = "server" => at[c] = "server" /\ server'[c] = server[c]
  BY <1>1 DEF Returned
<1>3. \A c \in Convs : at[c] = "failed" => at'[c] = "failed"
  BY <1>1
<1>4. \A c \in Convs : Orphan(c) => Orphan(c)'
  <2> SUFFICES ASSUME NEW d \in Convs, Orphan(d) PROVE Orphan(d)'
    OBVIOUS
  <2>1. PICK h \in Groups : d \in h /\ \E e \in h : at[e] = "failed"
    BY DEF Orphan, Failed
  <2>2. h \subseteq Convs
    BY <2>1 DEF ConstantsOK
  <2> QED
    BY <1>3, <2>1, <2>2 DEF Orphan, Failed
<1> QED
  BY <1>1, <1>2, <1>4 DEF CancelInv, CancelMeant

LEMMA ProgressCancel ==
  ASSUME ConstantsOK, TalkInv, CancelInv, NEW c \in Convs, Progress(c) \/ Engine(c), ~Arrive(c)
  PROVE  CancelInv'
<1>1. UNCHANGED <<phase, stopped, server>>
  BY DEF Progress, Engine, Answered, Step, Complete, SingleTurnAnswer, InterruptedAnswer,
         FinalAnswer, ToolsReply, UserReplies, EngineEnds, EngineRaises, Emit, control
<1>2. at[c] \in {"loop", "server", "answer", "processing_tools", "interacting"}
  BY DEF Progress, Engine, Answered, Step, Complete, SingleTurnAnswer, InterruptedAnswer,
         FinalAnswer, ToolsReply, UserReplies, EngineEnds, EngineRaises, Emit
<1>3. ~Returned(c)
  BY <1>2 DEF Returned
<1>4. /\ \/ at' = at /\ cancel_event' = cancel_event
         \/ \E x \in {"held", "loop", "request", "answer", "processing_tools", "interacting",
                     "done", "failed"} : at' = [at EXCEPT ![c] = x]
      /\ \/ cancel_event' = cancel_event
         \/ \E y \in {"none", cancel_event[c]} : cancel_event' = [cancel_event EXCEPT ![c] = y]
  <2>1. CASE Answered(c)
    BY <2>1 DEF Answered
  <2>2. CASE Step(c)
    <3>1. state[c] \in {"pending", "generating", "processing_tools", "interacting", "terminated"}
      BY DEF TalkInv, Types, TypeOK
    <3> QED
      BY <2>2, <3>1 DEF Step, request
  <2>3. CASE Complete(c)
    BY <2>3 DEF Complete, request
  <2>4. CASE SingleTurnAnswer(c)
    BY <2>4 DEF SingleTurnAnswer, request
  <2>5. CASE InterruptedAnswer(c) \/ FinalAnswer(c)
    BY <2>5 DEF InterruptedAnswer, FinalAnswer, request
  <2>6. CASE \E n \in 1 .. MaxReply : ToolsReply(c, n) \/ UserReplies(c, n)
    BY <2>6 DEF ToolsReply, UserReplies, request
  <2>7. CASE Engine(c)
    BY <2>7 DEF Engine, EngineEnds, EngineRaises, Emit, request
  <2> QED
    BY <2>1, <2>2, <2>3, <2>4, <2>5, <2>6, <2>7 DEF Progress
<1>5. \A d \in Convs \ {c} : at'[d] = at[d] /\ cancel_event'[d] = cancel_event[d]
  BY <1>4 DEF TalkInv, Types, TypeOK
<1>6. at'[c] = "server" => at[c] = "server" /\ cancel_event'[c] = cancel_event[c]
  BY <1>4 DEF TalkInv, Types, TypeOK
<1> QED
  BY <1>1, <1>3, <1>5, <1>6, OneCancel

LEMMA CancelNext == ASSUME ConstantsOK PROVE TalkInv /\ CancelInv /\ [Next]_vars => CancelInv'
<1> SUFFICES ASSUME TalkInv, CancelInv, [Next]_vars PROVE CancelInv'
  OBVIOUS
<1>1. CASE UNCHANGED vars
  BY <1>1 DEF CancelInv, CancelMeant, Returned, Orphan, Failed, vars, control, request
<1>2. CASE Manager
  BY <1>2, ManagerCancel
<1>3. ASSUME NEW g \in Groups, Submit(g) PROVE CancelInv'
  BY <1>3, SubmitCancel
<1>4. ASSUME NEW c \in Convs, Progress(c) \/ Engine(c) PROVE CancelInv'
  BY <1>4, ArriveCancel, ProgressCancel
<1> QED
  BY <1>1, <1>2, <1>3, <1>4 DEF Next

\* CancelMeant: for any number of conversations, servers and interruptions.
THEOREM CancelAlwaysMeant == Spec => []CancelMeant
<1> USE ConstantsOK
<1>1. CancelInv => CancelMeant
  BY DEF CancelInv
<1> QED
  BY <1>1, TalkInit, TalkNext, CancelInit, CancelNext, PTL DEF Spec
=============================================================================
