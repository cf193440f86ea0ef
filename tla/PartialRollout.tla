--------------------------- MODULE PartialRollout ---------------------------
(***************************************************************************)
(* Generation that can be interrupted and resumed: the inference servers   *)
(* (vLLMHttpServerForPartial), the agent loops of one worker (single turn, *)
(* and AsyncPartialToolAgentLoop over ToolAgentLoop), and the manager that *)
(* cancels and resumes both.  To Rollouter all of this is one call that is *)
(* answered in full, or with what there was when the servers were told to  *)
(* stop.  The engine behind a server emits tokens as it likes.             *)
(***************************************************************************)
EXTENDS Integers, Sequences, SequencesExt

CONSTANTS
  Convs,                \* conversations, one request at a time each
  SingleTurn,           \* those of the single-turn agent; the others use tools
  Groups,               \* the conversations of one sample each
  Servers,
  response_length,
  max_model_len,        \* tokens a request may reach, the first prompt not counted
  max_assistant_turns,  \* 0 for no limit, like max_user_turns
  max_user_turns,
  HasInteraction,       \* an interaction_config_file is given
  MaxReply,             \* bound: tokens of a tool's or a user's reply
  MaxPauses             \* bound: interruptions

Worker == "worker"

ASSUME ConstantsOK ==
  /\ SingleTurn \subseteq Convs /\ Servers # {} /\ Worker \notin Servers
  /\ Groups \subseteq SUBSET Convs /\ \A c \in Convs : \E g \in Groups : c \in g
  /\ response_length \in Nat \ {0} /\ max_model_len \in Nat /\ max_model_len >= response_length
  /\ max_assistant_turns \in Nat /\ max_user_turns \in Nat
  /\ HasInteraction \in BOOLEAN /\ MaxReply \in Nat \ {0} /\ MaxPauses \in Nat

VARIABLES
  phase,      \* of the Rollouter: running, cancelling, waiting, paused, resuming
  pauses,     \* interruptions so far
  stopped,    \* servers that are paused; the worker when cancellation_event is set
  at,         \* what each conversation's task waits for
  state,      \* AgentState
  ids,        \* prompt_ids behind the first prompt; response_ids of a single turn
  mask,       \* response_mask
  assistant_turns, user_turns,
  server,     \* where the worker sends the conversation's requests
  cancel_event, \* a server's entry for the request: none, clear or set
  output,     \* req_output: tokens so far, and whether the engine is done
  answer,     \* the answer on its way: tokens, is_cancel
  spoken      \* history: everything engines answered and tools or users replied

agent == <<state, ids, mask, assistant_turns, user_turns>>
request == <<cancel_event, output, answer>>
control == <<phase, pauses, stopped>>
vars == <<control, at, agent, server, request, spoken>>

Tokens == {"text", "call"}  \* "call" is a tool call, complete
Replies(n) == [i \in 1 .. n |-> "reply"]
Ones(s) == [i \in DOMAIN s |-> 1]
HasCall(s) == "call" \in Range(s)
Returned(c) == at[c] \in {"held", "done", "failed"}

\* One exception ends the sample's task; gather lets its other conversations run.
Failed(g) == \E c \in g : at[c] = "failed"
Orphan(c) == \E g \in Groups : c \in g /\ Failed(g)

Init ==
  /\ phase = "running" /\ pauses = 0 /\ stopped = {}
  /\ at = [c \in Convs |-> "held"] /\ state = [c \in Convs |-> "pending"]
  /\ ids = [c \in Convs |-> <<>>] /\ mask = ids /\ spoken = ids
  /\ assistant_turns = [c \in Convs |-> 0] /\ user_turns = assistant_turns
  /\ server = [c \in Convs |-> CHOOSE s \in Servers : TRUE]
  /\ cancel_event = [c \in Convs |-> "none"]
  /\ output = [c \in Convs |-> [tokens |-> <<>>, over |-> FALSE]]
  /\ answer = [c \in Convs |-> [tokens |-> <<>>, is_cancel |-> FALSE]]

-----------------------------------------------------------------------------
(* The manager: cancel and resume reach the servers and the worker in any  *)
(* order.  The Rollouter waits for all tasks between them.                 *)

Pause == /\ phase = "running" /\ pauses < MaxPauses
         /\ phase' = "cancelling" /\ pauses' = pauses + 1
         /\ UNCHANGED <<stopped, at, agent, server, request, spoken>>

\* Slip: the requests a server holds are not told.
ServerCancelsNoRequest(s) ==
  /\ phase = "cancelling" /\ s \notin stopped
  /\ stopped' = stopped \cup {s}
  /\ UNCHANGED <<phase, pauses, at, agent, server, request, spoken>>

ServerCancels(s) ==
  /\ phase = "cancelling" /\ s \notin stopped
  /\ stopped' = stopped \cup {s}
  /\ cancel_event' = [c \in Convs |-> IF server[c] = s /\ cancel_event[c] # "none"
                                      THEN "set" ELSE cancel_event[c]]
  /\ UNCHANGED <<phase, pauses, at, agent, server, output, answer, spoken>>

WorkerCancels == /\ phase = "cancelling" /\ Worker \notin stopped
                 /\ stopped' = stopped \cup {Worker}
                 /\ UNCHANGED <<phase, pauses, at, agent, server, request, spoken>>

Cancelled == /\ phase = "cancelling" /\ stopped = Servers \cup {Worker}
             /\ phase' = "waiting"
             /\ UNCHANGED <<pauses, stopped, at, agent, server, request, spoken>>

Gathered == /\ phase = "waiting" /\ \A c \in Convs : Returned(c) \/ Orphan(c)
            /\ phase' = "paused"
            /\ UNCHANGED <<pauses, stopped, at, agent, server, request, spoken>>

Resumes(p) == /\ phase \in {"paused", "resuming"} /\ p \in stopped
              /\ stopped' = stopped \ {p}
              /\ phase' = IF stopped' = {} THEN "running" ELSE "resuming"
              /\ UNCHANGED <<pauses, at, agent, server, request, spoken>>

Manager == \/ Pause \/ WorkerCancels \/ Cancelled \/ Gathered
           \/ \E s \in Servers : ServerCancels(s)
           \/ \E p \in Servers \cup {Worker} : Resumes(p)

-----------------------------------------------------------------------------
(* The server: generate_for_partial and the engine.                        *)

\* Slip: an entry that is there is used again.
ArriveReuses(c) ==
  /\ at[c] = "request"
  /\ IF server[c] \in stopped
     THEN /\ at' = [at EXCEPT ![c] = "answer"]
          /\ answer' = [answer EXCEPT ![c] = [tokens |-> <<>>, is_cancel |-> TRUE]]
          /\ UNCHANGED <<cancel_event, output>>
     ELSE /\ at' = [at EXCEPT ![c] = "server"]
          /\ cancel_event' = [cancel_event EXCEPT ![c] = IF @ = "none" THEN "clear" ELSE @]
          /\ output' = [output EXCEPT ![c] = [tokens |-> <<>>, over |-> FALSE]]
          /\ UNCHANGED answer
  /\ UNCHANGED <<control, agent, server, spoken>>

Arrive(c) ==
  /\ at[c] = "request"
  /\ IF server[c] \in stopped
     THEN /\ at' = [at EXCEPT ![c] = "answer"]
          /\ answer' = [answer EXCEPT ![c] = [tokens |-> <<>>, is_cancel |-> TRUE]]
          /\ UNCHANGED <<cancel_event, output>>
     ELSE /\ at' = [at EXCEPT ![c] = "server"]
          /\ cancel_event' = [cancel_event EXCEPT ![c] = "clear"]
          /\ output' = [output EXCEPT ![c] = [tokens |-> <<>>, over |-> FALSE]]
          /\ UNCHANGED answer
  /\ UNCHANGED <<control, agent, server, spoken>>

Emit(c, t) ==
  /\ at[c] = "server" /\ ~output[c].over
  /\ Len(ids[c]) + Len(output[c].tokens) < max_model_len
  /\ output' = [output EXCEPT ![c].tokens = Append(@, t)]
  /\ UNCHANGED <<control, at, agent, server, cancel_event, answer, spoken>>

EngineEnds(c) == /\ at[c] = "server" /\ ~output[c].over /\ output[c].tokens # <<>>
                 /\ output' = [output EXCEPT ![c].over = TRUE]
                 /\ UNCHANGED <<control, at, agent, server, cancel_event, answer, spoken>>

\* The entries stay, and the exception ends the sample's task.
EngineRaises(c) == /\ at[c] = "server" /\ ~output[c].over
                   /\ at' = [at EXCEPT ![c] = "failed"]
                   /\ UNCHANGED <<control, agent, server, request, spoken>>

\* The wait for the first of generation and cancellation is over.  An answer without
\* tokens leaves the entries behind.
Answered(c) ==
  LET tokens == output[c].tokens IN
  /\ at[c] = "server" /\ (cancel_event[c] = "set" \/ output[c].over)
  /\ at' = [at EXCEPT ![c] = "answer"]
  /\ answer' = [answer EXCEPT ![c] = [tokens |-> tokens, is_cancel |-> ~output[c].over]]
  /\ cancel_event' = [cancel_event EXCEPT ![c] = IF tokens = <<>> THEN @ ELSE "none"]
  /\ output' = [output EXCEPT ![c] = [tokens |-> <<>>, over |-> FALSE]]
  /\ spoken' = [spoken EXCEPT ![c] = @ \o tokens]
  /\ UNCHANGED <<control, agent, server>>

-----------------------------------------------------------------------------
(* The agent loops.                                                        *)

\* A sample that has not failed and has conversations left comes to a worker, after an
\* interruption perhaps to another one, and so may each request to another server.
Submit(g) == /\ phase = "running" /\ ~Failed(g)
             /\ \A c \in g : Returned(c)
             /\ \E c \in g : at[c] = "held"
             /\ at' = [c \in Convs |-> IF c \in g /\ at[c] = "held" THEN "loop" ELSE at[c]]
             /\ \E s \in [g -> Servers] :
                  server' = [c \in Convs |-> IF c \in g THEN s[c] ELSE server[c]]
             /\ UNCHANGED <<control, agent, request, spoken>>

\* The top of _run_state_machine; a single turn goes on to its only request.
Step(c) ==
  /\ at[c] = "loop" /\ state[c] # "terminated"
  /\ IF c \in SingleTurn
     THEN at' = [at EXCEPT ![c] = "request"] /\ UNCHANGED state
     ELSE IF Worker \in stopped
     THEN at' = [at EXCEPT ![c] = "held"] /\ UNCHANGED state
     ELSE /\ state' = [state EXCEPT ![c] = IF @ = "pending" THEN "generating" ELSE @]
          /\ at' = [at EXCEPT ![c] = CASE state[c] = "pending" -> "loop"
                                       [] state[c] = "generating" -> "request"
                                       [] OTHER -> state[c]]
  /\ UNCHANGED <<control, ids, mask, assistant_turns, user_turns, server, request,
                 spoken>>

\* Completed: the output is cut to response_length.
Complete(c) == /\ at[c] = "loop" /\ state[c] = "terminated"
               /\ at' = [at EXCEPT ![c] = "done"]
               /\ UNCHANGED <<control, agent, server, request, spoken>>

Append2(c, tokens, ones) == /\ ids' = [ids EXCEPT ![c] = @ \o tokens]
                            /\ mask' = [mask EXCEPT ![c] = @ \o ones]

\* The output is cut to response_length, which makes it complete.
SingleTurnAnswer(c) ==
  /\ c \in SingleTurn /\ at[c] = "answer"
  /\ Append2(c, answer[c].tokens, Ones(answer[c].tokens))
  /\ at' = [at EXCEPT ![c] = IF answer[c].is_cancel /\ Len(ids'[c]) < response_length
                             THEN "held" ELSE "done"]
  /\ UNCHANGED <<control, state, assistant_turns, user_turns, server, request, spoken>>

\* Slips: an interruption counts as a turn; what came before one is dropped.
InterruptedCounts(c) ==
  /\ c \notin SingleTurn /\ at[c] = "answer" /\ answer[c].is_cancel
  /\ Append2(c, answer[c].tokens, Ones(answer[c].tokens))
  /\ assistant_turns' = [assistant_turns EXCEPT ![c] = @ + 1]
  /\ state' = [state EXCEPT ![c] = IF Len(mask'[c]) >= response_length
                                   THEN "terminated" ELSE "generating"]
  /\ at' = [at EXCEPT ![c] = "loop"]
  /\ UNCHANGED <<control, user_turns, server, request, spoken>>
InterruptedDrops(c) ==
  /\ c \notin SingleTurn /\ at[c] = "answer" /\ answer[c].is_cancel
  /\ at' = [at EXCEPT ![c] = "loop"]
  /\ UNCHANGED <<control, ids, mask, state, assistant_turns, user_turns, server, request,
                 spoken>>

\* _handle_generating_state_partial: the answer was interrupted ...
InterruptedAnswer(c) ==
  /\ c \notin SingleTurn /\ at[c] = "answer" /\ answer[c].is_cancel
  /\ Append2(c, answer[c].tokens, Ones(answer[c].tokens))
  /\ IF Len(mask'[c]) >= response_length
     THEN /\ assistant_turns' = [assistant_turns EXCEPT ![c] = @ + 1]
          /\ state' = [state EXCEPT ![c] = "terminated"]
     ELSE UNCHANGED <<assistant_turns, state>>
  /\ at' = [at EXCEPT ![c] = "loop"]
  /\ UNCHANGED <<control, user_turns, server, request, spoken>>

Exceeds(turns, limit) == limit > 0 /\ turns >= limit

\* ... or is the end of the turn.  Tool calls are looked for in this answer's tokens.
FinalAnswer(c) ==
  /\ c \notin SingleTurn /\ at[c] = "answer" /\ ~answer[c].is_cancel
  /\ assistant_turns' = [assistant_turns EXCEPT ![c] = @ + 1]
  /\ Append2(c, answer[c].tokens, Ones(answer[c].tokens))
  /\ state' = [state EXCEPT ![c] =
                 CASE \/ Len(mask'[c]) >= response_length
                      \/ Exceeds(assistant_turns'[c], max_assistant_turns)
                      \/ Exceeds(user_turns[c], max_user_turns) -> "terminated"
                   [] HasCall(answer[c].tokens) -> "processing_tools"
                   [] HasInteraction -> "interacting"
                   [] OTHER -> "terminated"]
  /\ at' = [at EXCEPT ![c] = "loop"]
  /\ UNCHANGED <<control, user_turns, server, request, spoken>>

Reply(c, n) == /\ Append2(c, Replies(n), [i \in 1 .. n |-> 0])
               /\ spoken' = [spoken EXCEPT ![c] = @ \o Replies(n)]

\* _handle_processing_tools_state: a reply that does not fit ends the conversation.
ToolsReply(c, n) ==
  /\ at[c] = "processing_tools"
  /\ at' = [at EXCEPT ![c] = "loop"]
  /\ IF Len(mask[c]) + n >= response_length
     THEN /\ state' = [state EXCEPT ![c] = "terminated"]
          /\ UNCHANGED <<ids, mask, spoken, user_turns>>
     ELSE /\ state' = [state EXCEPT ![c] = "generating"]
          /\ Reply(c, n)
          /\ user_turns' = [user_turns EXCEPT ![c] = @ + 1]
  /\ UNCHANGED <<control, assistant_turns, server, request>>

\* _handle_interacting_state
UserReplies(c, n) ==
  /\ at[c] = "interacting"
  /\ at' = [at EXCEPT ![c] = "loop"]
  /\ Reply(c, n)
  /\ user_turns' = [user_turns EXCEPT ![c] = @ + 1]
  /\ \E next \in {"generating", "terminated"} : state' = [state EXCEPT ![c] = next]
  /\ UNCHANGED <<control, assistant_turns, server, request>>

\* What goes on by itself, whatever the engine does.
Progress(c) == \/ Arrive(c) \/ Answered(c) \/ Step(c) \/ Complete(c)
               \/ SingleTurnAnswer(c) \/ InterruptedAnswer(c) \/ FinalAnswer(c)
               \/ \E n \in 1 .. MaxReply : ToolsReply(c, n) \/ UserReplies(c, n)

Engine(c) == EngineEnds(c) \/ EngineRaises(c) \/ \E t \in Tokens : Emit(c, t)

Next == \/ Manager \/ \E g \in Groups : Submit(g)
        \/ \E c \in Convs : Progress(c) \/ Engine(c)

Spec == /\ Init /\ [][Next]_vars
        /\ \A c \in Convs : WF_vars(Progress(c))
        /\ \A s \in Servers : WF_vars(ServerCancels(s))
        /\ WF_vars(WorkerCancels) /\ WF_vars(Cancelled) /\ WF_vars(Gathered)

-----------------------------------------------------------------------------
TypeOK ==
  /\ phase \in {"running", "cancelling", "waiting", "paused", "resuming"}
  /\ pauses \in 0 .. MaxPauses /\ stopped \subseteq Servers \cup {Worker}
  /\ state \in [Convs -> {"pending", "generating", "processing_tools", "interacting",
                          "terminated"}]
  /\ at \in [Convs -> {"held", "loop", "request", "server", "answer", "processing_tools",
                       "interacting", "done", "failed"}]
  /\ \A c \in Convs : /\ ids[c] \in Seq(Tokens \cup {"reply"}) /\ mask[c] \in Seq({0, 1})

InAnswer(c) == IF at[c] = "answer" THEN answer[c].tokens ELSE <<>>

\* However often it is interrupted and wherever it is resumed, a conversation is what the
\* engines answered and tools and users replied, in order, once; the mask tells the model's
\* tokens from replies; and an interrupted turn counts as one turn.
Unbroken ==
  /\ TypeOK
  /\ \A c \in Convs :
       /\ spoken[c] = ids[c] \o InAnswer(c)
       /\ DOMAIN mask[c] = DOMAIN ids[c]
       /\ \A i \in DOMAIN ids[c] : mask[c][i] = 0 <=> ids[c][i] = "reply"
       /\ state[c] = "generating" => assistant_turns[c] = user_turns[c]

\* A server has told each request that is at its engine to stop exactly if it is paused
\* itself: none slips in while weights are exchanged, and an event that a former request of
\* the same id left behind interrupts nothing.
CancelMeant == \A c \in Convs :
  at[c] = "server" =>
    /\ server[c] \in stopped => cancel_event[c] = "set"
    /\ cancel_event[c] = "set" => server[c] \in stopped \/ Orphan(c)

\* A pause takes hold: all tasks return, even if no engine ever ends by itself.
CancelReturns == phase = "cancelling" ~> phase = "paused"

\* The model's tokens since the last reply.
Turn(c) == LET last == SelectLastInSeq(ids[c], LAMBDA t : t = "reply")
           IN  SubSeq(ids[c], last + 1, Len(ids[c]))

\* partial_tool_agent_loop.py:34 "Support for partial rollout with multiple tool
\* invocations in Agent Loop"; README.md:527 of fully_async_policy "Resuming execution from
\* the saved state after parameter synchronization is complete, rather than starting over":
\* a finished turn with room and turns left does not end the conversation if it calls a tool.
CallsServed == \A c \in Convs \ SingleTurn :
  /\ at[c] = "loop" /\ state[c] = "terminated" /\ Len(mask[c]) < response_length
  /\ ~Exceeds(assistant_turns[c], max_assistant_turns)
  /\ ~Exceeds(user_turns[c], max_user_turns)
  /\ user_turns[c] < assistant_turns[c]
  => ~HasCall(Turn(c)) \/ Len(mask[c]) + MaxReply >= response_length
=============================================================================
