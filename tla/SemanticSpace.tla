--------------------------- MODULE SemanticSpace ---------------------------
(***************************************************************************)
(* Step 3 of the SHAPE pipeline on one file: process_chunk_file of         *)
(* label_semantic_space.py (the file-level retry loop) around              *)
(* process_semantic_space_chunks and SemanticSpaceMemory of                *)
(* utils/method/utils.py, and the reader of the result in                  *)
(* shape_metrics.py.  The labelling model is external: any reply may come. *)
(***************************************************************************)
EXTENDS Integers, Sequences, FiniteSets

CONSTANTS
  TagSets,        \* the sets of ontology tags a Content Unit may carry
  MaxChunks,      \* bound: Content Units in a file
  MaxApiRetries,  \* max_retries of one chunk (3 in the code)
  MaxFileRetries  \* max_retry of the file (10 in the code)

\* A tag is <<letter, number, suffix>>: H13b is <<"H", 13, "b">>.
Tag == {"H", "N", "E"} \X Nat \X {"", "a", "b", "c", "d", "e", "f"}

ASSUME ConstantsOK ==
  /\ TagSets \subseteq SUBSET Tag
  /\ MaxChunks \in Nat
  /\ MaxApiRetries \in Nat \ {0}
  /\ MaxFileRetries \in Nat \ {0}

VARIABLES
  tags,             \* the input file: the tags of each Content Unit
  readable,         \* FALSE when the input file is not valid JSON
  without_llm,      \* the --without_llm flag
  pc,               \* "load", "chunk", "ask", "write", "done" or "gaveup"
  file_retries,     \* retry_count of process_chunk_file
  api_retries,      \* retry_count of the chunk being asked about
  idx,              \* the chunk at hand; past the end when all are done
  spaces,           \* memory.spaces: id -> kind of its stored definition
  current_space_id,
  next_id,
  has_seen_any_heuristic,
  last_was_h1_h4,
  records,          \* chunk["semantic_space"] of every chunk, or NoRecord
  output,           \* the output file: "absent", "torn" or "whole"
  saved             \* the records in the output file when it is whole

memory == <<spaces, current_space_id, next_id>>
flags == <<has_seen_any_heuristic, last_was_h1_h4>>
file == <<output, saved>>
input == <<tags, readable, without_llm>>
vars == <<input, pc, file_retries, api_retries, idx, memory, flags, records, file>>

N == Len(tags)

\* The input files: lists of at most MaxChunks units.
Files == UNION {[1 .. n -> TagSets] : n \in 0 .. MaxChunks}

-----------------------------------------------------------------------------
\* Tags.
Base(t) == <<t[1], t[2]>>
TriggerHeuristics == {"H"} \X {1, 2, 3, 5, 8, 11}
WithoutLLMTriggers == {"H"} \X {1, 2}
ActiveTriggers == IF without_llm THEN WithoutLLMTriggers ELSE TriggerHeuristics

HasHTag(i) == \E t \in tags[i] : t[1] = "H"
TriggersFound(i) == \E t \in tags[i] : Base(t) \in ActiveTriggers
FirstHeuristic(i) == HasHTag(i) /\ ~has_seen_any_heuristic
Triggered(i) == TriggersFound(i) \/ FirstHeuristic(i)

-----------------------------------------------------------------------------
\* Replies and records.  The kind of a definition is what the program can tell
\* apart: none (missing, null, {} or ""), an object, or some other truthy value.
Kinds == {"none", "object", "other"}
Decisions == {"NEW", "RETURN", "MAINTAIN", "UNKNOWN"}

\* NoId stands for a missing, null or non-numeric target_space_id, and for any
\* number that is no id: all of them leave the memory where it is.
NoId == -1
Replies == [decision : Decisions, target : {NoId} \cup 0 .. MaxChunks, def : Kinds]

Records == [decision : Decisions, active : 0 .. MaxChunks, def : Kinds]
NoRecord == [decision |-> "NONE", active |-> 0, def |-> "none"]

\* Slips kept for the mutation runs: a RETURN that trusts its target, and a NEW
\* that numbers the space after the current one.
TransitionTrusting(reply) ==
  \/ /\ reply.decision = "NEW" /\ reply.def # "none"
     /\ spaces' = [id \in DOMAIN spaces \cup {next_id} |->
                     IF id = next_id THEN reply.def ELSE spaces[id]]
     /\ current_space_id' = next_id
     /\ next_id' = next_id + 1
  \/ /\ reply.decision = "RETURN" /\ reply.target # NoId
     /\ current_space_id' = reply.target
     /\ UNCHANGED <<spaces, next_id>>
  \/ /\ ~(reply.decision = "NEW" /\ reply.def # "none")
     /\ ~(reply.decision = "RETURN" /\ reply.target # NoId)
     /\ UNCHANGED memory

TransitionRenumbering(reply) ==
  IF reply.decision = "NEW" /\ reply.def # "none"
  THEN LET new == current_space_id + 1 IN
       /\ spaces' = [id \in DOMAIN spaces \cup {new} |->
                       IF id = new THEN reply.def ELSE spaces[id]]
       /\ current_space_id' = new
       /\ next_id' = new + 1
  ELSE /\ current_space_id' = IF reply.decision = "RETURN" /\ reply.target \in DOMAIN spaces
                              THEN reply.target ELSE current_space_id
       /\ UNCHANGED <<spaces, next_id>>

\* SemanticSpaceMemory.transition
Transition(reply) ==
  \/ /\ reply.decision = "NEW" /\ reply.def # "none"
     /\ spaces' = [id \in DOMAIN spaces \cup {next_id} |->
                     IF id = next_id THEN reply.def ELSE spaces[id]]
     /\ current_space_id' = next_id
     /\ next_id' = next_id + 1
  \/ /\ reply.decision = "RETURN" /\ reply.target \in DOMAIN spaces
     /\ current_space_id' = reply.target
     /\ UNCHANGED <<spaces, next_id>>
  \/ /\ ~(reply.decision = "NEW" /\ reply.def # "none")
     /\ ~(reply.decision = "RETURN" /\ reply.target \in DOMAIN spaces)
     /\ UNCHANGED memory

\* The chunk gets its record and the loop goes on.
Label(reply) ==
  /\ Transition(reply)
  /\ records' = [records EXCEPT ![idx] =
       [decision |-> reply.decision,
        active |-> current_space_id',
        def |-> IF reply.decision = "NEW" THEN reply.def ELSE "none"]]
  /\ idx' = idx + 1

-----------------------------------------------------------------------------
EmptyMemory == /\ spaces = [id \in {0} |-> "object"]
               /\ current_space_id = 0
               /\ next_id = 1

Init == /\ tags \in Files
        /\ readable \in BOOLEAN
        /\ without_llm \in BOOLEAN
        /\ pc = "load"
        /\ file_retries = 0
        /\ api_retries = 0
        /\ idx = 1
        /\ EmptyMemory
        /\ has_seen_any_heuristic = FALSE
        /\ last_was_h1_h4 = FALSE
        /\ records = [i \in 1 .. N |-> NoRecord]
        /\ output = "absent"
        /\ saved = <<>>

\* Slips: the file is read once, before the loop; the flag outlives the attempt.
LoadOnce == /\ pc = "load" /\ readable
            /\ pc' = "chunk"
            /\ api_retries' = 0
            /\ idx' = 1
            /\ spaces' = [id \in {0} |-> "object"]
            /\ current_space_id' = 0
            /\ next_id' = 1
            /\ has_seen_any_heuristic' = FALSE
            /\ last_was_h1_h4' = FALSE
            /\ UNCHANGED <<input, file_retries, records, file>>

LoadKeepsFlag == /\ pc = "load" /\ readable
                 /\ pc' = "chunk"
                 /\ api_retries' = 0
                 /\ idx' = 1
                 /\ spaces' = [id \in {0} |-> "object"]
                 /\ current_space_id' = 0
                 /\ next_id' = 1
                 /\ records' = [i \in 1 .. N |-> NoRecord]
                 /\ UNCHANGED <<input, file_retries, flags, file>>

\* An attempt reads the file again and starts with an empty memory.
Load == /\ pc = "load" /\ readable
        /\ pc' = "chunk"
        /\ api_retries' = 0
        /\ idx' = 1
        /\ spaces' = [id \in {0} |-> "object"]
        /\ current_space_id' = 0
        /\ next_id' = 1
        /\ has_seen_any_heuristic' = FALSE
        /\ last_was_h1_h4' = FALSE
        /\ records' = [i \in 1 .. N |-> NoRecord]
        /\ UNCHANGED <<input, file_retries, file>>

\* Slip: `continue` before the count.
AttemptFailsUncounted == /\ file_retries' = file_retries
                         /\ pc' = "load"

\* Any exception ends the attempt; after max_retry of them the loop just ends.
AttemptFails == /\ file_retries' = file_retries + 1
                /\ pc' = IF file_retries + 1 < MaxFileRetries THEN "load" ELSE "gaveup"

LoadFails == /\ pc = "load" /\ ~readable
             /\ AttemptFails
             /\ UNCHANGED <<input, api_retries, idx, memory, flags, records, file>>

\* Slip: the run of triggers is not interrupted by a chunk without one.
SkipChunkKeepsRun == /\ pc = "chunk" /\ idx <= N /\ ~Triggered(idx)
                     /\ idx' = idx + 1
                     /\ UNCHANGED <<input, pc, file_retries, api_retries, memory,
                                    flags, records, file>>

SkipChunk == /\ pc = "chunk" /\ idx <= N /\ ~Triggered(idx)
             /\ idx' = idx + 1
             /\ last_was_h1_h4' = FALSE
             /\ UNCHANGED <<input, pc, file_retries, api_retries, memory,
                            has_seen_any_heuristic, records, file>>

\* --without_llm: a run of consecutive chunks with a trigger opens one space.
TagWithoutLLM ==
  /\ without_llm /\ pc = "chunk" /\ idx <= N /\ Triggered(idx)
  /\ Label([decision |-> IF TriggersFound(idx) /\ last_was_h1_h4
                         THEN "MAINTAIN" ELSE "NEW",
            target |-> NoId,
            def |-> IF TriggersFound(idx) /\ last_was_h1_h4 THEN "none" ELSE "object"])
  /\ has_seen_any_heuristic' = (has_seen_any_heuristic \/ HasHTag(idx))
  /\ last_was_h1_h4' = TriggersFound(idx)
  /\ UNCHANGED <<input, pc, file_retries, api_retries, file>>

\* get_history_prompt calls .get on every stored definition.
HistoryPrintable == \A id \in DOMAIN spaces : spaces[id] = "object"

BuildPrompt == /\ ~without_llm /\ pc = "chunk" /\ idx <= N /\ Triggered(idx)
               /\ HistoryPrintable
               /\ pc' = "ask"
               /\ api_retries' = 0
               /\ has_seen_any_heuristic' = (has_seen_any_heuristic \/ HasHTag(idx))
               /\ last_was_h1_h4' = FALSE
               /\ UNCHANGED <<input, file_retries, idx, memory, records, file>>

BuildPromptFails == /\ ~without_llm /\ pc = "chunk" /\ idx <= N /\ Triggered(idx)
                    /\ ~HistoryPrintable
                    /\ AttemptFails
                    /\ has_seen_any_heuristic' = (has_seen_any_heuristic \/ HasHTag(idx))
                    /\ last_was_h1_h4' = FALSE
                    /\ UNCHANGED <<input, api_retries, idx, memory, records, file>>

\* Slip: <= for <.
ApiCallFailsOneMore == /\ pc = "ask"
                       /\ api_retries' = api_retries + 1
                       /\ IF api_retries <= MaxApiRetries
                          THEN UNCHANGED <<pc, file_retries>>
                          ELSE AttemptFails
                       /\ UNCHANGED <<input, idx, memory, flags, records, file>>

\* The request fails or the reply is not JSON: another try, up to max_retries.
ApiCallFails == /\ pc = "ask"
                /\ api_retries' = api_retries + 1
                /\ IF api_retries + 1 < MaxApiRetries
                   THEN UNCHANGED <<pc, file_retries>>
                   ELSE AttemptFails
                /\ UNCHANGED <<input, idx, memory, flags, records, file>>

\* JSON, but not an object (or a target no int() accepts): an error no inner
\* handler catches.
ReplyUnusable == /\ pc = "ask"
                 /\ AttemptFails
                 /\ UNCHANGED <<input, api_retries, idx, memory, flags, records, file>>

ReplyArrives == /\ pc = "ask"
                /\ \E reply \in Replies : Label(reply)
                /\ pc' = "chunk"
                /\ UNCHANGED <<input, file_retries, api_retries, flags, file>>

\* open(path, "w") truncates; json.dump then fills the file.
OpenOutput == /\ pc = "chunk" /\ idx > N
              /\ pc' = "write"
              /\ output' = "torn"
              /\ saved' = <<>>
              /\ UNCHANGED <<input, file_retries, api_retries, idx, memory, flags, records>>

WriteOutput == /\ pc = "write"
               /\ pc' = "done"
               /\ output' = "whole"
               /\ saved' = records
               /\ UNCHANGED <<input, file_retries, api_retries, idx, memory, flags, records>>

\* Creating the directory, opening the file or writing it raises OSError; what
\* was written stays.
WriteFails == /\ pc = "write" \/ (pc = "chunk" /\ idx > N)
              /\ AttemptFails
              /\ UNCHANGED <<input, api_retries, idx, memory, flags, records, file>>

Next == \/ Load \/ LoadFails
        \/ SkipChunk \/ TagWithoutLLM
        \/ BuildPrompt \/ BuildPromptFails
        \/ ApiCallFails \/ ReplyUnusable \/ ReplyArrives
        \/ OpenOutput \/ WriteOutput \/ WriteFails

\* Every call to the client returns or times out, so a file being processed
\* always takes another step.
Spec == Init /\ [][Next]_vars /\ WF_vars(Next)

-----------------------------------------------------------------------------
(* The reader: shape_metrics.py gives a unit without a record the space of *)
(* the unit before it, and space 0 before any record.                      *)
Recorded(recs, i) == {j \in 1 .. i : recs[j] # NoRecord}

Last(S) == CHOOSE j \in S : \A k \in S : k <= j

SpaceIdAt(recs, i) ==
  IF Recorded(recs, i) = {} THEN 0 ELSE recs[Last(Recorded(recs, i))].active

SpaceIds(recs, n) == [i \in 1 .. n |-> SpaceIdAt(recs, i)]

-----------------------------------------------------------------------------
(* Properties.                                                             *)

TypeOK ==
  /\ tags \in Files
  /\ readable \in BOOLEAN /\ without_llm \in BOOLEAN
  /\ pc \in {"load", "chunk", "ask", "write", "done", "gaveup"}
  /\ file_retries \in 0 .. MaxFileRetries
  /\ api_retries \in 0 .. MaxApiRetries
  /\ idx \in 1 .. N + 1
  /\ next_id \in 1 .. idx
  /\ spaces \in [0 .. next_id - 1 -> Kinds]
  /\ current_space_id \in 0 .. next_id - 1
  /\ has_seen_any_heuristic \in BOOLEAN
  /\ last_was_h1_h4 \in BOOLEAN
  /\ records \in [1 .. N -> Records \cup {NoRecord}]
  /\ output \in {"absent", "torn", "whole"}
  /\ saved \in {<<>>} \cup [1 .. N -> Records \cup {NoRecord}]

\* The writer's memory and the reader agree: at every point of an attempt the
\* space that shape_metrics.py will carry over the chunks labelled so far is the
\* current space of the memory, and no later chunk has a label yet (so nothing
\* of an abandoned attempt shows through).
ReaderAgrees ==
  /\ SpaceIdAt(records, idx - 1) = current_space_id
  /\ \A i \in idx .. N : records[i] = NoRecord

Opens(recs, i) == recs[i].decision = "NEW" /\ recs[i].def # "none"

\* Every space but the initial one was opened by exactly one recorded chunk that
\* carries its definition, in the order of the ids, and a record that names a
\* space comes no earlier than the record that opened it.
Grounded ==
  LET opening == {i \in 1 .. idx - 1 : Opens(records, i)} IN
  /\ \A k \in 1 .. next_id - 1 : \E i \in opening :
       records[i].active = k /\ records[i].def = spaces[k]
  /\ \A i, j \in opening : i < j => records[i].active < records[j].active
  /\ \A i \in 1 .. idx - 1 : records[i].active > 0 =>
       \E j \in opening : j <= i /\ records[j].active = records[i].active

\* What the pass should have labelled, from the tags alone.
ShouldTrigger(i) ==
  \/ \E t \in tags[i] : Base(t) \in ActiveTriggers
  \/ HasHTag(i) /\ \A j \in 1 .. i - 1 : ~HasHTag(j)

\* A whole output has a record on exactly the chunks whose tags call for one,
\* whatever attempts failed before the one that wrote it.
OutputComplete ==
  output = "whole" => /\ DOMAIN saved = 1 .. N
                      /\ \A i \in 1 .. N : saved[i] # NoRecord <=> ShouldTrigger(i)

\* The file is finished with: written, or given up after max_retry attempts.
Settles == <>(pc \in {"done", "gaveup"})

\* The pass implements the abstract walk, with the ids the reader derives.
Walk == INSTANCE SpaceTrajectory WITH
  Length <- 0 .. MaxChunks,
  trail <- SpaceIds(records, idx - 1),
  known <- next_id,
  published <- SpaceIds(saved, Len(saved))

ImplementsWalk == Walk!ASpec

\* In --without_llm mode a chunk opens a space exactly when it starts a run of
\* chunks with a trigger, or is the first with any H tag; so a space is never
\* reopened and two chunks of a run never split.
SpacePerRun ==
  without_llm /\ output = "whole" => \A i \in 1 .. N :
    saved[i].decision = "NEW" <=>
      \/ /\ TriggersFound(i)
         /\ i = 1 \/ ~TriggersFound(i - 1)
      \/ /\ HasHTag(i) /\ ~TriggersFound(i)
         /\ \A j \in 1 .. i - 1 : ~HasHTag(j)

=============================================================================
