-------------------------- MODULE HeuristicLabel --------------------------
(***************************************************************************)
(* Step 2 of the SHAPE pipeline on one file: process_chunk_file and        *)
(* process_chunk_file_batch of label_stateless.py around the two passes    *)
(* over its chunks in utils/method/utils.py, with the schema of schemas.py *)
(* or, where pydantic or the package is missing, without.  The model is    *)
(* external: it may answer anything.  Names that ContentUnit has as well   *)
(* say that they are of the labels: FileProofs is about both.              *)
(***************************************************************************)
EXTENDS Integers, Sequences, SequencesExt

CONSTANTS
  MaxChunks,      \* bound: chunks of a file
  MaxTries,       \* max_retries of a chunk (5 in the code)
  MaxFileRetries  \* max_retry of the file (10 in the code)

ASSUME LabelConstantsOK == /\ MaxChunks \in Nat
                           /\ MaxTries \in Nat \ {0} /\ MaxFileRetries \in Nat \ {0}

VARIABLES
  num_chunks,    \* the number of chunks of the input file
  batch,         \* one batch of requests, or one request after the other
  schema,        \* whether `from .schemas import ChunkAnnotation` succeeds
  label_pc,      \* "load", "batch", "chunk", "write", "dump", "done" or "gaveup"
  file_retries,  \* retry_count of the file
  idx,           \* the chunk at hand; past the end when all are done
  tries,         \* retry_count of the chunk
  parsed,        \* one by one: response_json holds what an earlier try parsed
  labels,        \* ontology_tag of every chunk done
  heard,         \* history: the replies to the tries for this chunk
  label_output,  \* the output file: "absent", "torn" or "whole"
  label_saved    \* its labels when it is whole

input == <<num_chunks, batch, schema>>
label_file == <<label_output, label_saved>>
pass == <<idx, tries, parsed, labels, heard>>
label_vars == <<input, label_pc, file_retries, pass, label_file>>

\* Codes: heuristic, non-heuristic, of no valid form; E is the program's own default.
Codes == {"H", "N", "X"}
Default == {"E"}

\* A reply is an error of the server, no JSON under any strategy, JSON without the key
\* 'annotations', annotations one of which lacks its 'code', or a list of codes.
Replies == [kind : {"error", "garbled", "bare", "codeless"}, codes : {{}}]
             \cup [kind : {"codes"}, codes : SUBSET Codes]

\* What the ladder of parsers makes of codes: the schema drops non-heuristic codes beside
\* heuristic ones; a reply it refuses is taken as it is.
Parsed(codes) == IF schema /\ "H" \in codes /\ "X" \notin codes THEN codes \ {"N"} ELSE codes

-----------------------------------------------------------------------------
LabelInit == /\ num_chunks \in 0 .. MaxChunks /\ batch \in BOOLEAN /\ schema \in BOOLEAN
             /\ label_pc = "load" /\ file_retries = 0
             /\ idx = 1 /\ tries = 0 /\ parsed = FALSE /\ labels = <<>> /\ heard = <<>>
             /\ label_output = "absent" /\ label_saved = <<>>

\* Slip: the labels of the attempt before are kept.
LoadKeepsLabels ==
  /\ label_pc = "load"
  /\ idx' = 1 /\ labels' = labels /\ tries' = 0 /\ parsed' = FALSE /\ heard' = <<>>
  /\ label_pc' = IF batch THEN "batch" ELSE IF num_chunks = 0 THEN "write" ELSE "chunk"
  /\ UNCHANGED <<input, file_retries, label_file>>

Load ==
  /\ label_pc = "load"
  /\ idx' = 1 /\ labels' = <<>> /\ tries' = 0 /\ parsed' = FALSE /\ heard' = <<>>
  /\ label_pc' = IF batch THEN "batch" ELSE IF num_chunks = 0 THEN "write" ELSE "chunk"
  /\ UNCHANGED <<input, file_retries, label_file>>

BatchArrives == /\ label_pc = "batch"
                /\ label_pc' = IF num_chunks = 0 THEN "write" ELSE "chunk"
                /\ UNCHANGED <<input, file_retries, pass, label_file>>

\* Slip: the failed attempt is not counted.
PassFailsUncounted == /\ file_retries' = file_retries
                      /\ label_pc' = IF file_retries' < MaxFileRetries THEN "load" ELSE "gaveup"
                      /\ UNCHANGED <<input, pass>>

\* An exception leaves the pass: the file is read again, up to max_retry times.
PassFails == /\ file_retries' = file_retries + 1
             /\ label_pc' = IF file_retries' < MaxFileRetries THEN "load" ELSE "gaveup"
             /\ UNCHANGED <<input, pass>>

LoadFails == label_pc = "load" /\ PassFails /\ UNCHANGED label_file
BatchFails == label_pc = "batch" /\ PassFails /\ UNCHANGED label_file

Labelled(codes) == /\ labels' = Append(labels, codes)
                   /\ idx' = idx + 1 /\ tries' = 0 /\ parsed' = FALSE
                   /\ label_pc' = IF idx < num_chunks THEN "chunk" ELSE "write"

\* Slip: what an earlier try parsed is in the way in a batch, too.
StaleAlways == parsed

\* One by one and without the schema, the next try parses only if nothing was parsed before.
Stale == ~batch /\ ~schema /\ parsed

\* A try that gives no annotations.  The last one labels the chunk E.
TryFails(r) ==
  /\ label_pc = "chunk" /\ r \in Replies
  /\ r.kind = "error" \/ r.kind = "garbled" \/ r.kind = "bare" \/ Stale
  /\ heard' = IF tries = 0 THEN <<r>> ELSE Append(heard, r)
  /\ IF tries + 1 < MaxTries
     THEN /\ tries' = tries + 1
          /\ parsed' = (parsed \/ r.kind = "bare")
          /\ UNCHANGED <<label_pc, idx, labels>>
     ELSE Labelled(Default)
  /\ UNCHANGED <<input, file_retries, label_file>>

TrySucceeds(r) ==
  /\ label_pc = "chunk" /\ r \in Replies /\ r.kind = "codes" /\ ~Stale
  /\ heard' = IF tries = 0 THEN <<r>> ELSE Append(heard, r)
  /\ Labelled(Parsed(r.codes))
  /\ UNCHANGED <<input, file_retries, label_file>>

\* Annotations without a code pass the tries and break the chunk.
ChunkBreaks(r) == /\ label_pc = "chunk" /\ r.kind = "codeless" /\ ~Stale
                  /\ PassFails /\ UNCHANGED label_file

OpenLabels == /\ label_pc = "write" /\ label_pc' = "dump"
              /\ label_output' = "torn" /\ label_saved' = <<>>
              /\ UNCHANGED <<input, file_retries, pass>>

WriteLabels == /\ label_pc = "dump"
               /\ label_output' = "whole" /\ label_saved' = labels /\ label_pc' = "done"
               /\ UNCHANGED <<input, file_retries, pass>>

WriteFails == label_pc \in {"write", "dump"} /\ PassFails /\ UNCHANGED label_file

LabelNext == \/ Load \/ LoadFails \/ BatchArrives \/ BatchFails
             \/ \E r \in Replies : TryFails(r) \/ TrySucceeds(r) \/ ChunkBreaks(r)
             \/ OpenLabels \/ WriteLabels \/ WriteFails

\* Every request is answered or times out, and the pass is sequential.
LabelSpec == LabelInit /\ [][LabelNext]_label_vars /\ WF_label_vars(LabelNext)

-----------------------------------------------------------------------------
LabelTypeOK == /\ label_pc \in {"load", "batch", "chunk", "write", "dump", "done", "gaveup"}
               /\ file_retries \in 0 .. MaxFileRetries /\ tries \in 0 .. MaxTries - 1
               /\ labels \in Seq(SUBSET (Codes \cup Default)) /\ Len(labels) = idx - 1
               /\ label_output \in {"absent", "torn", "whole"}

\* Which of the tries for this chunk gave codes.
Answers == {i \in DOMAIN heard' : heard'[i].kind = "codes"}

FirstCounts ==
  Len(labels') > Len(labels) =>
    \/ \E i \in Answers : /\ \A j \in Answers : i <= j
                          /\ Last(labels') = Parsed(heard'[i].codes)
    \/ /\ Len(heard') = MaxTries /\ Last(labels') = Default
       /\ \/ Answers = {}
          \/ /\ ~batch /\ ~schema
             /\ \E i \in 1 .. MaxTries - 1 : heard'[i].kind = "bare" /\ \A j \in Answers : i < j

\* A chunk is labelled with the first answer to its tries that has codes, and with E only
\* when all its tries gave none; one by one without the schema an answer after one without
\* annotations is not looked at.
FirstAnswerCounts == [][FirstCounts]_label_vars

\* An output has one label for every chunk, whatever attempts failed before.
OutputComplete == LabelTypeOK /\ (label_output = "whole" => Len(label_saved) = num_chunks)

\* Every file is written or given up.
Settles == <>(label_pc \in {"done", "gaveup"})
=============================================================================
