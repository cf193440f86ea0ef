---------------------------- MODULE ContentUnit ----------------------------
(***************************************************************************)
(* Step 1 of the SHAPE pipeline on one trace: _process_single_item of      *)
(* utils/content_unit/preprocessor.py around chunk_sentences_with_llm and  *)
(* merge_short_chunks, run again, with or without --resume, after a run    *)
(* that ended, raised or was killed.  The model is external: it may name   *)
(* any segments.                                                           *)
(***************************************************************************)
EXTENDS Integers, Sequences, SequencesExt

CONSTANTS
  SentenceLengths,  \* the trace: the number of characters of every sentence
  TagSets,          \* what a segment's codes may be
  NullTags,         \* "codes": null, which no set can be made of
  MaxAttempts,      \* max_retries of one window (3 in the code)
  MaxRuns           \* bound: runs of the program over this trace

N == Len(SentenceLengths)

ASSUME ConstantsOK ==
  /\ SentenceLengths \in Seq(Nat \ {0}) /\ N > 0
  /\ NullTags \in TagSets /\ {} \in TagSets
  /\ MaxAttempts \in Nat \ {0} /\ MaxRuns \in Nat \ {0}

VARIABLES
  pc,           \* "start", "window", "items", "merge", "write", "dump", "done", "raised"
  runs,         \* runs begun
  resume, skip_llm, \* the flags of the run
  current_idx,  \* sentences before it are done with
  attempt,      \* failed requests for this window
  covered,      \* whether this window covered a sentence (batch_covered_count > 0)
  chunks,       \* processed_chunks
  lost,         \* history: sentences given up one by one in this run
  output,       \* the label file: "absent", "torn" or "whole"
  saved,        \* its chunks when it is whole
  saved_lost    \* history: what the run that wrote it had given up

flags == <<resume, skip_llm>>
file == <<output, saved, saved_lost>>
progress == <<current_idx, attempt, covered, chunks, lost>>
vars == <<pc, runs, flags, progress, file>>

Sentence == 0 .. N - 1
\* `segments` is a history: the tags of every segment the text comes from.
Chunk(first, last, tags) == [text |-> [i \in 1 .. last - first + 1 |-> first + i - 1],
                             first |-> first, last |-> last, tags |-> tags, segments |-> {tags}]
OnePerSentence == [i \in 1 .. N |-> Chunk(i - 1, i - 1, {})]
Text(cs) == FlattenSeq([i \in DOMAIN cs |-> cs[i].text])
Length(text) == FoldSeq(LAMBDA s, n : n + SentenceLengths[s + 1], 0, text)
TraceLength == FoldSeq(+, 0, SentenceLengths)

\* The text of the chunks is 0.9 to 1.1 times as long as the trace.
GoodCoverage(cs) == LET n == Length(Text(cs)) IN
                    9 * TraceLength <= 10 * n /\ 10 * n <= 11 * TraceLength

-----------------------------------------------------------------------------
\* merge_short_chunks
Single(c) == c.first = c.last
Joined(p, c) == [p EXCEPT !.text = @ \o c.text, !.last = c.last, !.segments = @ \cup c.segments]

AddMerged(merged, c) ==
  IF merged # <<>> /\ Last(merged).tags = c.tags /\ (Single(Last(merged)) \/ Single(c))
  THEN Front(merged) \o <<Joined(Last(merged), c)>>
  ELSE Append(merged, c)

MergeShortChunks(cs) ==
  LET merged[k \in 0 .. Len(cs)] == IF k = 0 THEN <<>> ELSE AddMerged(merged[k - 1], cs[k])
  IN  merged[Len(cs)]

-----------------------------------------------------------------------------
Init == /\ pc = "start" /\ runs = 0
        /\ resume = FALSE /\ skip_llm = FALSE
        /\ current_idx = 0 /\ attempt = 0 /\ covered = FALSE
        /\ chunks = <<>> /\ lost = {}
        /\ output = "absent" /\ saved = <<>> /\ saved_lost = {}

\* Slip: --resume looks only whether the file is there.
ResumeSkipsExisting == resume' /\ output # "absent"

\* --resume: a file that parses and covers the trace is left as it is.
ResumeSkips == resume' /\ output = "whole" /\ GoodCoverage(saved)

Start == /\ pc \in {"start", "done", "raised"} /\ runs < MaxRuns
         /\ runs' = runs + 1
         /\ resume' \in BOOLEAN /\ skip_llm' \in BOOLEAN
         /\ pc' = IF ResumeSkips THEN "done" ELSE IF skip_llm' THEN "write" ELSE "window"
         /\ chunks' = IF skip_llm' THEN OnePerSentence ELSE <<>>
         /\ current_idx' = 0 /\ attempt' = 0 /\ covered' = FALSE /\ lost' = {}
         /\ UNCHANGED file

\* A request fails or its answer is no JSON.  After the last attempt the chunker
\* returns no chunks, whatever it had, and every sentence becomes a chunk.
AttemptFails ==
  /\ pc = "window"
  /\ IF attempt + 1 < MaxAttempts
     THEN attempt' = attempt + 1 /\ UNCHANGED <<pc, chunks, lost>>
     ELSE attempt' = 0 /\ pc' = "write" /\ chunks' = OnePerSentence /\ lost' = {}
  /\ UNCHANGED <<runs, flags, current_idx, covered, file>>

\* An empty list (or null) is no answer either, and is not asked for again.
ReplyEmpty == /\ pc = "window"
              /\ pc' = "write" /\ chunks' = OnePerSentence /\ lost' = {}
              /\ UNCHANGED <<runs, flags, current_idx, attempt, covered, file>>

\* A number or true has no length: the exception ends the run for this trace.
ReplyNoList == /\ pc = "window" /\ pc' = "raised"
               /\ UNCHANGED <<runs, flags, progress, file>>

ReplyArrives == /\ pc = "window"
                /\ pc' = "items" /\ attempt' = 0 /\ covered' = FALSE
                /\ UNCHANGED <<runs, flags, current_idx, chunks, lost, file>>

\* A segment as the model names it, counting from 1.  Skipped are segments out of
\* range or wholly before current_idx, like items that are no object or lack an index.
Starts == 0 .. N + 1
Ends == -N .. N + 1
InRange(s, e) == s >= 1 /\ e <= N /\ (s > current_idx \/ e > current_idx)

\* Slip: a gap before the segment is left open.
SegmentWithGap(s, e, tags) ==
  /\ pc = "items" /\ InRange(s, e) /\ e > current_idx
  /\ chunks' = Append(chunks, Chunk(IF s > current_idx /\ s <= e THEN s - 1 ELSE current_idx,
                                    e - 1, tags))
  /\ current_idx' = e /\ covered' = TRUE
  /\ UNCHANGED <<pc, runs, flags, attempt, lost, file>>

\* The start is moved to current_idx from either side: sentences[current_idx : e].
Segment(s, e, tags) ==
  /\ pc = "items" /\ InRange(s, e) /\ e > current_idx
  /\ chunks' = Append(chunks, Chunk(current_idx, e - 1, tags))
  /\ current_idx' = e /\ covered' = TRUE
  /\ UNCHANGED <<pc, runs, flags, attempt, lost, file>>

\* A negative end counts from the end of the trace in the slice, which may hold
\* sentences, but not in the range of their indices, which is empty.
NegativeEnd(s, e) ==
  /\ pc = "items" /\ InRange(s, e) /\ e < 0 /\ N + e > current_idx
  /\ pc' = "raised"
  /\ UNCHANGED <<runs, flags, progress, file>>

\* int() of an index that is no number.
UnreadableIndex ==
  /\ pc = "items" /\ pc' = "raised"
  /\ UNCHANGED <<runs, flags, progress, file>>

\* Slip: a window that covered nothing is asked for again.
WindowEndsInPlace ==
  /\ pc = "items"
  /\ current_idx' = current_idx /\ lost' = lost
  /\ pc' = IF current_idx' < N THEN "window" ELSE "merge"
  /\ UNCHANGED <<runs, flags, attempt, covered, chunks, file>>

\* A window that covered nothing gives one sentence up.
WindowEnds ==
  /\ pc = "items"
  /\ IF covered THEN UNCHANGED <<current_idx, lost>>
     ELSE current_idx' = current_idx + 1 /\ lost' = lost \cup {current_idx}
  /\ pc' = IF current_idx' < N THEN "window" ELSE "merge"
  /\ UNCHANGED <<runs, flags, attempt, covered, chunks, file>>

Merge ==
  /\ pc = "merge"
  /\ IF Len(chunks) > 1 /\ \E i \in DOMAIN chunks : chunks[i].tags = NullTags
     THEN pc' = "raised" /\ UNCHANGED <<chunks, lost>>
     ELSE /\ pc' = "write"
          /\ chunks' = IF chunks = <<>> THEN OnePerSentence ELSE MergeShortChunks(chunks)
          /\ lost' = IF chunks = <<>> THEN {} ELSE lost
  /\ UNCHANGED <<runs, flags, current_idx, attempt, covered, file>>

\* open(..., 'w') empties the file, json.dump fills it.
OpenOutput == /\ pc = "write" /\ pc' = "dump"
              /\ output' = "torn" /\ saved' = <<>> /\ saved_lost' = {}
              /\ UNCHANGED <<runs, flags, progress>>

WriteOutput == /\ pc = "dump" /\ pc' = "done"
               /\ output' = "whole" /\ saved' = chunks /\ saved_lost' = lost
               /\ UNCHANGED <<runs, flags, progress>>

\* The disk fails: the exception ends the run for this trace.
OutputFails == /\ pc \in {"write", "dump"} /\ pc' = "raised"
               /\ UNCHANGED <<runs, flags, progress, file>>

\* A kill leaves the files.
Killed == /\ pc \notin {"start", "done", "raised"} /\ pc' = "start"
          /\ current_idx' = 0 /\ attempt' = 0 /\ covered' = FALSE
          /\ chunks' = <<>> /\ lost' = {}
          /\ UNCHANGED <<runs, flags, file>>

Work == \/ AttemptFails \/ ReplyEmpty \/ ReplyNoList \/ ReplyArrives
        \/ \E s \in Starts, e \in Ends :
             NegativeEnd(s, e) \/ \E t \in TagSets : Segment(s, e, t)
        \/ UnreadableIndex \/ WindowEnds \/ Merge
        \/ OpenOutput \/ WriteOutput \/ OutputFails

Next == Start \/ Work \/ Killed

\* Every request is answered or times out, and a reply is a finite list.
Spec == Init /\ [][Next]_vars /\ WF_vars(Work)

-----------------------------------------------------------------------------
TypeOK ==
  /\ pc \in {"start", "window", "items", "merge", "write", "dump", "done", "raised"}
  /\ runs \in 0 .. MaxRuns /\ attempt \in 0 .. MaxAttempts - 1 /\ current_idx \in 0 .. N
  /\ lost \subseteq Sentence /\ output \in {"absent", "torn", "whole"}

InOrder(cs) == \A i, j \in DOMAIN cs : \A k \in DOMAIN cs[i].text, l \in DOMAIN cs[j].text :
                 i < j \/ (i = j /\ k < l) => cs[i].text[k] < cs[j].text[l]
Held(cs) == UNION {Range(cs[i].text) : i \in DOMAIN cs}

\* Read in order, the chunks are all of 0 .. upto - 1 except `missing`.
Covers(cs, upto, missing) == InOrder(cs) /\ Held(cs) = (0 .. upto - 1) \ missing

\* No sentence stands under tags that the model did not give its segment.
OwnTags(cs) == \A i \in DOMAIN cs : cs[i].segments = {cs[i].tags}

\* Whatever segments the model names - overlapping, with gaps, backwards, out of range -
\* the chunks read in order are the trace: no sentence twice, none out of order, and
\* missing only those given up by "Force advancing 1 sentence"; each is under the tags of
\* its own segment, though merging joins chunks.  So is the file.
TextKept ==
  /\ TypeOK
  /\ pc \in {"window", "items"} => Covers(chunks, current_idx, lost)
  /\ pc \in {"merge", "write", "dump"} => Covers(chunks, N, lost)
  /\ output = "whole" => Covers(saved, N, saved_lost)
  /\ OwnTags(chunks) /\ OwnTags(saved)

\* A run that ends by itself leaves a whole file, whatever torn file it found; one with
\* --resume leaves a file short of a tenth of the trace at most, or of what it just gave up.
RunLeavesWhole ==
  pc = "done" => /\ output = "whole"
                 /\ resume => GoodCoverage(saved) \/ saved_lost = lost

\* A run over a trace comes to an end.
RunEnds == pc \in {"window", "items", "merge", "write", "dump"}
             ~> pc \in {"start", "done", "raised"}
=============================================================================
