------------------------ MODULE SemanticSpaceProofs ------------------------
(***************************************************************************)
(* Proofs about SemanticSpace, for files of any length, any tags and any   *)
(* retry limits.                                                           *)
(***************************************************************************)
EXTENDS SemanticSpace, SequenceTheorems, TLAPS

-----------------------------------------------------------------------------
(* Type correctness.  TypeOK is not inductive: that a chunk being asked    *)
(* about exists, and that the retry counters are below their limits while  *)
(* the loops run, depends on where the program is.                         *)
Control == /\ pc = "ask" => idx <= N /\ api_retries < MaxApiRetries
           /\ pc # "gaveup" => file_retries < MaxFileRetries
           /\ pc \in {"write", "done"} => idx = N + 1

TypeInv == TypeOK /\ Control

\* A list of tag sets has as many entries as its domain says.
LEMMA LengthOfFile ==
  ASSUME ConstantsOK, tags \in Files
  PROVE  N \in 0 .. MaxChunks /\ tags \in [1 .. N -> TagSets]
<1>1. PICK n \in 0 .. MaxChunks : tags \in [1 .. n -> TagSets]
  BY DEF Files
<1>2. n \in Nat
  BY <1>1 DEF ConstantsOK
<1>3. tags \in Seq(TagSets)
  BY <1>1, <1>2, SeqDef
<1>4. DOMAIN tags = 1 .. Len(tags) /\ Len(tags) \in Nat
  BY <1>3, LenProperties
<1>5. Len(tags) = n
  BY <1>1, <1>2, <1>4
<1> QED
  BY <1>1, <1>5 DEF N

\* What labelling a chunk does to the memory: it stays well formed, and the
\* record of the chunk, and of no other, names the current space.
LEMMA LabelEffect ==
  ASSUME ConstantsOK, TypeOK, idx <= N, UNCHANGED input,
         NEW reply \in Replies, Label(reply)
  PROVE  \E next \in 1 .. idx + 1, cur \in 0 .. idx :
         /\ idx' = idx + 1
         /\ next_id' = next
         /\ current_space_id' = cur
         /\ cur < next
         /\ next \in {next_id, next_id + 1}
         /\ spaces' \in [0 .. next - 1 -> Kinds]
         /\ \A k \in 0 .. next_id - 1 : spaces'[k] = spaces[k]
         /\ records' \in [1 .. N -> Records \cup {NoRecord}]
         /\ records'[idx] \in Records
         /\ records'[idx].active = cur
         /\ \A i \in 1 .. N : i # idx => records'[i] = records[i]
<1>0. N \in 0 .. MaxChunks /\ N \in Nat /\ MaxChunks \in Nat /\ idx \in 1 .. N
  BY LengthOfFile DEF TypeOK, ConstantsOK
<1>1. idx' = idx + 1
  BY DEF Label
<1>2. \E next \in 1 .. idx + 1, cur \in 0 .. idx :
         /\ next_id' = next
         /\ current_space_id' = cur
         /\ cur < next
         /\ next \in {next_id, next_id + 1}
         /\ spaces' \in [0 .. next - 1 -> Kinds]
         /\ \A k \in 0 .. next_id - 1 : spaces'[k] = spaces[k]
  <2>1. CASE reply.decision = "NEW" /\ reply.def # "none"
    <3>1. /\ spaces' = [id \in DOMAIN spaces \cup {next_id} |->
                          IF id = next_id THEN reply.def ELSE spaces[id]]
          /\ current_space_id' = next_id
          /\ next_id' = next_id + 1
      BY <2>1 DEF Label, Transition
    <3>2. DOMAIN spaces \cup {next_id} = 0 .. next_id
      BY DEF TypeOK
    <3>3. reply.def \in Kinds
      BY DEF Replies
    <3>4. spaces' \in [0 .. (next_id + 1) - 1 -> Kinds]
      BY <1>0, <3>1, <3>2, <3>3 DEF TypeOK
    <3>5. next_id + 1 \in 1 .. idx + 1 /\ next_id \in 0 .. idx
      BY <1>0 DEF TypeOK
    <3>6. \A k \in 0 .. next_id - 1 : spaces'[k] = spaces[k]
      BY <3>1 DEF TypeOK
    <3> QED
      BY <3>1, <3>4, <3>5, <3>6
  <2>2. CASE reply.decision = "RETURN" /\ reply.target \in DOMAIN spaces
    BY <1>0, <2>2 DEF Label, Transition, TypeOK
  <2>3. CASE /\ ~(reply.decision = "NEW" /\ reply.def # "none")
             /\ ~(reply.decision = "RETURN" /\ reply.target \in DOMAIN spaces)
    BY <1>0, <2>3 DEF Label, Transition, memory, TypeOK
  <2> QED
    BY <2>1, <2>2, <2>3
<1>3. PICK next \in 1 .. idx + 1, cur \in 0 .. idx :
         /\ next_id' = next
         /\ current_space_id' = cur
         /\ cur < next
         /\ next \in {next_id, next_id + 1}
         /\ spaces' \in [0 .. next - 1 -> Kinds]
         /\ \A k \in 0 .. next_id - 1 : spaces'[k] = spaces[k]
  BY <1>2
<1>4. cur \in 0 .. MaxChunks
  BY <1>0
<1> DEFINE rec == [decision |-> reply.decision, active |-> cur,
                   def |-> IF reply.decision = "NEW" THEN reply.def ELSE "none"]
<1>5. rec \in Records
  BY <1>4 DEF Records, Replies, Kinds
<1>6. records' = [records EXCEPT ![idx] = rec]
  BY <1>3 DEF Label
<1>7. /\ records' \in [1 .. N -> Records \cup {NoRecord}]
      /\ records'[idx] = rec
      /\ \A i \in 1 .. N : i # idx => records'[i] = records[i]
  <2> HIDE DEF rec
  <2> QED
    BY <1>0, <1>5, <1>6 DEF TypeOK
<1>8. rec.active = cur
  OBVIOUS
<1> QED
  BY <1>1, <1>3, <1>5, <1>7, <1>8

\* An attempt that fails leaves the counters within their limits.
LEMMA AttemptFailsType ==
  ASSUME ConstantsOK, TypeInv, pc # "gaveup", AttemptFails
  PROVE  /\ pc' \in {"load", "gaveup"}
         /\ file_retries' \in 0 .. MaxFileRetries
         /\ pc' # "gaveup" => file_retries' < MaxFileRetries
BY DEF AttemptFails, TypeInv, TypeOK, Control, ConstantsOK

\* The replies the program makes up itself in --without_llm mode.
LEMMA OwnReply ==
  ASSUME ConstantsOK, NEW b \in BOOLEAN
  PROVE  [decision |-> IF b THEN "MAINTAIN" ELSE "NEW", target |-> NoId,
          def |-> IF b THEN "none" ELSE "object"] \in Replies
BY DEF Replies, Decisions, Kinds, NoId

LEMMA TypeInit == ASSUME ConstantsOK PROVE Init => TypeInv
<1> SUFFICES ASSUME Init PROVE TypeInv
  OBVIOUS
<1>1. N \in 0 .. MaxChunks /\ N \in Nat
  BY LengthOfFile DEF Init, ConstantsOK
<1>2. spaces \in [0 .. next_id - 1 -> Kinds]
  BY 0 .. 1 - 1 = {0} DEF Init, EmptyMemory, Kinds
<1>3. idx \in 1 .. N + 1 /\ next_id \in 1 .. idx /\ current_space_id \in 0 .. next_id - 1
  BY <1>1 DEF Init, EmptyMemory
<1>4. records \in [1 .. N -> Records \cup {NoRecord}]
  BY DEF Init
<1>5. /\ tags \in Files /\ readable \in BOOLEAN /\ without_llm \in BOOLEAN
      /\ pc \in {"load", "chunk", "ask", "write", "done", "gaveup"}
      /\ has_seen_any_heuristic \in BOOLEAN /\ last_was_h1_h4 \in BOOLEAN
      /\ output \in {"absent", "torn", "whole"}
  BY DEF Init
<1>6. file_retries \in 0 .. MaxFileRetries /\ api_retries \in 0 .. MaxApiRetries
  BY DEF Init, ConstantsOK
<1>7. saved \in {<<>>} \cup [1 .. N -> Records \cup {NoRecord}]
  BY DEF Init
<1>8. Control
  BY <1>1 DEF Init, Control, ConstantsOK
<1> QED
  BY <1>2, <1>3, <1>4, <1>5, <1>6, <1>7, <1>8 DEF TypeInv, TypeOK

LEMMA TypeStep == ASSUME ConstantsOK, TypeInv, [Next]_vars PROVE TypeInv'
<1> USE DEF TypeInv
<1>0. /\ N \in 0 .. MaxChunks /\ N \in Nat /\ MaxFileRetries \in Nat \ {0}
      /\ MaxApiRetries \in Nat \ {0}
  BY LengthOfFile DEF TypeOK, ConstantsOK
<1>n. ASSUME UNCHANGED input PROVE N' = N
  BY <1>n DEF input, N
<1>1. CASE Load
  <2>1. spaces' \in [0 .. next_id' - 1 -> Kinds]
    BY <1>1, 0 .. 1 - 1 = {0} DEF Load, Kinds
  <2>2. records' \in [1 .. N -> Records \cup {NoRecord}]
    BY <1>1 DEF Load
  <2>3. 1 \in 1 .. N + 1 /\ 0 \in 0 .. MaxApiRetries
    BY <1>0
  <2>4. /\ N' = N /\ UNCHANGED <<input, file_retries, file>>
        /\ pc # "gaveup" /\ pc' = "chunk" /\ api_retries' = 0 /\ idx' = 1
        /\ current_space_id' = 0 /\ next_id' = 1
        /\ has_seen_any_heuristic' = FALSE /\ last_was_h1_h4' = FALSE
    BY <1>1, <1>n DEF Load
  <2>5. Control'
    BY <2>4 DEF Control
  <2>6. idx' \in 1 .. N' + 1 /\ next_id' \in 1 .. idx' /\ api_retries' \in 0 .. MaxApiRetries
    BY <2>3, <2>4
  <2>7. current_space_id' \in 0 .. next_id' - 1
    BY <2>4
  <2>8. has_seen_any_heuristic' \in BOOLEAN /\ last_was_h1_h4' \in BOOLEAN
    BY <2>4
  <2>9. TypeOK'
    BY <2>1, <2>2, <2>4, <2>6, <2>7, <2>8 DEF TypeOK, input, file
  <2> QED
    BY <2>5, <2>9
<1>2. CASE LoadFails
  BY <1>0, <1>2, <1>n, AttemptFailsType DEF LoadFails, TypeOK, Control, input, memory, flags, file
<1>3. CASE SkipChunk
  BY <1>0, <1>3, <1>n DEF SkipChunk, TypeOK, Control, input, memory, file
<1>4. CASE TagWithoutLLM
  <2> DEFINE b == TriggersFound(idx) /\ last_was_h1_h4
             reply == [decision |-> IF b THEN "MAINTAIN" ELSE "NEW", target |-> NoId,
                       def |-> IF b THEN "none" ELSE "object"]
  <2>1. reply \in Replies
    BY OwnReply
  <2>2. idx <= N /\ UNCHANGED input /\ Label(reply)
    BY <1>4 DEF TagWithoutLLM
  <2> HIDE DEF reply
  <2>3. PICK next \in 1 .. idx + 1, cur \in 0 .. idx :
          /\ idx' = idx + 1
          /\ next_id' = next
          /\ current_space_id' = cur
          /\ cur < next
          /\ spaces' \in [0 .. next - 1 -> Kinds]
          /\ records' \in [1 .. N -> Records \cup {NoRecord}]
    BY <2>1, <2>2, LabelEffect
  <2>4. has_seen_any_heuristic' \in BOOLEAN /\ last_was_h1_h4' \in BOOLEAN
    BY <1>4 DEF TagWithoutLLM, HasHTag, TriggersFound
  <2>5. idx + 1 \in 1 .. N + 1
    BY <1>0, <2>2 DEF TypeOK
  <2> QED
    BY <1>4, <1>n, <2>2, <2>3, <2>4, <2>5 DEF TagWithoutLLM, TypeOK, Control, input, file
<1>5. CASE BuildPrompt
  <2>1. has_seen_any_heuristic' \in BOOLEAN
    BY <1>5 DEF BuildPrompt, HasHTag
  <2>2. /\ idx <= N /\ pc = "chunk" /\ pc' = "ask" /\ api_retries' = 0 /\ last_was_h1_h4' = FALSE
        /\ UNCHANGED <<input, file_retries, idx, memory, records, file>>
    BY <1>5 DEF BuildPrompt
  <2>3. Control'
    BY <1>0, <1>n, <2>2 DEF Control, input
  <2>4. /\ input' = input /\ N' = N /\ api_retries' \in 0 .. MaxApiRetries
        /\ UNCHANGED <<file_retries, idx, memory, records, file>>
    BY <1>0, <1>n, <2>2
  <2>5. TypeOK'
    BY <2>1, <2>2, <2>4 DEF TypeOK, input, memory, file
  <2> QED
    BY <2>3, <2>5
<1>6. CASE BuildPromptFails
  <2>1. has_seen_any_heuristic' \in BOOLEAN
    BY <1>6 DEF BuildPromptFails, HasHTag
  <2> QED
    BY <1>0, <1>6, <1>n, <2>1, AttemptFailsType DEF BuildPromptFails, TypeOK, Control, input, memory, file
<1>7. CASE ApiCallFails
  <2>1. CASE api_retries + 1 < MaxApiRetries
    BY <1>0, <1>7, <1>n, <2>1 DEF ApiCallFails, TypeOK, Control, input, memory, flags, file
  <2>2. CASE ~(api_retries + 1 < MaxApiRetries)
    BY <1>0, <1>7, <1>n, <2>2, AttemptFailsType
       DEF ApiCallFails, TypeOK, Control, input, memory, flags, file
  <2> QED
    BY <2>1, <2>2
<1>8. CASE ReplyUnusable
  BY <1>0, <1>8, <1>n, AttemptFailsType DEF ReplyUnusable, TypeOK, Control, input, memory, flags, file
<1>9. CASE ReplyArrives
  <2>1. PICK reply \in Replies : Label(reply)
    BY <1>9 DEF ReplyArrives
  <2>2. idx <= N /\ UNCHANGED input
    BY <1>9 DEF ReplyArrives, Control
  <2>3. PICK next \in 1 .. idx + 1, cur \in 0 .. idx :
          /\ idx' = idx + 1
          /\ next_id' = next
          /\ current_space_id' = cur
          /\ cur < next
          /\ spaces' \in [0 .. next - 1 -> Kinds]
          /\ records' \in [1 .. N -> Records \cup {NoRecord}]
    BY <2>1, <2>2, LabelEffect
  <2>4. idx + 1 \in 1 .. N + 1
    BY <1>0, <2>2 DEF TypeOK
  <2> QED
    BY <1>9, <1>n, <2>2, <2>3, <2>4 DEF ReplyArrives, TypeOK, Control, input, flags, file
<1>10. CASE OpenOutput
  BY <1>0, <1>10, <1>n DEF OpenOutput, TypeOK, Control, input, memory, flags
<1>11. CASE WriteOutput
  BY <1>0, <1>11, <1>n DEF WriteOutput, TypeOK, Control, input, memory, flags
<1>12. CASE WriteFails
  BY <1>0, <1>12, <1>n, AttemptFailsType DEF WriteFails, TypeOK, Control, input, memory, flags, file
<1>13. CASE UNCHANGED vars
  BY <1>13, <1>n DEF vars, TypeOK, Control, input, memory, flags, file
<1> QED
  BY <1>1, <1>2, <1>3, <1>4, <1>5, <1>6, <1>7, <1>8, <1>9, <1>10, <1>11, <1>12, <1>13 DEF Next

\* Every reachable state is well typed: no counter passes its limit and no record
\* or memory entry names a space outside 0 .. next_id - 1, whatever replies arrive.
THEOREM TypeCorrect == ASSUME ConstantsOK PROVE Spec => []TypeOK
<1>1. Init => TypeInv
  BY TypeInit
<1>2. TypeInv /\ [Next]_vars => TypeInv'
  BY TypeStep
<1>3. TypeInv => TypeOK
  BY DEF TypeInv
<1> QED
  BY <1>1, <1>2, <1>3, PTL DEF Spec

-----------------------------------------------------------------------------
(* The reader.  What shape_metrics.py derives for a unit depends only on   *)
(* the records up to it: the last record counts, or the space carried over *)
(* when the unit has none.                                                 *)
LEMMA NoRecordIsNone == NoRecord \notin Records
BY DEF NoRecord, Records, Decisions

LEMMA CarriedOver ==
  ASSUME NEW recs, NEW i \in Nat \ {0}, recs[i] = NoRecord
  PROVE  SpaceIdAt(recs, i) = SpaceIdAt(recs, i - 1)
<1>1. Recorded(recs, i) = Recorded(recs, i - 1)
  BY DEF Recorded
<1> QED
  BY <1>1 DEF SpaceIdAt

LEMMA LastRecordCounts ==
  ASSUME NEW recs, NEW i \in Nat \ {0}, recs[i] \in Records
  PROVE  SpaceIdAt(recs, i) = recs[i].active
<1>1. i \in Recorded(recs, i)
  BY NoRecordIsNone DEF Recorded
<1>2. \A k \in Recorded(recs, i) : k \in 1 .. i /\ k <= i
  BY DEF Recorded
<1>3. Last(Recorded(recs, i)) = i
  <2> DEFINE S == Recorded(recs, i)
  <2>1. \E j \in S : \A k \in S : k <= j
    BY <1>1, <1>2
  <2>2. Last(S) \in S /\ \A k \in S : k <= Last(S)
    BY <2>1 DEF Last
  <2>3. i <= Last(S) /\ Last(S) <= i /\ Last(S) \in 1 .. i
    BY <1>1, <1>2, <2>2
  <2> HIDE DEF S
  <2>4. Last(S) = i
    BY <2>3
  <2> QED
    BY <2>4 DEF S
<1> QED
  BY <1>1, <1>3 DEF SpaceIdAt

\* A list of records has a last one.  (Over finite data this always holds, but it
\* takes an induction; here it is carried along with the loop instead.)
HasLast(recs, i) ==
  Recorded(recs, i) # {} =>
    \E j \in Recorded(recs, i) : \A k \in Recorded(recs, i) : k <= j

LEMMA OnlyThePastCounts ==
  ASSUME NEW recs, NEW recs2, NEW i \in Nat, \A j \in 1 .. i : recs2[j] = recs[j],
         HasLast(recs, i)
  PROVE  SpaceIdAt(recs2, i) = SpaceIdAt(recs, i) /\ HasLast(recs2, i)
<1>1. Recorded(recs2, i) = Recorded(recs, i)
  BY DEF Recorded
<1>2. CASE Recorded(recs, i) = {}
  BY <1>1, <1>2 DEF SpaceIdAt, HasLast
<1>3. CASE Recorded(recs, i) # {}
  <2> DEFINE S == Recorded(recs, i)
  <2>1. SpaceIdAt(recs, i) = recs[Last(S)].active /\ SpaceIdAt(recs2, i) = recs2[Last(S)].active
    BY <1>1, <1>3 DEF SpaceIdAt
  <2>2. Last(S) \in S
    BY <1>3 DEF HasLast, Last
  <2>3. S \subseteq 1 .. i
    BY DEF Recorded
  <2> QED
    BY <1>1, <2>1, <2>2, <2>3 DEF HasLast
<1> QED
  BY <1>2, <1>3

\* The inductive invariant behind ReaderAgrees.
ReaderInv == TypeInv /\ ReaderAgrees /\ HasLast(records, idx - 1)

\* Labelling a chunk moves reader and memory to the same space.
LEMMA LabelKeepsReader ==
  ASSUME ConstantsOK, ReaderInv, idx <= N, UNCHANGED input,
         NEW reply \in Replies, Label(reply)
  PROVE  ReaderAgrees' /\ HasLast(records, idx - 1)'
<1>0. N \in Nat /\ idx \in 1 .. N /\ idx \in Nat \ {0} /\ N' = N
  BY LengthOfFile DEF ReaderInv, TypeInv, TypeOK, ConstantsOK, input, N
<1>1. PICK next \in 1 .. idx + 1, cur \in 0 .. idx :
         /\ idx' = idx + 1
         /\ current_space_id' = cur
         /\ records'[idx] \in Records
         /\ records'[idx].active = cur
         /\ \A i \in 1 .. N : i # idx => records'[i] = records[i]
  BY LabelEffect DEF ReaderInv, TypeInv
<1>2. (idx - 1)' = idx
  BY <1>0, <1>1
<1>3. SpaceIdAt(records', idx) = cur
  BY <1>0, <1>1, LastRecordCounts
<1>4. \A i \in idx + 1 .. N : records'[i] = NoRecord
  BY <1>0, <1>1 DEF ReaderInv, ReaderAgrees
<1>5. HasLast(records', idx)
  <2>1. idx \in Recorded(records', idx)
    BY <1>0, <1>1, NoRecordIsNone DEF Recorded
  <2>2. \A k \in Recorded(records', idx) : k <= idx
    BY <1>0 DEF Recorded
  <2> QED
    BY <2>1, <2>2 DEF HasLast
<1> QED
  BY <1>0, <1>1, <1>2, <1>3, <1>4, <1>5 DEF ReaderAgrees

LEMMA ReaderStep == ASSUME ConstantsOK, ReaderInv, [Next]_vars PROVE ReaderInv'
<1>0. TypeInv'
  BY TypeStep DEF ReaderInv
<1>1. N \in Nat /\ idx \in 1 .. N + 1
  BY LengthOfFile DEF ReaderInv, TypeInv, TypeOK, ConstantsOK
<1>2. CASE Load
  <2>1. idx' = 1 /\ current_space_id' = 0 /\ records' = [i \in 1 .. N |-> NoRecord] /\ N' = N
    BY <1>2 DEF Load, input, N
  <2>2. Recorded(records', 0) = {}
    BY DEF Recorded
  <2>3. (idx - 1)' = 0
    BY <2>1
  <2> QED
    BY <1>0, <1>1, <2>1, <2>2, <2>3 DEF ReaderInv, ReaderAgrees, SpaceIdAt, HasLast
<1>3. CASE SkipChunk
  <2>1. /\ idx' = idx + 1 /\ records' = records /\ current_space_id' = current_space_id
        /\ N' = N /\ idx <= N
    BY <1>3 DEF SkipChunk, input, N, memory
  <2>2. records[idx] = NoRecord
    BY <1>1, <2>1 DEF ReaderInv, ReaderAgrees
  <2>3. SpaceIdAt(records, idx) = SpaceIdAt(records, idx - 1)
    BY <1>1, <2>2, CarriedOver
  <2>4. Recorded(records, idx) = Recorded(records, idx - 1)
    BY <1>1, <2>2 DEF Recorded
  <2>5. (idx - 1)' = idx
    BY <1>1, <2>1
  <2>6. ReaderAgrees'
    BY <1>1, <2>1, <2>3, <2>5 DEF ReaderInv, ReaderAgrees
  <2>7. HasLast(records', idx)
    BY <2>1, <2>4 DEF ReaderInv, HasLast
  <2> QED
    BY <1>0, <2>5, <2>6, <2>7 DEF ReaderInv
<1>4. CASE TagWithoutLLM
  <2> DEFINE b == TriggersFound(idx) /\ last_was_h1_h4
             reply == [decision |-> IF b THEN "MAINTAIN" ELSE "NEW", target |-> NoId,
                       def |-> IF b THEN "none" ELSE "object"]
  <2>1. reply \in Replies
    BY OwnReply
  <2>2. idx <= N /\ UNCHANGED input /\ Label(reply)
    BY <1>4 DEF TagWithoutLLM
  <2> HIDE DEF reply
  <2> QED
    BY <1>0, <2>1, <2>2, LabelKeepsReader DEF ReaderInv
<1>5. CASE ReplyArrives
  <2>1. PICK reply \in Replies : Label(reply)
    BY <1>5 DEF ReplyArrives
  <2>2. idx <= N /\ UNCHANGED input
    BY <1>5 DEF ReplyArrives, ReaderInv, TypeInv, Control
  <2> QED
    BY <1>0, <2>1, <2>2, LabelKeepsReader DEF ReaderInv
<1>6. CASE UNCHANGED <<input, idx, memory, records>>
  BY <1>0, <1>6 DEF ReaderInv, ReaderAgrees, HasLast, SpaceIdAt, Recorded, input, memory, N
<1> QED
  BY <1>2, <1>3, <1>4, <1>5, <1>6
     DEF Next, vars, LoadFails, BuildPrompt, BuildPromptFails, ApiCallFails, ReplyUnusable,
         OpenOutput, WriteOutput, WriteFails

LEMMA ReaderInit == ASSUME ConstantsOK PROVE Init => ReaderInv
<1> SUFFICES ASSUME Init PROVE ReaderInv
  OBVIOUS
<1>1. TypeInv
  BY TypeInit
<1>2. idx = 1 /\ current_space_id = 0 /\ records = [i \in 1 .. N |-> NoRecord] /\ idx - 1 = 0
  BY DEF Init, EmptyMemory
<1>3. Recorded(records, 0) = {}
  BY DEF Recorded
<1> QED
  BY <1>1, <1>2, <1>3 DEF ReaderInv, ReaderAgrees, SpaceIdAt, HasLast

\* At every step of every attempt the space that shape_metrics.py carries over the
\* chunks labelled so far is the current space of the memory, and the chunks ahead
\* hold nothing from an attempt that failed.
THEOREM ReaderCorrect == ASSUME ConstantsOK PROVE Spec => []ReaderAgrees
<1>1. Init => ReaderInv
  BY ReaderInit
<1>2. ReaderInv /\ [Next]_vars => ReaderInv'
  BY ReaderStep
<1>3. ReaderInv => ReaderAgrees
  BY DEF ReaderInv
<1> QED
  BY <1>1, <1>2, <1>3, PTL DEF Spec

-----------------------------------------------------------------------------
(* Grounded is inductive once no record names a space that is not there.   *)
Known == \A i \in 1 .. idx - 1 : records[i].active \in 0 .. next_id - 1

GroundedInv == ReaderInv /\ Grounded /\ Known

\* Labelling a chunk keeps the records grounded: a new space takes the next id, and
\* any other record names a space that some record opened.
LEMMA LabelKeepsGrounded ==
  ASSUME ConstantsOK, GroundedInv, idx <= N, UNCHANGED input,
         NEW reply \in Replies, Label(reply)
  PROVE  Grounded' /\ Known'
<1> DEFINE opening == {i \in 1 .. idx - 1 : Opens(records, i)}
           opening2 == {i \in 1 .. idx : Opens(records', i)}
<1>0. N \in Nat /\ idx \in 1 .. N /\ next_id \in 1 .. idx /\ current_space_id \in 0 .. next_id - 1
  BY LengthOfFile DEF GroundedInv, ReaderInv, TypeInv, TypeOK, ConstantsOK
<1>1. /\ idx' = idx + 1 /\ next_id' \in {next_id, next_id + 1}
      /\ current_space_id' \in 0 .. next_id' - 1
      /\ \A k \in 0 .. next_id - 1 : spaces'[k] = spaces[k]
      /\ records'[idx].active = current_space_id'
      /\ \A i \in 1 .. N : i # idx => records'[i] = records[i]
  BY <1>0, LabelEffect DEF GroundedInv, ReaderInv, TypeInv
<1>2. records'[idx] = [decision |-> reply.decision, active |-> current_space_id',
                       def |-> IF reply.decision = "NEW" THEN reply.def ELSE "none"]
  BY <1>0 DEF Label, GroundedInv, ReaderInv, TypeInv, TypeOK
<1>3. /\ \A k \in 1 .. next_id - 1 : \E i \in opening :
           records[i].active = k /\ records[i].def = spaces[k]
      /\ \A i, j \in opening : i < j => records[i].active < records[j].active
      /\ \A i \in 1 .. idx - 1 : records[i].active > 0 =>
           \E j \in opening : j <= i /\ records[j].active = records[i].active
  BY DEF GroundedInv, Grounded
<1>4. \A i \in 1 .. idx - 1 : /\ records'[i] = records[i]
                              /\ records[i].active \in 0 .. next_id - 1
                              /\ i \in opening <=> i \in opening2
  BY <1>0, <1>1 DEF GroundedInv, Known, Opens
<1>5. Known'
  <2> SUFFICES ASSUME NEW i \in 1 .. idx PROVE records'[i].active \in 0 .. next_id' - 1
    BY <1>0, <1>1 DEF Known
  <2>1. CASE i = idx
    BY <1>1, <2>1
  <2>2. CASE i # idx
    BY <1>0, <1>1, <1>4, <2>2
  <2> QED
    BY <2>1, <2>2
<1>6. idx \in opening2 <=> reply.decision = "NEW" /\ reply.def # "none"
  BY <1>0, <1>2 DEF Opens
<1>7. CASE reply.decision = "NEW" /\ reply.def # "none"
  <2>1. /\ current_space_id' = next_id /\ next_id' = next_id + 1
        /\ spaces' = [id \in DOMAIN spaces \cup {next_id} |->
                        IF id = next_id THEN reply.def ELSE spaces[id]]
    BY <1>7 DEF Label, Transition
  <2>2. spaces'[next_id] = reply.def
    BY <2>1
  <2>3. idx \in opening2 /\ records'[idx].active = next_id /\ records'[idx].def = spaces'[next_id]
    BY <1>2, <1>6, <1>7, <2>1, <2>2
  <2>4. \A k \in 1 .. next_id' - 1 : \E i \in opening2 :
          records'[i].active = k /\ records'[i].def = spaces'[k]
    <3>0. 1 .. next_id' - 1 = 1 .. next_id
      BY <1>0, <2>1
    <3> SUFFICES ASSUME NEW k \in 1 .. next_id
                 PROVE  \E i \in opening2 : records'[i].active = k /\ records'[i].def = spaces'[k]
      BY <3>0
    <3>1. CASE k = next_id
      BY <2>3, <3>1
    <3>2. CASE k # next_id
      <4>1. k \in 1 .. next_id - 1 /\ k \in 0 .. next_id - 1
        BY <1>0, <3>2
      <4>2. PICK i \in opening : records[i].active = k /\ records[i].def = spaces[k]
        BY <1>3, <4>1
      <4> QED
        BY <1>1, <1>4, <4>1, <4>2
    <3> QED
      BY <3>1, <3>2
  <2>5. \A i, j \in opening2 : i < j => records'[i].active < records'[j].active
    <3> SUFFICES ASSUME NEW i \in opening2, NEW j \in opening2, i < j
                 PROVE  records'[i].active < records'[j].active
      OBVIOUS
    <3>1. i \in 1 .. idx - 1 /\ i \in opening
      BY <1>0, <1>4
    <3>2. CASE j = idx
      BY <1>0, <1>4, <2>3, <3>1, <3>2
    <3>3. CASE j # idx
      <4>1. j \in 1 .. idx - 1 /\ j \in opening
        BY <1>0, <1>4, <3>3
      <4> QED
        BY <1>3, <1>4, <3>1, <4>1
    <3> QED
      BY <3>2, <3>3
  <2>6. \A i \in 1 .. idx : records'[i].active > 0 =>
          \E j \in opening2 : j <= i /\ records'[j].active = records'[i].active
    <3> SUFFICES ASSUME NEW i \in 1 .. idx, records'[i].active > 0
                 PROVE  \E j \in opening2 : j <= i /\ records'[j].active = records'[i].active
      OBVIOUS
    <3>1. CASE i = idx
      BY <1>0, <2>3, <3>1
    <3>2. CASE i # idx
      <4>1. i \in 1 .. idx - 1 /\ records[i].active > 0
        BY <1>0, <1>4, <3>2
      <4>2. PICK j \in opening : j <= i /\ records[j].active = records[i].active
        BY <1>3, <4>1
      <4> QED
        BY <1>4, <4>1, <4>2
    <3> QED
      BY <3>1, <3>2
  <2>7. 1 .. (idx - 1)' = 1 .. idx
    BY <1>0, <1>1
  <2> QED
    BY <1>5, <2>4, <2>5, <2>6, <2>7 DEF Grounded
<1>8. CASE ~(reply.decision = "NEW" /\ reply.def # "none")
  <2>1. next_id' = next_id
    BY <1>8 DEF Label, Transition, memory
  <2>2. opening2 = opening
    BY <1>0, <1>4, <1>6, <1>8
  <2>3. \A i \in opening : records'[i] = records[i]
    BY <1>4
  <2>4. \A k \in 1 .. next_id' - 1 : \E i \in opening2 :
          records'[i].active = k /\ records'[i].def = spaces'[k]
    <3> SUFFICES ASSUME NEW k \in 1 .. next_id - 1
                 PROVE  \E i \in opening : records'[i].active = k /\ records'[i].def = spaces'[k]
      BY <2>1, <2>2
    <3>1. k \in 0 .. next_id - 1
      BY <1>0
    <3>2. PICK i \in opening : records[i].active = k /\ records[i].def = spaces[k]
      BY <1>3
    <3> QED
      BY <1>1, <2>3, <3>1, <3>2
  <2>5. \A i, j \in opening2 : i < j => records'[i].active < records'[j].active
    BY <1>3, <2>2, <2>3
  <2>6. \A i \in 1 .. idx : records'[i].active > 0 =>
          \E j \in opening2 : j <= i /\ records'[j].active = records'[i].active
    <3> SUFFICES ASSUME NEW i \in 1 .. idx, records'[i].active > 0
                 PROVE  \E j \in opening : j <= i /\ records'[j].active = records'[i].active
      BY <2>2
    <3>1. CASE i = idx
      <4>1. records'[i].active \in 1 .. next_id - 1
        BY <1>0, <1>1, <2>1, <3>1
      <4>2. PICK j \in opening : records[j].active = records'[i].active
        BY <1>3, <4>1
      <4> QED
        BY <1>0, <2>3, <3>1, <4>2
    <3>2. CASE i # idx
      <4>1. i \in 1 .. idx - 1 /\ records[i].active > 0
        BY <1>0, <1>4, <3>2
      <4>2. PICK j \in opening : j <= i /\ records[j].active = records[i].active
        BY <1>3, <4>1
      <4> QED
        BY <1>4, <2>3, <4>1, <4>2
    <3> QED
      BY <3>1, <3>2
  <2>7. 1 .. (idx - 1)' = 1 .. idx
    BY <1>0, <1>1
  <2> QED
    BY <1>5, <2>4, <2>5, <2>6, <2>7 DEF Grounded
<1> QED
  BY <1>7, <1>8

LEMMA GroundedStep == ASSUME ConstantsOK, GroundedInv, [Next]_vars PROVE GroundedInv'
<1>0. ReaderInv'
  BY ReaderStep DEF GroundedInv
<1>1. N \in Nat /\ idx \in 1 .. N + 1 /\ next_id \in 1 .. idx
  BY LengthOfFile DEF GroundedInv, ReaderInv, TypeInv, TypeOK, ConstantsOK
<1>2. CASE Load
  <2>1. idx' = 1 /\ next_id' = 1
    BY <1>2 DEF Load
  <2>2. 1 .. (idx - 1)' = {} /\ 1 .. (next_id - 1)' = {}
    BY <2>1
  <2> QED
    BY <1>0, <2>2 DEF GroundedInv, Grounded, Known
<1>3. CASE SkipChunk
  <2>1. /\ idx' = idx + 1 /\ records' = records /\ UNCHANGED memory /\ idx <= N /\ idx \in 1 .. N
        /\ spaces' = spaces /\ next_id' = next_id
    BY <1>1, <1>3 DEF SkipChunk, memory
  <2>2. records[idx] = NoRecord
    BY <2>1 DEF GroundedInv, ReaderInv, ReaderAgrees
  <2>3. records[idx].active = 0 /\ ~Opens(records, idx)
    BY <2>2 DEF NoRecord, Opens
  <2>4. {i \in 1 .. idx : Opens(records, i)} = {i \in 1 .. idx - 1 : Opens(records, i)}
    BY <1>1, <2>3
  <2>5. 1 .. (idx - 1)' = 1 .. idx
    BY <2>1
  <2>6. \A i \in 1 .. idx : i \in 1 .. idx - 1 \/ records[i].active = 0
    BY <1>1, <2>3
  <2>7. Known'
    BY <1>1, <2>1, <2>5, <2>6 DEF GroundedInv, Known
  <2>8. {i \in 1 .. (idx - 1)' : Opens(records', i)} = {i \in 1 .. idx - 1 : Opens(records, i)}
    BY <2>1, <2>4, <2>5
  <2>9. \A i \in 1 .. (idx - 1)' : records'[i].active > 0 => i \in 1 .. idx - 1
    BY <2>1, <2>5, <2>6
  <2>10. Grounded'
    BY <2>1, <2>8, <2>9 DEF GroundedInv, Grounded
  <2> QED
    BY <1>0, <2>7, <2>10 DEF GroundedInv
<1>4. CASE TagWithoutLLM
  <2> DEFINE b == TriggersFound(idx) /\ last_was_h1_h4
             reply == [decision |-> IF b THEN "MAINTAIN" ELSE "NEW", target |-> NoId,
                       def |-> IF b THEN "none" ELSE "object"]
  <2>1. reply \in Replies
    BY OwnReply
  <2>2. idx <= N /\ UNCHANGED input /\ Label(reply)
    BY <1>4 DEF TagWithoutLLM
  <2> HIDE DEF reply
  <2> QED
    BY <1>0, <2>1, <2>2, LabelKeepsGrounded DEF GroundedInv
<1>5. CASE ReplyArrives
  <2>1. PICK reply \in Replies : Label(reply)
    BY <1>5 DEF ReplyArrives
  <2>2. idx <= N /\ UNCHANGED input
    BY <1>5 DEF ReplyArrives, GroundedInv, ReaderInv, TypeInv, Control
  <2> QED
    BY <1>0, <2>1, <2>2, LabelKeepsGrounded DEF GroundedInv
<1>6. CASE UNCHANGED <<idx, memory, records>>
  BY <1>0, <1>6 DEF GroundedInv, Grounded, Known, Opens, memory
<1> QED
  BY <1>2, <1>3, <1>4, <1>5, <1>6
     DEF Next, vars, LoadFails, BuildPrompt, BuildPromptFails, ApiCallFails, ReplyUnusable,
         OpenOutput, WriteOutput, WriteFails

\* Every space but the first was opened by exactly one record, with its definition and
\* in the order of the ids, and no record names a space before the one that opened it.
THEOREM GroundedAlways == ASSUME ConstantsOK PROVE Spec => []Grounded
<1>1. Init => GroundedInv
  <2> SUFFICES ASSUME Init PROVE GroundedInv
    OBVIOUS
  <2>1. ReaderInv
    BY ReaderInit
  <2>2. idx = 1 /\ next_id = 1
    BY DEF Init, EmptyMemory
  <2>3. 1 .. idx - 1 = {} /\ 1 .. next_id - 1 = {}
    BY <2>2
  <2> QED
    BY <2>1, <2>3 DEF GroundedInv, Grounded, Known
<1>2. GroundedInv /\ [Next]_vars => GroundedInv'
  BY GroundedStep
<1>3. GroundedInv => Grounded
  BY DEF GroundedInv
<1> QED
  BY <1>1, <1>2, <1>3, PTL DEF Spec

-----------------------------------------------------------------------------
(* The output.  The records up to the chunk at hand are what the tags call *)
(* for; the two flags say what the chunks before it were.                  *)
LabelledUpTo(n) == \A i \in 1 .. n : records[i] # NoRecord <=> ShouldTrigger(i)

SeenUpTo(n) == has_seen_any_heuristic <=> \E j \in 1 .. n : HasHTag(j)

StartsRun(i) == \/ TriggersFound(i) /\ (i = 1 \/ ~TriggersFound(i - 1))
                \/ HasHTag(i) /\ ~TriggersFound(i) /\ \A j \in 1 .. i - 1 : ~HasHTag(j)

RunsUpTo(n) == without_llm => \A i \in 1 .. n : records[i].decision = "NEW" <=> StartsRun(i)

InRun(n) == without_llm => (last_was_h1_h4 <=> n > 0 /\ TriggersFound(n))

RecordsInv == /\ pc \in {"chunk", "ask", "write"} => LabelledUpTo(idx - 1) /\ RunsUpTo(idx - 1)
              /\ pc = "chunk" => SeenUpTo(idx - 1) /\ InRun(idx - 1)
              /\ pc = "ask" => SeenUpTo(idx) /\ ShouldTrigger(idx) /\ ~without_llm
              /\ pc # "done" => saved = <<>> /\ output # "whole"

OutputInv == ReaderInv /\ RecordsInv /\ OutputComplete /\ SpacePerRun

\* What a chunk calls for depends on the file and the mode alone.
LEMMA TagsStay ==
  ASSUME UNCHANGED input
  PROVE  /\ N' = N
         /\ \A i : /\ HasHTag(i)' <=> HasHTag(i)
                   /\ TriggersFound(i)' <=> TriggersFound(i)
                   /\ ShouldTrigger(i)' <=> ShouldTrigger(i)
                   /\ StartsRun(i)' <=> StartsRun(i)
BY DEF input, N, HasHTag, TriggersFound, ShouldTrigger, StartsRun, ActiveTriggers

\* The program triggers where the tags call for it.
LEMMA TriggeredWhereDue ==
  ASSUME SeenUpTo(idx - 1)
  PROVE  Triggered(idx) <=> ShouldTrigger(idx)
BY DEF SeenUpTo, Triggered, ShouldTrigger, TriggersFound, FirstHeuristic

\* Labelling the chunk at hand, where a label is due, carries the records one further.
LEMMA LabelKeepsRecorded ==
  ASSUME ConstantsOK, OutputInv, pc \in {"chunk", "ask"}, idx <= N, UNCHANGED input,
         ShouldTrigger(idx), NEW reply \in Replies, Label(reply),
         without_llm => (reply.decision = "NEW" <=> StartsRun(idx))
  PROVE  LabelledUpTo(idx - 1)' /\ RunsUpTo(idx - 1)' /\ idx' = idx + 1
<1>0. N \in Nat /\ idx \in 1 .. N
  BY LengthOfFile DEF OutputInv, ReaderInv, TypeInv, TypeOK, ConstantsOK
<1>1. /\ idx' = idx + 1 /\ records'[idx] \in Records
      /\ \A i \in 1 .. N : i # idx => records'[i] = records[i]
  BY <1>0, LabelEffect DEF OutputInv, ReaderInv, TypeInv
<1>2. records'[idx].decision = reply.decision
  BY <1>0 DEF Label, OutputInv, ReaderInv, TypeInv, TypeOK
<1>3. (idx - 1)' = idx
  BY <1>0, <1>1
<1>4. LabelledUpTo(idx - 1) /\ RunsUpTo(idx - 1)
  BY DEF OutputInv, RecordsInv
<1>5. SUFFICES ASSUME NEW i \in 1 .. idx
               PROVE  /\ records'[i] # NoRecord <=> ShouldTrigger(i)
                      /\ without_llm => (records'[i].decision = "NEW" <=> StartsRun(i))
  BY <1>1, <1>3, TagsStay DEF LabelledUpTo, RunsUpTo, input
<1>6. CASE i = idx
  BY <1>1, <1>2, <1>6, NoRecordIsNone
<1>7. CASE i # idx
  <2>1. i \in 1 .. idx - 1 /\ records'[i] = records[i]
    BY <1>0, <1>1, <1>7
  <2> QED
    BY <1>4, <2>1 DEF LabelledUpTo, RunsUpTo
<1> QED
  BY <1>6, <1>7

LEMMA OutputStep == ASSUME ConstantsOK, OutputInv, [Next]_vars PROVE OutputInv'
<1>0. ReaderInv'
  BY ReaderStep DEF OutputInv
<1>1. N \in Nat /\ idx \in 1 .. N + 1
  BY LengthOfFile DEF OutputInv, ReaderInv, TypeInv, TypeOK, ConstantsOK
<1>f. ASSUME UNCHANGED <<input, file>> PROVE OutputComplete' /\ SpacePerRun'
  BY <1>f, TagsStay DEF OutputInv, OutputComplete, SpacePerRun, input, file, StartsRun
<1>u. ASSUME UNCHANGED <<input, idx, records>>
      PROVE  (LabelledUpTo(idx - 1))' = LabelledUpTo(idx - 1) /\ RunsUpTo(idx - 1)' = RunsUpTo(idx - 1)
  BY <1>u, TagsStay DEF LabelledUpTo, RunsUpTo, input
<1>2. CASE Load
  <2>1. UNCHANGED <<input, file>> /\ idx' = 1 /\ pc' = "chunk" /\ pc = "load"
        /\ ~has_seen_any_heuristic' /\ ~last_was_h1_h4'
    BY <1>2 DEF Load
  <2>2. (idx - 1)' = 0 /\ 1 .. 0 = {}
    BY <2>1
  <2>3. LabelledUpTo(idx - 1)' /\ RunsUpTo(idx - 1)' /\ SeenUpTo(idx - 1)' /\ InRun(idx - 1)'
    BY <2>1, <2>2 DEF LabelledUpTo, RunsUpTo, SeenUpTo, InRun
  <2> QED
    BY <1>0, <1>f, <2>1, <2>3 DEF OutputInv, RecordsInv, file
<1>3. CASE SkipChunk
  <2>1. /\ UNCHANGED <<input, file, records, pc, has_seen_any_heuristic>> /\ idx' = idx + 1
        /\ pc = "chunk" /\ ~Triggered(idx) /\ ~last_was_h1_h4' /\ idx \in 1 .. N
    BY <1>1, <1>3 DEF SkipChunk
  <2>2. SeenUpTo(idx - 1) /\ InRun(idx - 1) /\ LabelledUpTo(idx - 1) /\ RunsUpTo(idx - 1)
    BY <2>1 DEF OutputInv, RecordsInv
  <2>3. ~ShouldTrigger(idx)
    BY <2>1, <2>2, TriggeredWhereDue
  <2>4. records[idx] = NoRecord
    BY <2>1 DEF OutputInv, ReaderInv, ReaderAgrees
  <2>5. (idx - 1)' = idx /\ \A i \in 1 .. idx : i \in 1 .. idx - 1 \/ i = idx
    BY <2>1
  <2>6. LabelledUpTo(idx - 1)'
    BY <2>1, <2>2, <2>3, <2>4, <2>5, TagsStay DEF LabelledUpTo
  <2>7. ~TriggersFound(idx) /\ ~StartsRun(idx)
    BY <2>3 DEF ShouldTrigger, StartsRun, TriggersFound
  <2>8. RunsUpTo(idx - 1)'
    BY <2>1, <2>2, <2>4, <2>5, <2>7, TagsStay DEF RunsUpTo, NoRecord, input
  <2>9. HasHTag(idx) => \E j \in 1 .. idx - 1 : HasHTag(j)
    BY <2>3 DEF ShouldTrigger
  <2>10. SeenUpTo(idx - 1)'
    BY <2>1, <2>2, <2>5, <2>9, TagsStay DEF SeenUpTo
  <2>11. InRun(idx - 1)'
    BY <2>1, <2>5, <2>7, TagsStay DEF InRun
  <2> QED
    BY <1>0, <1>f, <2>1, <2>6, <2>8, <2>10, <2>11 DEF OutputInv, RecordsInv, file
<1>4. CASE TagWithoutLLM
  <2> DEFINE b == TriggersFound(idx) /\ last_was_h1_h4
             reply == [decision |-> IF b THEN "MAINTAIN" ELSE "NEW", target |-> NoId,
                       def |-> IF b THEN "none" ELSE "object"]
  <2>1. reply \in Replies /\ (reply.decision = "NEW" <=> ~b)
    BY OwnReply
  <2>2. /\ idx <= N /\ UNCHANGED input /\ Label(reply) /\ pc = "chunk" /\ without_llm
        /\ UNCHANGED <<pc, file>> /\ Triggered(idx)
        /\ has_seen_any_heuristic' = (has_seen_any_heuristic \/ HasHTag(idx))
        /\ last_was_h1_h4' = TriggersFound(idx)
    BY <1>4 DEF TagWithoutLLM
  <2>3. SeenUpTo(idx - 1) /\ InRun(idx - 1)
    BY <2>2 DEF OutputInv, RecordsInv
  <2>4. ShouldTrigger(idx)
    BY <2>2, <2>3, TriggeredWhereDue
  <2>5. b <=> TriggersFound(idx) /\ idx > 1 /\ TriggersFound(idx - 1)
    BY <1>1, <2>2, <2>3 DEF InRun
  <2>6. ~b <=> StartsRun(idx)
    <3>1. CASE TriggersFound(idx)
      BY <1>1, <2>5, <3>1 DEF StartsRun
    <3>2. CASE ~TriggersFound(idx)
      BY <2>4, <2>5, <3>2 DEF StartsRun, ShouldTrigger, TriggersFound
    <3> QED
      BY <3>1, <3>2
  <2> HIDE DEF reply
  <2>7. LabelledUpTo(idx - 1)' /\ RunsUpTo(idx - 1)' /\ idx' = idx + 1
    BY <2>1, <2>2, <2>4, <2>6, LabelKeepsRecorded
  <2>8. (idx - 1)' = idx /\ idx > 0 /\ \A i : i \in 1 .. idx <=> i \in 1 .. idx - 1 \/ i = idx
    BY <1>1, <2>7
  <2>9. SeenUpTo(idx - 1)'
    BY <2>2, <2>3, <2>8, TagsStay DEF SeenUpTo
  <2>10. InRun(idx - 1)'
    BY <2>2, <2>8, TagsStay DEF InRun
  <2> QED
    BY <1>0, <1>f, <2>2, <2>7, <2>9, <2>10 DEF OutputInv, RecordsInv, file
<1>5. CASE BuildPrompt
  <2>1. /\ UNCHANGED <<input, idx, records, file>> /\ pc = "chunk" /\ pc' = "ask"
        /\ Triggered(idx) /\ idx \in 1 .. N /\ ~without_llm
        /\ has_seen_any_heuristic' = (has_seen_any_heuristic \/ HasHTag(idx))
    BY <1>1, <1>5 DEF BuildPrompt
  <2>2. SeenUpTo(idx - 1) /\ LabelledUpTo(idx - 1) /\ RunsUpTo(idx - 1)
    BY <2>1 DEF OutputInv, RecordsInv
  <2>3. ShouldTrigger(idx)
    BY <2>1, <2>2, TriggeredWhereDue
  <2>4. \A i : i \in 1 .. idx <=> i \in 1 .. idx - 1 \/ i = idx
    BY <2>1
  <2>5. SeenUpTo(idx)'
    BY <2>1, <2>2, <2>4, TagsStay DEF SeenUpTo
  <2>6. ShouldTrigger(idx)' /\ ~without_llm'
    BY <2>1, <2>3, TagsStay DEF input
  <2> QED
    BY <1>0, <1>f, <1>u, <2>1, <2>2, <2>5, <2>6 DEF OutputInv, RecordsInv, file
<1>6. CASE ReplyArrives
  <2>1. PICK reply \in Replies : Label(reply)
    BY <1>6 DEF ReplyArrives
  <2>2. /\ idx <= N /\ UNCHANGED <<input, file, has_seen_any_heuristic>> /\ pc = "ask"
        /\ pc' = "chunk"
    BY <1>6 DEF ReplyArrives, OutputInv, ReaderInv, TypeInv, Control, flags
  <2>3. SeenUpTo(idx) /\ ShouldTrigger(idx) /\ ~without_llm
    BY <2>2 DEF OutputInv, RecordsInv
  <2>4. LabelledUpTo(idx - 1)' /\ RunsUpTo(idx - 1)' /\ idx' = idx + 1
    BY <2>1, <2>2, <2>3, LabelKeepsRecorded
  <2>5. (idx - 1)' = idx
    BY <1>1, <2>4
  <2>6. SeenUpTo(idx - 1)' /\ InRun(idx - 1)'
    BY <2>2, <2>3, <2>5, TagsStay DEF SeenUpTo, InRun, input
  <2> QED
    BY <1>0, <1>f, <2>2, <2>4, <2>6 DEF OutputInv, RecordsInv, file
<1>7. CASE ApiCallFails /\ pc' = "ask"
  <2>1. UNCHANGED <<input, idx, records, file, flags>> /\ pc = "ask"
    BY <1>7 DEF ApiCallFails
  <2>2. SeenUpTo(idx)' /\ ShouldTrigger(idx)' /\ ~without_llm'
    BY <2>1, TagsStay DEF OutputInv, RecordsInv, SeenUpTo, input, flags
  <2> QED
    BY <1>0, <1>7, <1>f, <1>u, <2>1, <2>2 DEF OutputInv, RecordsInv, file
<1>8. CASE LoadFails \/ BuildPromptFails \/ ReplyUnusable \/ (ApiCallFails /\ pc' # "ask")
  <2>1. UNCHANGED <<input, file>> /\ pc' \in {"load", "gaveup"} /\ pc # "done"
    BY <1>8 DEF LoadFails, BuildPromptFails, ApiCallFails, ReplyUnusable, AttemptFails
  <2> QED
    BY <1>0, <1>f, <2>1 DEF OutputInv, RecordsInv, file
<1>9. CASE OpenOutput
  <2>1. UNCHANGED <<input, idx, records>> /\ pc = "chunk" /\ pc' = "write"
        /\ output' = "torn" /\ saved' = <<>>
    BY <1>9 DEF OpenOutput
  <2> QED
    BY <1>0, <1>u, <2>1 DEF OutputInv, RecordsInv, OutputComplete, SpacePerRun
<1>10. CASE WriteOutput
  <2>1. /\ UNCHANGED <<input, idx, records>> /\ pc = "write" /\ pc' = "done"
        /\ output' = "whole" /\ saved' = records
    BY <1>10 DEF WriteOutput
  <2>2. idx - 1 = N /\ DOMAIN records = 1 .. N
    BY <1>1, <2>1 DEF OutputInv, ReaderInv, TypeInv, TypeOK, Control
  <2>3. LabelledUpTo(N) /\ RunsUpTo(N)
    BY <2>1, <2>2 DEF OutputInv, RecordsInv
  <2>4. OutputComplete'
    BY <2>1, <2>2, <2>3, TagsStay DEF OutputComplete, LabelledUpTo
  <2>5. SpacePerRun'
    BY <2>1, <2>2, <2>3, TagsStay DEF SpacePerRun, RunsUpTo, StartsRun, input
  <2> QED
    BY <1>0, <2>1, <2>4, <2>5 DEF OutputInv, RecordsInv
<1>11. CASE WriteFails
  <2>1. UNCHANGED <<input, file>> /\ pc' \in {"load", "gaveup"} /\ pc # "done"
    BY <1>11 DEF WriteFails, AttemptFails
  <2> QED
    BY <1>0, <1>f, <2>1 DEF OutputInv, RecordsInv, file
<1>12. CASE UNCHANGED vars
  <2>1. UNCHANGED <<input, pc, idx, records, file, flags>>
    BY <1>12 DEF vars
  <2>2. SeenUpTo(idx)' = SeenUpTo(idx) /\ SeenUpTo(idx - 1)' = SeenUpTo(idx - 1)
        /\ InRun(idx - 1)' = InRun(idx - 1)
    BY <2>1, TagsStay DEF SeenUpTo, InRun, input, flags
  <2> QED
    BY <1>0, <1>f, <1>u, <2>1, <2>2, TagsStay DEF OutputInv, RecordsInv, file, input
<1> QED
  BY <1>2, <1>3, <1>4, <1>5, <1>6, <1>7, <1>8, <1>9, <1>10, <1>11, <1>12 DEF Next

LEMMA OutputInit == ASSUME ConstantsOK PROVE Init => OutputInv
<1> SUFFICES ASSUME Init PROVE OutputInv
  OBVIOUS
<1>1. pc = "load" /\ saved = <<>> /\ output = "absent"
  BY DEF Init
<1> QED
  BY <1>1, ReaderInit DEF OutputInv, RecordsInv, OutputComplete, SpacePerRun

\* A whole output has a record on exactly the chunks whose tags call for one, whatever
\* attempts failed before the one that wrote it.
THEOREM OutputCompleteAlways == ASSUME ConstantsOK PROVE Spec => []OutputComplete
<1>1. OutputInv /\ [Next]_vars => OutputInv'
  BY OutputStep
<1>2. OutputInv => OutputComplete
  BY DEF OutputInv
<1> QED
  BY <1>1, <1>2, OutputInit, PTL DEF Spec

\* In --without_llm mode a whole output opens one space per run of triggers.
THEOREM SpacePerRunAlways == ASSUME ConstantsOK PROVE Spec => []SpacePerRun
<1>1. OutputInv /\ [Next]_vars => OutputInv'
  BY OutputStep
<1>2. OutputInv => SpacePerRun
  BY DEF OutputInv
<1> QED
  BY <1>1, <1>2, OutputInit, PTL DEF Spec

-----------------------------------------------------------------------------
(* The walk.  The reader's spaces of the chunks labelled so far grow by    *)
(* one with every chunk, and the spaces of earlier chunks stay.            *)
AllHaveLast == \A i \in 1 .. idx - 1 : HasLast(records, i)

WalkInv == ReaderInv /\ AllHaveLast /\ (pc # "done" => saved = <<>>)

LEMMA NoTrail == ASSUME NEW recs PROVE SpaceIds(recs, 0) = <<>>
<1>1. 1 .. 0 = {}
  OBVIOUS
<1> QED
  BY <1>1 DEF SpaceIds

LEMMA TrailGrows ==
  ASSUME NEW recs, NEW recs2, NEW n \in Nat,
         \A i \in 1 .. n : SpaceIdAt(recs2, i) = SpaceIdAt(recs, i)
  PROVE  SpaceIds(recs2, n + 1) = Append(SpaceIds(recs, n), SpaceIdAt(recs2, n + 1))
<1> DEFINE s == SpaceIds(recs, n)
           t == SpaceIds(recs2, n + 1)
           e == SpaceIdAt(recs2, n + 1)
           S == {SpaceIdAt(recs2, i) : i \in 1 .. n + 1}
<1>1. s = [i \in 1 .. n |-> SpaceIdAt(recs2, i)] /\ t = [i \in 1 .. n + 1 |-> SpaceIdAt(recs2, i)]
  BY DEF SpaceIds
<1>2. /\ s \in [1 .. n -> S] /\ t \in [1 .. n + 1 -> S] /\ e \in S
      /\ \A i \in 1 .. n : t[i] = s[i]
      /\ t[n + 1] = e
  BY <1>1
<1> HIDE DEF s, t, e, S
<1>3. s \in Seq(S) /\ t \in Seq(S)
  BY <1>2, SeqDef
<1>4. Len(s) = n /\ Len(t) = n + 1
  BY <1>2, <1>3, LenProperties
<1>5. /\ Append(s, e) \in Seq(S) /\ Len(Append(s, e)) = n + 1
      /\ \A i \in 1 .. n : Append(s, e)[i] = s[i]
      /\ Append(s, e)[n + 1] = e
  BY <1>2, <1>3, <1>4, AppendProperties
<1>6. \A i \in 1 .. n + 1 : Append(s, e)[i] = t[i]
  <2> SUFFICES ASSUME NEW i \in 1 .. n + 1 PROVE Append(s, e)[i] = t[i]
    OBVIOUS
  <2>1. CASE i = n + 1
    BY <1>2, <1>5, <2>1
  <2>2. CASE i # n + 1
    <3>1. i \in 1 .. n
      BY <2>2
    <3> QED
      BY <1>2, <1>5, <3>1
  <2> QED
    BY <2>1, <2>2
<1>7. Append(s, e) = t
  BY <1>3, <1>4, <1>5, <1>6, SeqEqual
<1> QED
  BY <1>7 DEF s, t, e

\* A chunk that leaves earlier records as they are leaves their spaces, too.
LEMMA EarlierStay ==
  ASSUME WalkInv, idx \in Nat \ {0}, \A i \in 1 .. idx - 1 : records'[i] = records[i]
  PROVE  \A i \in 1 .. idx - 1 :
           SpaceIdAt(records', i) = SpaceIdAt(records, i) /\ HasLast(records', i)
<1> SUFFICES ASSUME NEW i \in 1 .. idx - 1
             PROVE  SpaceIdAt(records', i) = SpaceIdAt(records, i) /\ HasLast(records', i)
  OBVIOUS
<1>1. i \in Nat /\ \A j \in 1 .. i : j \in 1 .. idx - 1
  OBVIOUS
<1> QED
  BY <1>1, OnlyThePastCounts DEF WalkInv, AllHaveLast

\* Going on to the next chunk adds the current space to the trail.
LEMMA TrailStep ==
  ASSUME ConstantsOK, WalkInv, ReaderInv', idx <= N, idx' = idx + 1,
         \A i \in 1 .. idx - 1 : records'[i] = records[i]
  PROVE  /\ SpaceIds(records, idx - 1)' = Append(SpaceIds(records, idx - 1), current_space_id')
         /\ AllHaveLast'
<1>0. N \in Nat /\ idx \in 1 .. N
  BY LengthOfFile DEF WalkInv, ReaderInv, TypeInv, TypeOK, ConstantsOK
<1>1. \A i \in 1 .. idx - 1 :
        SpaceIdAt(records', i) = SpaceIdAt(records, i) /\ HasLast(records', i)
  BY <1>0, EarlierStay
<1>2. (idx - 1)' = idx /\ idx - 1 \in Nat /\ (idx - 1) + 1 = idx
  BY <1>0
<1>3. SpaceIdAt(records', idx) = current_space_id' /\ HasLast(records', idx)
  BY <1>2 DEF ReaderInv, ReaderAgrees
<1>4. SpaceIds(records', idx) = Append(SpaceIds(records, idx - 1), SpaceIdAt(records', idx))
  BY <1>1, <1>2, TrailGrows
<1>5. AllHaveLast'
  BY <1>0, <1>1, <1>2, <1>3 DEF AllHaveLast
<1> QED
  BY <1>2, <1>3, <1>4, <1>5

\* Labelling a chunk revisits a known space or opens the next one.
LEMMA LabelWalks ==
  ASSUME ConstantsOK, WalkInv, ReaderInv', idx <= N, UNCHANGED <<input, saved>>,
         NEW reply \in Replies, Label(reply)
  PROVE  Walk!ANext /\ AllHaveLast'
<1>0. N \in Nat /\ idx \in 1 .. N /\ next_id \in 1 .. idx /\ idx - 1 \in Nat
  BY LengthOfFile DEF WalkInv, ReaderInv, TypeInv, TypeOK, ConstantsOK
<1>1. /\ idx' = idx + 1 /\ next_id' \in {next_id, next_id + 1}
      /\ current_space_id' \in 0 .. next_id' - 1
      /\ \A i \in 1 .. N : i # idx => records'[i] = records[i]
  BY <1>0, LabelEffect DEF WalkInv, ReaderInv, TypeInv
<1>2. \A i \in 1 .. idx - 1 : records'[i] = records[i]
  BY <1>0, <1>1
<1>3. /\ SpaceIds(records, idx - 1)' = Append(SpaceIds(records, idx - 1), current_space_id')
      /\ AllHaveLast'
  BY <1>1, <1>2, TrailStep
<1>4. SpaceIds(saved, Len(saved))' = SpaceIds(saved, Len(saved))
  OBVIOUS
<1>5. CASE next_id' = next_id
  <2>1. current_space_id' \in 0 .. next_id - 1
    BY <1>1, <1>5
  <2>2. Walk!Revisit(current_space_id')
    BY <1>3, <1>4, <1>5, <2>1 DEF Walk!Revisit
  <2> QED
    BY <1>3, <2>1, <2>2 DEF Walk!ANext
<1>6. CASE next_id' = next_id + 1
  <2>1. current_space_id' = next_id
    BY <1>0, <1>6 DEF Label, Transition, memory
  <2>2. Walk!Open
    BY <1>3, <1>4, <1>6, <2>1 DEF Walk!Open
  <2> QED
    BY <1>3, <2>2 DEF Walk!ANext
<1> QED
  BY <1>1, <1>5, <1>6

LEMMA WalkStep ==
  ASSUME ConstantsOK, WalkInv, [Next]_vars
  PROVE  WalkInv' /\ [Walk!ANext]_(Walk!avars)
<1>0. ReaderInv'
  BY ReaderStep DEF WalkInv
<1>1. N \in Nat /\ N \in 0 .. MaxChunks /\ idx \in 1 .. N + 1
  BY LengthOfFile DEF WalkInv, ReaderInv, TypeInv, TypeOK, ConstantsOK
<1>2. CASE Load
  <2>1. /\ idx' = 1 /\ next_id' = 1 /\ pc = "load" /\ UNCHANGED saved /\ idx' - 1 = 0 /\ 1 .. 0 = {}
    BY <1>2 DEF Load, file
  <2>2. Walk!StartOver
    BY <2>1, NoTrail DEF Walk!StartOver
  <2>3. AllHaveLast'
    BY <2>1 DEF AllHaveLast
  <2> QED
    BY <1>0, <2>1, <2>2, <2>3 DEF Walk!ANext, WalkInv
<1>3. CASE SkipChunk
  <2>1. /\ idx' = idx + 1 /\ records' = records /\ idx <= N
        /\ UNCHANGED <<pc, saved, current_space_id, next_id>>
    BY <1>3 DEF SkipChunk, file, memory
  <2>2. /\ SpaceIds(records, idx - 1)' = Append(SpaceIds(records, idx - 1), current_space_id)
        /\ AllHaveLast'
    BY <1>0, <2>1, TrailStep
  <2>3. current_space_id \in 0 .. next_id - 1
    BY DEF WalkInv, ReaderInv, TypeInv, TypeOK
  <2>4. Walk!Revisit(current_space_id)
    BY <2>1, <2>2, <2>3 DEF Walk!Revisit
  <2> QED
    BY <1>0, <2>1, <2>2, <2>3, <2>4 DEF Walk!ANext, WalkInv
<1>4. CASE TagWithoutLLM
  <2> DEFINE b == TriggersFound(idx) /\ last_was_h1_h4
             reply == [decision |-> IF b THEN "MAINTAIN" ELSE "NEW", target |-> NoId,
                       def |-> IF b THEN "none" ELSE "object"]
  <2>1. reply \in Replies
    BY OwnReply
  <2>2. idx <= N /\ UNCHANGED <<input, saved, pc>> /\ Label(reply)
    BY <1>4 DEF TagWithoutLLM, file
  <2> HIDE DEF reply
  <2>3. Walk!ANext /\ AllHaveLast'
    BY <1>0, <2>1, <2>2, LabelWalks
  <2> QED
    BY <1>0, <2>2, <2>3 DEF WalkInv
<1>5. CASE ReplyArrives
  <2>1. PICK reply \in Replies : Label(reply)
    BY <1>5 DEF ReplyArrives
  <2>2. idx <= N /\ UNCHANGED <<input, saved>> /\ pc = "ask" /\ pc' = "chunk"
    BY <1>5 DEF ReplyArrives, WalkInv, ReaderInv, TypeInv, Control, file
  <2>3. Walk!ANext /\ AllHaveLast'
    BY <1>0, <2>1, <2>2, LabelWalks
  <2> QED
    BY <1>0, <2>2, <2>3 DEF WalkInv
<1>6. CASE WriteOutput
  <2>1. /\ UNCHANGED <<idx, records, next_id>> /\ pc = "write" /\ pc' = "done"
        /\ saved' = records
    BY <1>6 DEF WriteOutput, memory
  <2>2. idx - 1 = N /\ records \in [1 .. N -> Records \cup {NoRecord}]
    BY <1>1, <2>1 DEF WalkInv, ReaderInv, TypeInv, TypeOK, Control
  <2>3. records \in Seq(Records \cup {NoRecord}) /\ Len(records) = N
    BY <1>1, <2>2, SeqDef, LenProperties
  <2>4. SpaceIds(saved, Len(saved))' = SpaceIds(records, idx - 1)
    BY <2>1, <2>2, <2>3
  <2>5. Len(SpaceIds(records, idx - 1)) = N
    <3> DEFINE S == {SpaceIdAt(records, i) : i \in 1 .. N}
               t == SpaceIds(records, N)
    <3>1. t \in [1 .. N -> S]
      BY DEF SpaceIds
    <3> HIDE DEF S, t
    <3>2. t \in Seq(S)
      BY <1>1, <3>1, SeqDef
    <3>3. Len(t) = N
      BY <1>1, <3>1, <3>2, LenProperties
    <3> QED
      BY <2>2, <3>3 DEF t
  <2>6. Walk!Publish
    BY <1>1, <2>1, <2>4, <2>5 DEF Walk!Publish
  <2>7. AllHaveLast'
    BY <2>1 DEF WalkInv, AllHaveLast
  <2> QED
    BY <1>0, <2>1, <2>6, <2>7 DEF Walk!ANext, WalkInv
<1>7. CASE UNCHANGED <<idx, memory, records, saved>> /\ (pc # "done" => saved = <<>>)'
  <2>1. UNCHANGED <<idx, next_id, records, saved>>
    BY <1>7 DEF memory
  <2>2. UNCHANGED Walk!avars
    BY <2>1 DEF Walk!avars
  <2>3. AllHaveLast'
    BY <2>1 DEF WalkInv, AllHaveLast
  <2> QED
    BY <1>0, <1>7, <2>2, <2>3 DEF WalkInv
<1>8. CASE OpenOutput
  BY <1>7, <1>8 DEF OpenOutput, WalkInv
<1>9. CASE LoadFails \/ BuildPrompt \/ BuildPromptFails \/ ApiCallFails \/ ReplyUnusable \/ WriteFails
  <2>1. UNCHANGED <<idx, memory, records, file>> /\ pc # "done"
    BY <1>9 DEF LoadFails, BuildPrompt, BuildPromptFails, ApiCallFails, ReplyUnusable, WriteFails
  <2> QED
    BY <1>7, <2>1 DEF WalkInv, file
<1>10. CASE UNCHANGED vars
  BY <1>7, <1>10 DEF vars, WalkInv, file
<1> QED
  BY <1>2, <1>3, <1>4, <1>5, <1>6, <1>8, <1>9, <1>10 DEF Next

\* Step 3, with its replies, failures and retries, implements the abstract walk: every
\* unit stays, goes back to a space opened before or opens the next one, and what readers
\* see is such a walk as long as the file.
THEOREM WalkImplemented == ASSUME ConstantsOK PROVE Spec => ImplementsWalk
<1>1. Init => WalkInv /\ Walk!AInit
  <2> SUFFICES ASSUME Init PROVE WalkInv /\ Walk!AInit
    OBVIOUS
  <2>1. idx = 1 /\ next_id = 1 /\ saved = <<>> /\ idx - 1 = 0 /\ 1 .. 0 = {}
    BY DEF Init, EmptyMemory
  <2>2. WalkInv
    BY <2>1, ReaderInit DEF WalkInv, AllHaveLast
  <2>3. Len(saved) = 0
    BY <2>1
  <2>4. Walk!AInit
    BY <2>1, <2>3, NoTrail DEF Walk!AInit
  <2> QED
    BY <2>2, <2>4
<1>2. WalkInv /\ [Next]_vars => WalkInv' /\ [Walk!ANext]_(Walk!avars)
  BY WalkStep
<1> QED
  BY <1>1, <1>2, PTL DEF Spec, ImplementsWalk, Walk!ASpec

-----------------------------------------------------------------------------
\* Seen from outside, the work on the spaces is that of FileWork, attempt by attempt.
SpaceWork == CASE pc = "write" -> "writing" [] pc = "done" -> "done"
               [] pc = "gaveup" -> "gaveup" [] OTHER -> "asking"
SpaceFile == INSTANCE FileWork WITH Anew <- FALSE, work <- SpaceWork, output <- output

\* The file of spaces is not whole while the program works on it.
SpaceOpen == output = "whole" => pc = "done"

LEMMA SpaceFileStep ==
  ASSUME SpaceOpen, [Next]_vars
  PROVE  SpaceOpen' /\ [SpaceFile!Next]_<<SpaceWork, output>>
<1> USE DEF SpaceOpen, SpaceFile!Next, SpaceWork, file, AttemptFails
<1>1. CASE Load \/ SkipChunk \/ TagWithoutLLM \/ BuildPrompt
  BY <1>1 DEF Load, SkipChunk, TagWithoutLLM, BuildPrompt
<1>2. CASE LoadFails \/ BuildPromptFails \/ ReplyUnusable
  BY <1>2 DEF LoadFails, BuildPromptFails, ReplyUnusable, SpaceFile!GiveUp
<1>3. CASE ApiCallFails
  BY <1>3 DEF ApiCallFails, SpaceFile!GiveUp
<1>4. CASE ReplyArrives
  BY <1>4 DEF ReplyArrives
<1>5. CASE OpenOutput
  BY <1>5 DEF OpenOutput, SpaceFile!Open
<1>6. CASE WriteOutput
  BY <1>6 DEF WriteOutput, SpaceFile!Fill
<1>7. CASE WriteFails
  BY <1>7 DEF WriteFails, SpaceFile!FillFails, SpaceFile!GiveUp
<1>8. CASE UNCHANGED vars
  BY <1>8 DEF vars
<1> QED
  BY <1>1, <1>2, <1>3, <1>4, <1>5, <1>6, <1>7, <1>8 DEF Next

\* Step 3 does with a file what FileWork says: through all attempts, the spaces are opened again
\* only while they are torn, and once they are whole the program is done with the file.
THEOREM SpacesAreFileWork == Spec => SpaceFile!Spec
<1>1. Init => SpaceOpen /\ SpaceFile!Init
  BY DEF Init, SpaceOpen, SpaceFile!Init, SpaceWork
<1>2. SpaceOpen /\ [Next]_vars => SpaceOpen' /\ [SpaceFile!Next]_<<SpaceWork, output>>
  BY SpaceFileStep
<1> QED
  BY <1>1, <1>2, PTL DEF Spec, SpaceFile!Spec
=============================================================================
