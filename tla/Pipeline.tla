----------------------------- MODULE Pipeline -----------------------------
(***************************************************************************)
(* The three steps of the SHAPE pipeline over a directory of traces:       *)
(* process_file of preprocessor.py, and main of label_stateless.py and of  *)
(* label_semantic_space.py.  Each is a program with a pool of threads over *)
(* files; it may be killed at any moment and started again.  What a step   *)
(* does with one file is ContentUnit, HeuristicLabel and SemanticSpace.    *)
(***************************************************************************)
EXTENDS Integers, Sequences, FiniteSets, SequencesExt

CONSTANTS
  RawList,     \* the dataset: its traces as <<problem, rollout>>, NoRollout for none
  MaxWorkers,  \* threads of a pool (10 in the code)
  MaxRuns      \* bound: programs started

NoRollout == -1
Files == Range(RawList)
Steps == 1 .. 3

ASSUME ConstantsOK ==
  /\ RawList \in Seq((Nat \ {0}) \X (Nat \cup {NoRollout}))
  /\ MaxWorkers \in Nat \ {0} /\ MaxRuns \in Nat

VARIABLES
  running,   \* the step whose program runs, or 0
  runs,      \* programs started so far
  resume,    \* --resume of Step 1
  dir,       \* the files each step has written: Absent, Torn, or a version
  raw,       \* the dataset's raw file: Absent, Torn, or 1 when whole
  work,      \* what the pool does with each file
  got,       \* the version of the input a thread has read
  text,      \* the problem whose text a thread has for its prompts, or 0
  broken     \* history: files a kill or a failing disk left torn

disk == <<dir, raw>>
pool == <<work, got, text>>
vars == <<running, runs, resume, disk, pool, broken>>

\* A version is the number of the run of Step 1 that cut the trace into units.
Absent == 0
Torn == -1
Whole(v) == v > 0

-----------------------------------------------------------------------------
\* Problem texts.  A file p_r.json belongs to problem p.  Step 2 finds the text under
\* the problem's part of the name; Step 3 under int("p_r"), where Python reads p_r as
\* the number with the digits of both (11 for 1_1, 114 for 1_14), counted from 0 like the names.
KeyOfName == [f \in Files |-> f[1]]
Length(n) == CHOOSE k \in 1 .. n + 1 : 10 ^ k > n /\ (k = 1 \/ 10 ^ (k - 1) <= n)
Digits == [f \in Files |-> IF f[2] = NoRollout THEN f[1] ELSE f[1] * 10 ^ Length(f[2]) + f[2]]
Texts(key) == [k \in Range(key) |->
                 (CHOOSE i \in DOMAIN RawList :
                    /\ key[RawList[i]] = k
                    /\ \A j \in DOMAIN RawList : key[RawList[j]] = k => j <= i)]
TextIn(texts, k) == IF k \in DOMAIN texts THEN RawList[texts[k]][1] ELSE 0

ProblemText2(f) == TextIn(Texts(KeyOfName), KeyOfName[f])
ProblemText3(f) == TextIn(Texts(Digits), KeyOfName[f])

-----------------------------------------------------------------------------
Init == /\ running = 0 /\ runs = 0 /\ resume = FALSE
        /\ dir = [s \in Steps |-> [f \in Files |-> Absent]] /\ raw = Absent
        /\ work = [f \in Files |-> "out"] /\ got = [f \in Files |-> 0]
        /\ text = [f \in Files |-> 0] /\ broken = {}

\* A program lists its input directory.  Steps 2 and 3 need the raw file; a torn one
\* ends them before they begin.
Start(s) ==
  /\ running = 0 /\ runs < MaxRuns
  /\ s > 1 => Whole(raw) /\ \E f \in Files : dir[s - 1][f] # Absent
  /\ running' = s /\ runs' = runs + 1
  /\ resume' \in IF s = 1 THEN BOOLEAN ELSE {FALSE}
  /\ work' = [f \in Files |-> IF s = 1 \/ dir[s - 1][f] # Absent THEN "queued" ELSE "out"]
  /\ got' = [f \in Files |-> 0] /\ text' = [f \in Files |-> 0]
  /\ UNCHANGED <<disk, broken>>

Busy == {f \in Files : work[f] \in {"asking", "writing"}}

\* Slip: every file is processed anew.
SkipsNothing(f) == FALSE

\* Steps 2 and 3 skip a file whose output exists.  Step 1 skips none, or with --resume
\* those that parse, unless their coverage is bad (ContentUnit says when): those it cuts again.
Recuts(f) == running = 1
Skips(f) == IF running = 1 THEN resume /\ Whole(dir[1][f]) ELSE dir[running][f] # Absent

SkipFile(f) == /\ running # 0 /\ work[f] = "queued" /\ Skips(f)
               /\ work' = [work EXCEPT ![f] = "done"]
               /\ UNCHANGED <<running, runs, resume, disk, got, text, broken>>

\* Step 2 leaves out a file without problem text, Step 3 makes a text up.
TakeFile(f) ==
  /\ running # 0 /\ work[f] = "queued" /\ Cardinality(Busy) < MaxWorkers
  /\ ~Skips(f) \/ Recuts(f)
  /\ text' = [text EXCEPT ![f] = IF running = 3 THEN ProblemText3(f) ELSE ProblemText2(f)]
  /\ work' = [work EXCEPT ![f] = IF running = 2 /\ text'[f] = 0 THEN "done" ELSE "asking"]
  /\ got' = [got EXCEPT ![f] = IF running = 1 THEN runs ELSE dir[running - 1][f]]
  /\ UNCHANGED <<running, runs, resume, disk, broken>>

\* All attempts fail, as they do on a torn input; in Step 1 the exception of one trace.
GiveUp(f) == /\ work[f] = "asking"
             /\ work' = [work EXCEPT ![f] = "gaveup"]
             /\ UNCHANGED <<running, runs, resume, disk, got, text, broken>>

OpenOutput(f) == /\ work[f] = "asking" /\ Whole(got[f])
                 /\ work' = [work EXCEPT ![f] = "writing"]
                 /\ dir' = [dir EXCEPT ![running][f] = Torn]
                 /\ UNCHANGED <<running, runs, resume, raw, got, text, broken>>

WriteOutput(f) == /\ work[f] = "writing"
                  /\ work' = [work EXCEPT ![f] = "done"]
                  /\ dir' = [dir EXCEPT ![running][f] = got[f]]
                  /\ broken' = broken \ {<<running, f>>}
                  /\ UNCHANGED <<running, runs, resume, raw, got, text>>

\* Slip: a write that fails is taken for one that ended.
WriteFailsSilently(f) == /\ work[f] = "writing"
                         /\ work' = [work EXCEPT ![f] = "done"]
                         /\ broken' = broken \cup {<<running, f>>}
                         /\ UNCHANGED <<running, runs, resume, disk, got, text>>

\* In Steps 2 and 3 a failed write costs an attempt; in Step 1 the trace is given up.
WriteFails(f) == /\ work[f] = "writing"
                 /\ \E w \in {"asking", "gaveup"} :
                      /\ running = 1 => w = "gaveup"
                      /\ work' = [work EXCEPT ![f] = w]
                 /\ broken' = broken \cup {<<running, f>>}
                 /\ UNCHANGED <<running, runs, resume, disk, got, text>>

\* Slips: the pool is left while files are queued; a file given up is waited for.
SettledEarly == \A f \in Files : work[f] \notin {"asking", "writing"}
SettledNever == \A f \in Files : work[f] \in {"out", "done"}

Settled == \A f \in Files : work[f] \in {"out", "done", "gaveup"}

\* All futures are done.  Step 1 goes on to the raw file, unless one of them raised.
Ends == /\ running # 0 /\ Settled
        /\ running = 1 => \E f \in Files : work[f] = "gaveup"
        /\ running' = 0
        /\ UNCHANGED <<runs, resume, disk, pool, broken>>

OpenRaw == /\ running = 1 /\ Settled /\ raw # Torn
           /\ \A f \in Files : work[f] # "gaveup"
           /\ raw' = Torn
           /\ UNCHANGED <<running, runs, resume, dir, pool, broken>>

WriteRaw == /\ running = 1 /\ Settled /\ raw = Torn
            /\ \A f \in Files : work[f] # "gaveup"
            /\ raw' = 1 /\ running' = 0
            /\ UNCHANGED <<runs, resume, dir, pool, broken>>

Killed == /\ running # 0 /\ running' = 0
          /\ broken' = broken \cup {<<running, f>> : f \in {g \in Files : work[g] = "writing"}}
          /\ UNCHANGED <<runs, resume, disk, pool>>

Thread(f) == SkipFile(f) \/ TakeFile(f) \/ GiveUp(f)
             \/ OpenOutput(f) \/ WriteOutput(f) \/ WriteFails(f)
Finish == Ends \/ OpenRaw \/ WriteRaw

Next == \/ \E s \in Steps : Start(s)
        \/ \E f \in Files : running # 0 /\ Thread(f)
        \/ Finish \/ Killed

\* Threads run, and the work on one file settles (ContentUnit, HeuristicLabel,
\* SemanticSpace): its attempts are counted, so it is not tried again for ever.
Spec == /\ Init /\ [][Next]_vars
        /\ \A f \in Files : /\ WF_vars(running # 0 /\ Thread(f))
                            /\ SF_vars(running # 0 /\ (GiveUp(f) \/ WriteOutput(f)))
        /\ WF_vars(Finish)

-----------------------------------------------------------------------------
TypeOK == /\ running \in {0} \cup Steps /\ runs \in 0 .. MaxRuns /\ resume \in BOOLEAN
          /\ dir \in [Steps -> [Files -> Torn .. MaxRuns]] /\ raw \in Torn .. 1
          /\ work \in [Files -> {"out", "queued", "asking", "writing", "done", "gaveup"}]
          /\ broken \subseteq Steps \X Files

Writing(s, f) == running = s /\ work[f] = "writing"

\* Whatever is killed and started again: a torn file was being written when the program
\* was killed, or the disk failed; and a file of spaces belongs to the labels that are there.
FilesExplained ==
  /\ TypeOK
  /\ \A s \in Steps, f \in Files :
       dir[s][f] = Torn => Writing(s, f) \/ <<s, f>> \in broken
  /\ \A f \in Files : Whole(dir[3][f]) => dir[3][f] = dir[2][f]

\* What Steps 2 and 3 have finished they never open again.
FinishedStays ==
  [][\A s \in {2, 3}, f \in Files : Whole(dir[s][f]) => dir'[s][f] = dir[s][f]]_vars

Accounted(f) == \/ ~Whole(dir[running - 1][f]) \/ Whole(dir[running][f])
                \/ work[f] = "gaveup" \/ <<running, f>> \in broken

\* A run of Step 2 or 3 that is not killed leaves no whole input without whole output,
\* except where its attempts were used up or a torn output was in the way.
RunCompletes == [][Ends /\ running \in {2, 3} => \A f \in Files : Accounted(f)]_vars

\* What a step does with a file, as FileWork has it.
FileWorkOf(s, f) == IF running # s \/ work[f] = "queued" THEN "out" ELSE work[f]
FileOutput(s, f) == IF Whole(dir[s][f]) THEN "whole"
                    ELSE IF dir[s][f] = Torn THEN "torn" ELSE "absent"
File(s, f) == INSTANCE FileWork WITH
                Anew <- s = 1, work <- FileWorkOf(s, f), output <- FileOutput(s, f)

\* Whatever else is running or killed, each step does with each file what FileWork says:
\* a torn output of Step 2 or 3 is not taken up, and a whole one never opened.
ImplementsFileWork ==
  /\ \A s \in Steps, f \in Files : File(s, f)!Init
  /\ [][\A s \in Steps, f \in Files :
           [File(s, f)!Next]_<<FileWorkOf(s, f), FileOutput(s, f)>>]_vars

\* Every run ends.
RunEnds == running # 0 ~> running = 0

-----------------------------------------------------------------------------
(* What messages and comments say, and the code does not do.               *)

\* label_semantic_space.py:193 lists "<problem_idx>_<rollout>.json  e.g. 1_14.json" under
\* "Supported filename formats": such a trace, too, is tracked with its problem's text.
OwnProblemInStep3 == running = 3 => \A f \in Busy : text[f] = f[1]
=============================================================================
