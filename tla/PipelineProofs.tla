-------------------------- MODULE PipelineProofs --------------------------
(***************************************************************************)
(* Proofs about Pipeline, for any dataset, any number of threads and runs. *)
(***************************************************************************)
EXTENDS Pipeline, WellFoundedInduction, TLAPS

-----------------------------------------------------------------------------
(* Problem texts of Step 2.                                                *)

LEMMA HasMinimum ==
  ASSUME NEW T, T \subseteq Nat, T # {}
  PROVE  \E x \in T : \A y \in T : x <= y
<1>1. PICK x \in T : \A y \in T : ~(<<y, x>> \in OpToRel(<, Nat))
  BY NatLessThanWellFounded, WFMin
<1>2. ASSUME NEW y \in T PROVE x <= y
  <2>1. y \in Nat /\ x \in Nat
    OBVIOUS
  <2>2. ~(y < x)
    BY <1>1, <2>1 DEF OpToRel
  <2> QED
    BY <2>1, <2>2
<1> QED
  BY <1>2

\* A list has a last entry with a given key; the program's dictionary keeps that one.
LEMMA LastWithKey ==
  ASSUME ConstantsOK, NEW k \in Range(KeyOfName)
  PROVE  \E i \in DOMAIN RawList :
           /\ KeyOfName[RawList[i]] = k
           /\ \A j \in DOMAIN RawList : KeyOfName[RawList[j]] = k => j <= i
<1> DEFINE n == Len(RawList)
           P(i) == i \in DOMAIN RawList /\ KeyOfName[RawList[i]] = k
           T == {m \in 0 .. n : P(n - m)}
<1>1. n \in Nat /\ DOMAIN RawList = 1 .. n
  BY DEF ConstantsOK
<1>2. PICK f \in Files : KeyOfName[f] = k
  BY DEF KeyOfName, Range
<1>3. PICK i0 \in DOMAIN RawList : RawList[i0] = f
  BY DEF Files, Range
<1>4. n - i0 \in T
  BY <1>1, <1>2, <1>3
<1>5. T \subseteq Nat /\ T # {}
  BY <1>1, <1>4
<1>6. PICK x \in T : \A y \in T : x <= y
  BY <1>5, HasMinimum
<1>7. n - x \in DOMAIN RawList /\ KeyOfName[RawList[n - x]] = k /\ x \in 0 .. n
  BY <1>6
<1>8. ASSUME NEW j \in DOMAIN RawList, KeyOfName[RawList[j]] = k PROVE j <= n - x
  <2>1. n - (n - j) = j /\ n - j \in 0 .. n
    <3>1. j \in 1 .. n
      BY <1>1
    <3> HIDE DEF n, P, T
    <3> QED
      BY <1>1, <3>1
  <2>2. n - j \in T
    BY <1>8, <2>1
  <2>3. x <= n - j
    BY <1>6, <2>2
  <2> QED
    BY <1>1, <1>7, <2>1, <2>3
<1> QED
  BY <1>7, <1>8

\* Step 2 finds a text for every file of the dataset.
LEMMA TextFound2 == ASSUME ConstantsOK, NEW f \in Files PROVE ProblemText2(f) # 0
<1> DEFINE k == KeyOfName[f]
           i == Texts(KeyOfName)[k]
<1>1. k \in Range(KeyOfName) /\ DOMAIN Texts(KeyOfName) = Range(KeyOfName)
  BY DEF KeyOfName, Range, Texts
<1>2. i \in DOMAIN RawList
  BY <1>1, LastWithKey DEF Texts
<1>3. RawList[i] \in (Nat \ {0}) \X (Nat \cup {NoRollout})
  BY <1>2 DEF ConstantsOK
<1>4. ProblemText2(f) = RawList[i][1]
  BY <1>1 DEF ProblemText2, TextIn
<1> QED
  BY <1>3, <1>4

-----------------------------------------------------------------------------
(* The invariant.  What explains a file depends on what the pool is doing: *)
(* what a thread has read is what is there, and a file that a thread of    *)
(* Step 2 or 3 works on is not finished.                                   *)
Late == {2, 3}

PoolInv ==
  /\ got \in [Files -> Torn .. MaxRuns]
  /\ text = [f \in Files |-> text[f]]
  /\ \A f \in Files :
       /\ running # 0 /\ work[f] = "writing" => Whole(got[f])
       /\ running \in Late /\ f \in Busy => got[f] = dir[running - 1][f] /\ ~Whole(dir[running][f])
       /\ running \in Late /\ work[f] = "out" => dir[running - 1][f] = Absent
       /\ running \in Late /\ work[f] = "done" => Accounted(f)

PipelineInv == FilesExplained /\ PoolInv

LEMMA Versions ==
  ASSUME ConstantsOK
  PROVE  /\ MaxRuns \in Nat /\ Torn = -1 /\ Absent = 0 /\ Absent \in Torn .. MaxRuns /\ Torn \in Torn .. MaxRuns
         /\ Steps = {1, 2, 3} /\ Late \subseteq Steps
BY DEF ConstantsOK, Torn, Absent, Steps, Late

LEMMA PipelineInit == ASSUME ConstantsOK PROVE Init => PipelineInv
<1> SUFFICES ASSUME Init PROVE PipelineInv
  OBVIOUS
<1>1. FilesExplained
  <2>1. Absent # Torn /\ ~Whole(Absent) /\ MaxRuns \in Nat /\ Absent \in Torn .. 1 /\ Absent \in Torn .. MaxRuns
    BY DEF Absent, Torn, Whole, ConstantsOK
  <2>2. TypeOK
    <3>1. dir \in [Steps -> [Files -> Torn .. MaxRuns]] /\ raw \in Torn .. 1
      BY <2>1 DEF Init
    <3>2. runs \in 0 .. MaxRuns
      BY <2>1 DEF Init
    <3>3. /\ running \in {0} \cup Steps /\ resume \in BOOLEAN /\ broken \subseteq Steps \X Files
          /\ work \in [Files -> {"out", "queued", "asking", "writing", "done", "gaveup"}]
      BY DEF Init
    <3> QED
      BY <3>1, <3>2, <3>3 DEF TypeOK
  <2>3. {2, 3} \subseteq Steps
    BY DEF Steps
  <2> QED
    BY <2>1, <2>2, <2>3 DEF Init, FilesExplained
<1>2. PoolInv
  BY Versions DEF Init, PoolInv, Late
<1> QED
  BY <1>1, <1>2 DEF PipelineInv

\* What a thread's step leaves alone.
LEMMA StartStep ==
  ASSUME ConstantsOK, PipelineInv, NEW s \in Steps, Start(s)
  PROVE  PipelineInv'
<1>1. /\ running = 0 /\ running' = s /\ runs' = runs + 1 /\ runs < MaxRuns
      /\ work' = [f \in Files |-> IF s = 1 \/ dir[s - 1][f] # Absent THEN "queued" ELSE "out"]
      /\ got' = [f \in Files |-> 0] /\ text' = [f \in Files |-> 0]
      /\ UNCHANGED <<dir, raw, broken>>
  BY DEF Start, disk
<1>2. resume' \in BOOLEAN
  BY DEF Start
<1>3. TypeOK'
  BY <1>1, <1>2, Versions DEF PipelineInv, FilesExplained, TypeOK
<1>4. FilesExplained'
  BY <1>1, <1>3 DEF PipelineInv, FilesExplained, Writing, Steps
<1>5. PoolInv'
  <2>1. got' \in [Files -> Torn .. MaxRuns]
    BY <1>1, Versions
  <2>2. \A f \in Files : /\ work'[f] \in {"queued", "out"}
                         /\ work'[f] = "out" => s # 1 /\ dir[s - 1][f] = Absent
    BY <1>1
  <2> QED
    BY <1>1, <2>1, <2>2 DEF PoolInv, Busy, Late
<1> QED
  BY <1>4, <1>5 DEF PipelineInv

LEMMA SkipStep ==
  ASSUME ConstantsOK, PipelineInv, NEW f \in Files, SkipFile(f)
  PROVE  PipelineInv'
<1>1. /\ running # 0 /\ work[f] = "queued" /\ Skips(f) /\ work' = [work EXCEPT ![f] = "done"]
      /\ UNCHANGED <<running, runs, resume, dir, raw, got, text, broken>>
  BY DEF SkipFile, disk
<1>2. TypeOK'
  BY <1>1 DEF PipelineInv, FilesExplained, TypeOK
<1>3. \A g \in Files : g # f => work'[g] = work[g]
  BY <1>1 DEF PipelineInv, FilesExplained, TypeOK
<1>4. work'[f] = "done"
  BY <1>1 DEF PipelineInv, FilesExplained, TypeOK
<1>5. FilesExplained'
  BY <1>1, <1>2, <1>3 DEF PipelineInv, FilesExplained, Writing
<1>6. running \in Late => Whole(dir[running][f]) \/ <<running, f>> \in broken
  <2> SUFFICES ASSUME running \in Late PROVE Whole(dir[running][f]) \/ <<running, f>> \in broken
    OBVIOUS
  <2>1. dir[running][f] # Absent /\ running \in Steps
    BY <1>1, Versions DEF Skips, Late
  <2>2. dir[running][f] \in Torn .. MaxRuns
    BY <2>1 DEF PipelineInv, FilesExplained, TypeOK
  <2>3. dir[running][f] = Torn => <<running, f>> \in broken
    BY <1>1, <2>1 DEF PipelineInv, FilesExplained, Writing
  <2> QED
    BY <2>1, <2>2, <2>3 DEF Whole, Torn, Absent, ConstantsOK
<1>7. \A g \in Files : /\ g \in Busy' <=> g \in Busy
                       /\ Accounted(g) => Accounted(g)'
  BY <1>1, <1>3, <1>4 DEF Busy, Accounted
<1>8. running \in Late => Accounted(f)'
  BY <1>1, <1>6 DEF Accounted
<1>9. PoolInv'
  BY <1>1, <1>3, <1>4, <1>7, <1>8 DEF PipelineInv, PoolInv
<1> QED
  BY <1>5, <1>9 DEF PipelineInv

LEMMA TakeStep ==
  ASSUME ConstantsOK, PipelineInv, NEW f \in Files, TakeFile(f)
  PROVE  PipelineInv'
<1>1. /\ running # 0 /\ work[f] = "queued" /\ (running # 1 => ~Skips(f))
      /\ text' = [text EXCEPT ![f] = IF running = 3 THEN ProblemText3(f) ELSE ProblemText2(f)]
      /\ work' = [work EXCEPT ![f] = IF running = 2 /\ text'[f] = 0 THEN "done" ELSE "asking"]
      /\ got' = [got EXCEPT ![f] = IF running = 1 THEN runs ELSE dir[running - 1][f]]
      /\ UNCHANGED <<running, runs, resume, dir, raw, broken>>
  BY DEF TakeFile, Recuts, disk
<1>2. running = 2 => work'[f] = "asking"
  <2> SUFFICES ASSUME running = 2 PROVE work'[f] = "asking"
    OBVIOUS
  <2>1. text'[f] = ProblemText2(f)
    BY <1>1 DEF PipelineInv, PoolInv
  <2>2. text'[f] # 0
    BY <2>1, TextFound2
  <2> QED
    BY <1>1, <2>2 DEF PipelineInv, FilesExplained, TypeOK
<1>3. /\ work'[f] = "asking"
      /\ \A g \in Files : g # f => work'[g] = work[g] /\ got'[g] = got[g]
      /\ got'[f] = IF running = 1 THEN runs ELSE dir[running - 1][f]
  BY <1>1, <1>2 DEF PipelineInv, FilesExplained, TypeOK, PoolInv
<1>4. TypeOK'
  BY <1>1, <1>3 DEF PipelineInv, FilesExplained, TypeOK
<1>5. FilesExplained'
  BY <1>1, <1>3, <1>4 DEF PipelineInv, FilesExplained, Writing
<1>6. got' \in [Files -> Torn .. MaxRuns]
  <2>1. runs \in Torn .. MaxRuns
    BY DEF PipelineInv, FilesExplained, TypeOK, ConstantsOK, Torn
  <2>2. running # 1 => running - 1 \in Steps
    BY <1>1 DEF PipelineInv, FilesExplained, TypeOK, Steps
  <2>3. running # 1 => dir[running - 1][f] \in Torn .. MaxRuns
    BY <2>2 DEF PipelineInv, FilesExplained, TypeOK
  <2> QED
    BY <1>1, <2>1, <2>3 DEF PipelineInv, PoolInv
<1>7. running \in Late => dir[running][f] = Absent /\ ~Whole(dir[running][f])
  BY <1>1 DEF Skips, Late, Whole, Absent
<1>8. \A g \in Files : /\ g # f => (g \in Busy' <=> g \in Busy)
                       /\ Accounted(g) => g = f \/ Accounted(g)'
  BY <1>1, <1>3 DEF Busy, Accounted
<1>9. text' = [g \in Files |-> text'[g]]
  BY <1>1 DEF PipelineInv, PoolInv
<1>10. PoolInv'
  <2> SUFFICES ASSUME NEW g \in Files
               PROVE  /\ running # 0 /\ work'[g] = "writing" => Whole(got'[g])
                      /\ running \in Late /\ g \in Busy' => got'[g] = dir[running - 1][g] /\ ~Whole(dir[running][g])
                      /\ running \in Late /\ work'[g] = "out" => dir[running - 1][g] = Absent
                      /\ running \in Late /\ work'[g] = "done" => Accounted(g)'
    BY <1>1, <1>6, <1>9 DEF PoolInv
  <2>1. CASE g = f
    BY <1>3, <1>7, <2>1 DEF Late
  <2>2. CASE g # f
    BY <1>3, <1>8, <2>2 DEF PipelineInv, PoolInv
  <2> QED
    BY <2>1, <2>2
<1> QED
  BY <1>5, <1>10 DEF PipelineInv

LEMMA GiveUpStep ==
  ASSUME ConstantsOK, PipelineInv, NEW f \in Files, running # 0, GiveUp(f)
  PROVE  PipelineInv'
<1>1. /\ work[f] = "asking" /\ work' = [work EXCEPT ![f] = "gaveup"]
      /\ UNCHANGED <<running, runs, resume, dir, raw, got, text, broken>>
  BY DEF GiveUp, disk
<1>2. TypeOK'
  BY <1>1 DEF PipelineInv, FilesExplained, TypeOK
<1>3. work'[f] = "gaveup" /\ \A g \in Files : g # f => work'[g] = work[g]
  BY <1>1 DEF PipelineInv, FilesExplained, TypeOK
<1>4. FilesExplained'
  BY <1>1, <1>2, <1>3 DEF PipelineInv, FilesExplained, Writing
<1>5. \A g \in Files : (g \in Busy' => g \in Busy) /\ (Accounted(g) => Accounted(g)')
  BY <1>1, <1>3 DEF Busy, Accounted
<1>6. PoolInv'
  BY <1>1, <1>3, <1>5 DEF PipelineInv, PoolInv
<1> QED
  BY <1>4, <1>6 DEF PipelineInv

LEMMA OpenStep ==
  ASSUME ConstantsOK, PipelineInv, NEW f \in Files, running # 0, OpenOutput(f)
  PROVE  /\ PipelineInv'
         /\ \A s \in Late, g \in Files : Whole(dir[s][g]) => dir'[s][g] = dir[s][g]
<1>1. /\ work[f] = "asking" /\ Whole(got[f]) /\ work' = [work EXCEPT ![f] = "writing"]
      /\ dir' = [dir EXCEPT ![running][f] = Torn]
      /\ UNCHANGED <<running, runs, resume, raw, got, text, broken>>
  BY DEF OpenOutput
<1>2. running \in Steps /\ ~Whole(Torn) /\ Torn \in Torn .. MaxRuns /\ f \in Busy
  BY <1>1 DEF PipelineInv, FilesExplained, TypeOK, Whole, Torn, ConstantsOK, Busy
<1>3. work'[f] = "writing" /\ \A g \in Files : g # f => work'[g] = work[g]
  BY <1>1 DEF PipelineInv, FilesExplained, TypeOK
<1>4. /\ dir'[running][f] = Torn
      /\ \A s \in Steps, g \in Files : s # running \/ g # f => dir'[s][g] = dir[s][g]
      /\ dir' \in [Steps -> [Files -> Torn .. MaxRuns]]
  BY <1>1, <1>2 DEF PipelineInv, FilesExplained, TypeOK
<1>5. TypeOK'
  BY <1>1, <1>4 DEF PipelineInv, FilesExplained, TypeOK
<1>6. running \in Late => ~Whole(dir[running][f])
  BY <1>2 DEF PipelineInv, PoolInv
<1>7. \A s \in Late, g \in Files : Whole(dir[s][g]) => dir'[s][g] = dir[s][g]
  BY <1>4, <1>6, Versions
<1>8. FilesExplained'
  <2>1. ASSUME NEW s \in Steps, NEW g \in Files, dir'[s][g] = Torn
        PROVE  Writing(s, g)' \/ <<s, g>> \in broken'
    <3>1. CASE s = running /\ g = f
      BY <1>1, <1>3, <3>1 DEF Writing
    <3>2. CASE s # running \/ g # f
      BY <1>1, <1>3, <1>4, <2>1, <3>2 DEF PipelineInv, FilesExplained, Writing
    <3> QED
      BY <3>1, <3>2
  <2>2. ASSUME NEW g \in Files, Whole(dir'[3][g]) PROVE dir'[3][g] = dir'[2][g]
    <3>1. dir'[3][g] = dir[3][g]
      BY <1>2, <1>4, <2>2, Versions
    <3>2. dir[3][g] = dir[2][g]
      BY <2>2, <3>1 DEF PipelineInv, FilesExplained
    <3>3. dir'[2][g] = dir[2][g]
      BY <1>7, <2>2, <3>1, <3>2 DEF Late
    <3> QED
      BY <3>1, <3>2, <3>3
  <2> QED
    BY <1>5, <2>1, <2>2 DEF FilesExplained
<1>9. PoolInv'
  <2> SUFFICES ASSUME NEW g \in Files
               PROVE  /\ running # 0 /\ work'[g] = "writing" => Whole(got[g])
                      /\ running \in Late /\ g \in Busy' => got[g] = dir'[running - 1][g] /\ ~Whole(dir'[running][g])
                      /\ running \in Late /\ work'[g] = "out" => dir'[running - 1][g] = Absent
                      /\ running \in Late /\ work'[g] = "done" => Accounted(g)'
    BY <1>1 DEF PipelineInv, PoolInv
  <2>1. running \in Late => running - 1 \in Steps /\ running - 1 # running
    BY Versions DEF Late
  <2>2. running \in Late => dir'[running - 1][g] = dir[running - 1][g]
    BY <1>4, <2>1
  <2>3. CASE g = f
    BY <1>1, <1>2, <1>3, <1>4, <2>2, <2>3 DEF PipelineInv, PoolInv
  <2>4. CASE g # f
    <3>1. (g \in Busy' <=> g \in Busy) /\ dir'[running][g] = dir[running][g] /\ work'[g] = work[g]
      BY <1>2, <1>3, <1>4, <2>4 DEF Busy
    <3>2. running \in Late /\ Accounted(g) => Accounted(g)'
      BY <1>1, <2>2, <3>1 DEF Accounted
    <3> QED
      BY <2>2, <3>1, <3>2 DEF PipelineInv, PoolInv
  <2> QED
    BY <2>3, <2>4
<1> QED
  BY <1>7, <1>8, <1>9 DEF PipelineInv

LEMMA WriteStep ==
  ASSUME ConstantsOK, PipelineInv, NEW f \in Files, running # 0, WriteOutput(f)
  PROVE  /\ PipelineInv'
         /\ \A s \in Late, g \in Files : Whole(dir[s][g]) => dir'[s][g] = dir[s][g]
<1>1. /\ work[f] = "writing" /\ work' = [work EXCEPT ![f] = "done"]
      /\ dir' = [dir EXCEPT ![running][f] = got[f]]
      /\ broken' = broken \ {<<running, f>>}
      /\ UNCHANGED <<running, runs, resume, raw, got, text>>
  BY DEF WriteOutput
<1>2. /\ running \in Steps /\ f \in Busy /\ Whole(got[f]) /\ got[f] # Torn /\ got[f] \in Torn .. MaxRuns
  BY <1>1 DEF PipelineInv, FilesExplained, TypeOK, PoolInv, Whole, Torn, ConstantsOK, Busy
<1>3. work'[f] = "done" /\ \A g \in Files : g # f => work'[g] = work[g]
  BY <1>1 DEF PipelineInv, FilesExplained, TypeOK
<1>4. /\ dir'[running][f] = got[f]
      /\ \A s \in Steps, g \in Files : s # running \/ g # f => dir'[s][g] = dir[s][g]
      /\ dir' \in [Steps -> [Files -> Torn .. MaxRuns]]
  BY <1>1, <1>2 DEF PipelineInv, FilesExplained, TypeOK
<1>5. TypeOK'
  BY <1>1, <1>4 DEF PipelineInv, FilesExplained, TypeOK
<1>6. running \in Late => ~Whole(dir[running][f]) /\ got[f] = dir[running - 1][f]
  BY <1>2 DEF PipelineInv, PoolInv
<1>7. \A s \in Late, g \in Files : Whole(dir[s][g]) => dir'[s][g] = dir[s][g]
  BY <1>4, <1>6, Versions
<1>8. FilesExplained'
  <2>1. ASSUME NEW s \in Steps, NEW g \in Files, dir'[s][g] = Torn
        PROVE  Writing(s, g)' \/ <<s, g>> \in broken'
    <3>1. s # running \/ g # f
      BY <1>2, <1>4, <2>1
    <3>2. dir[s][g] = Torn /\ <<s, g>> # <<running, f>>
      BY <1>4, <2>1, <3>1
    <3> QED
      BY <1>1, <1>3, <3>1, <3>2 DEF PipelineInv, FilesExplained, Writing
  <2>2. ASSUME NEW g \in Files, Whole(dir'[3][g]) PROVE dir'[3][g] = dir'[2][g]
    <3>1. CASE running = 3 /\ g = f
      BY <1>4, <1>6, <3>1, Versions DEF Late
    <3>2. CASE running # 3 \/ g # f
      <4>1. dir'[3][g] = dir[3][g]
        BY <1>4, <3>2, Versions
      <4>2. dir[3][g] = dir[2][g]
        BY <2>2, <4>1 DEF PipelineInv, FilesExplained
      <4>3. dir'[2][g] = dir[2][g]
        BY <1>7, <2>2, <4>1, <4>2 DEF Late
      <4> QED
        BY <4>1, <4>2, <4>3
    <3> QED
      BY <3>1, <3>2
  <2> QED
    BY <1>5, <2>1, <2>2 DEF FilesExplained
<1>9. PoolInv'
  <2> SUFFICES ASSUME NEW g \in Files
               PROVE  /\ running # 0 /\ work'[g] = "writing" => Whole(got[g])
                      /\ running \in Late /\ g \in Busy' => got[g] = dir'[running - 1][g] /\ ~Whole(dir'[running][g])
                      /\ running \in Late /\ work'[g] = "out" => dir'[running - 1][g] = Absent
                      /\ running \in Late /\ work'[g] = "done" => Accounted(g)'
    BY <1>1 DEF PipelineInv, PoolInv
  <2>1. running \in Late => running - 1 \in Steps /\ running - 1 # running
    BY Versions DEF Late
  <2>2. running \in Late => dir'[running - 1][g] = dir[running - 1][g]
    BY <1>4, <2>1
  <2>3. CASE g = f
    BY <1>1, <1>2, <1>3, <1>4, <2>3 DEF Accounted, Busy
  <2>4. CASE g # f
    <3>1. /\ g \in Busy' <=> g \in Busy
          /\ dir'[running][g] = dir[running][g] /\ work'[g] = work[g]
          /\ <<running, g>> \in broken => <<running, g>> \in broken'
      BY <1>1, <1>2, <1>3, <1>4, <2>4 DEF Busy
    <3>2. running \in Late /\ Accounted(g) => Accounted(g)'
      BY <1>1, <2>2, <3>1 DEF Accounted
    <3> QED
      BY <2>2, <3>1, <3>2 DEF PipelineInv, PoolInv
  <2> QED
    BY <2>3, <2>4
<1> QED
  BY <1>7, <1>8, <1>9 DEF PipelineInv

LEMMA WriteFailsStep ==
  ASSUME ConstantsOK, PipelineInv, NEW f \in Files, running # 0, WriteFails(f)
  PROVE  PipelineInv'
<1>1. PICK w \in {"asking", "gaveup"} :
        /\ work[f] = "writing" /\ work' = [work EXCEPT ![f] = w]
        /\ broken' = broken \cup {<<running, f>>}
        /\ UNCHANGED <<running, runs, resume, dir, raw, got, text>>
  BY DEF WriteFails, disk
<1>2. running \in Steps
  BY DEF PipelineInv, FilesExplained, TypeOK
<1>3. TypeOK'
  BY <1>1, <1>2 DEF PipelineInv, FilesExplained, TypeOK
<1>4. work'[f] = w /\ \A g \in Files : g # f => work'[g] = work[g]
  BY <1>1 DEF PipelineInv, FilesExplained, TypeOK
<1>5. FilesExplained'
  BY <1>1, <1>3, <1>4 DEF PipelineInv, FilesExplained, Writing
<1>6. \A g \in Files : (g \in Busy' => g \in Busy) /\ (Accounted(g) => Accounted(g)')
  BY <1>1, <1>4 DEF Busy, Accounted
<1>7. PoolInv'
  BY <1>1, <1>4, <1>6 DEF PipelineInv, PoolInv
<1> QED
  BY <1>5, <1>7 DEF PipelineInv

\* The end of a run, or its kill, leaves every torn file with its cause.
LEMMA EndStep ==
  ASSUME ConstantsOK, PipelineInv, Finish \/ Killed
  PROVE  PipelineInv'
<1>1. /\ UNCHANGED <<runs, resume, dir, work, got, text>>
      /\ raw' \in {raw, Torn, 1}
      /\ running' \in {0, running}
  BY DEF Finish, Ends, OpenRaw, WriteRaw, Killed, disk, pool
<1>2. \/ Killed
      \/ Settled /\ UNCHANGED broken
  BY DEF Finish, Ends, OpenRaw, WriteRaw
<1>3. broken' \subseteq Steps \X Files /\ broken \subseteq broken'
  <2>1. CASE Killed
    BY <2>1 DEF Killed, PipelineInv, FilesExplained, TypeOK
  <2>2. CASE UNCHANGED broken
    BY <2>2 DEF PipelineInv, FilesExplained, TypeOK
  <2> QED
    BY <1>2, <2>1, <2>2
<1>4. TypeOK'
  <2>1. raw' \in Torn .. 1
    BY <1>1 DEF PipelineInv, FilesExplained, TypeOK, Torn
  <2> QED
    BY <1>1, <1>3, <2>1 DEF PipelineInv, FilesExplained, TypeOK
<1>5. ASSUME NEW s \in Steps, NEW f \in Files, dir[s][f] = Torn
      PROVE  Writing(s, f)' \/ <<s, f>> \in broken'
  <2>1. Writing(s, f) \/ <<s, f>> \in broken
    BY <1>5 DEF PipelineInv, FilesExplained
  <2>2. CASE Killed /\ Writing(s, f)
    BY <2>2 DEF Killed, Writing
  <2>3. CASE Settled /\ Writing(s, f)
    BY <2>3 DEF Settled, Writing
  <2> QED
    BY <1>2, <1>3, <2>1, <2>2, <2>3
<1>6. FilesExplained'
  BY <1>1, <1>4, <1>5 DEF PipelineInv, FilesExplained
<1>7. PoolInv'
  <2>1. CASE running' = 0
    BY <1>1, <2>1 DEF PipelineInv, PoolInv, Late
  <2>2. CASE running' = running
    <3>1. \A f \in Files : (f \in Busy' <=> f \in Busy) /\ (Accounted(f) => Accounted(f)')
      BY <1>1, <1>3, <2>2 DEF Busy, Accounted
    <3> QED
      BY <1>1, <2>2, <3>1 DEF PipelineInv, PoolInv
  <2> QED
    BY <1>1, <2>1, <2>2
<1> QED
  BY <1>6, <1>7 DEF PipelineInv

LEMMA PipelineStep ==
  ASSUME ConstantsOK, PipelineInv, [Next]_vars
  PROVE  /\ PipelineInv'
         /\ \A s \in Late, f \in Files : Whole(dir[s][f]) => dir'[s][f] = dir[s][f]
<1>1. ASSUME NEW s \in Steps, Start(s)
      PROVE  PipelineInv' /\ UNCHANGED dir
  BY <1>1, StartStep DEF Start, disk
<1>2. ASSUME NEW f \in Files, running # 0, SkipFile(f) \/ TakeFile(f) \/ GiveUp(f) \/ WriteFails(f)
      PROVE  PipelineInv' /\ UNCHANGED dir
  BY <1>2, SkipStep, TakeStep, GiveUpStep, WriteFailsStep DEF SkipFile, TakeFile, GiveUp, WriteFails, disk
<1>3. CASE Finish \/ Killed
  BY <1>3, EndStep DEF Finish, Ends, OpenRaw, WriteRaw, Killed, disk
<1>4. CASE UNCHANGED vars
  <2>1. UNCHANGED <<running, runs, resume, dir, raw, work, got, text, broken>>
    BY <1>4 DEF vars, disk, pool
  <2>2. \A f : (Accounted(f) => Accounted(f)') /\ \A s : Writing(s, f) => Writing(s, f)'
    BY <2>1 DEF Accounted, Writing
  <2>3. Busy' = Busy
    BY <2>1 DEF Busy
  <2> QED
    BY <2>1, <2>2, <2>3 DEF PipelineInv, FilesExplained, TypeOK, PoolInv
<1> QED
  BY <1>1, <1>2, <1>3, <1>4, OpenStep, WriteStep DEF Next, Thread

\* Whatever is killed and started again, a torn file has its cause, and a file of spaces
\* belongs to the labels that are there.
THEOREM TornFilesExplained == ASSUME ConstantsOK PROVE Spec => []FilesExplained
<1>1. PipelineInv /\ [Next]_vars => PipelineInv'
  BY PipelineStep
<1>2. PipelineInv => FilesExplained
  BY DEF PipelineInv
<1> QED
  BY <1>1, <1>2, PipelineInit, PTL DEF Spec

\* What Steps 2 and 3 have finished they never open again.
THEOREM FinishedFilesStay == ASSUME ConstantsOK PROVE Spec => FinishedStays
<1>1. PipelineInv /\ [Next]_vars => PipelineInv'
  BY PipelineStep
<1>2. PipelineInv /\ [Next]_vars =>
        [\A s \in {2, 3}, f \in Files : Whole(dir[s][f]) => dir'[s][f] = dir[s][f]]_vars
  BY PipelineStep DEF Late
<1> QED
  BY <1>1, <1>2, PipelineInit, PTL DEF Spec, FinishedStays

\* A run of Step 2 or 3 that is not killed leaves no whole input without whole output,
\* except where attempts were used up or a torn output was in the way.
THEOREM RunsComplete == ASSUME ConstantsOK PROVE Spec => RunCompletes
<1>1. PipelineInv /\ [Next]_vars => PipelineInv'
  BY PipelineStep
<1>2. PipelineInv /\ [Next]_vars =>
        [Ends /\ running \in {2, 3} => \A f \in Files : Accounted(f)]_vars
  <2> SUFFICES ASSUME PipelineInv, Ends, running \in {2, 3}, NEW f \in Files
               PROVE  Accounted(f)
    OBVIOUS
  <2>1. work[f] \in {"out", "done", "gaveup"}
    BY DEF Ends, Settled
  <2>2. work[f] = "out" => ~Whole(dir[running - 1][f])
    BY DEF PipelineInv, PoolInv, Late, Whole, Absent
  <2> QED
    BY <2>1, <2>2 DEF PipelineInv, PoolInv, Late, Accounted
<1> QED
  BY <1>1, <1>2, PipelineInit, PTL DEF Spec, RunCompletes

-----------------------------------------------------------------------------
(* FileWork, step by step and file by file.                                *)

\* A thread with its file: the file's part of the step, and the others stay as they were.
LEMMA OtherFiles ==
  ASSUME PipelineInv, NEW f \in Files, running # 0, Thread(f), NEW s \in Steps, NEW g \in Files,
         s # running \/ g # f
  PROVE  UNCHANGED <<FileWorkOf(s, g), FileOutput(s, g)>>
<1>1. UNCHANGED running
  BY DEF Thread, SkipFile, TakeFile, GiveUp, OpenOutput, WriteOutput, WriteFails
<1>2. \A h \in Files : h # f => work'[h] = work[h]
  BY DEF Thread, SkipFile, TakeFile, GiveUp, OpenOutput, WriteOutput, WriteFails, PipelineInv,
         FilesExplained, TypeOK
<1>3. dir'[s][g] = dir[s][g]
  BY DEF Thread, SkipFile, TakeFile, GiveUp, OpenOutput, WriteOutput, WriteFails, PipelineInv,
         FilesExplained, TypeOK, disk
<1>4. FileOutput(s, g)' = FileOutput(s, g)
  BY <1>3 DEF FileOutput
<1>5. FileWorkOf(s, g)' = FileWorkOf(s, g)
  BY <1>1, <1>2 DEF FileWorkOf
<1> QED
  BY <1>4, <1>5

LEMMA OwnFile ==
  ASSUME ConstantsOK, PipelineInv, NEW f \in Files, NEW s \in Steps, running = s, Thread(f)
  PROVE  [File(s, f)!Next]_<<FileWorkOf(s, f), FileOutput(s, f)>>
<1> USE DEF FileWorkOf
<1>0. /\ running = s /\ running # 0 /\ UNCHANGED running
      /\ work \in [Files -> {"out", "queued", "asking", "writing", "done", "gaveup"}]
      /\ dir \in [Steps -> [Files -> Torn .. MaxRuns]]
  BY DEF PipelineInv, FilesExplained, TypeOK, Thread, SkipFile, TakeFile, GiveUp, OpenOutput,
         WriteOutput, WriteFails, Steps
<1>1. CASE SkipFile(f)
  <2>1. work[f] = "queued" /\ work'[f] = "done" /\ Skips(f) /\ UNCHANGED dir
    BY <1>0, <1>1 DEF SkipFile, disk
  <2>2. UNCHANGED FileOutput(s, f)
    BY <1>0, <2>1 DEF FileOutput
  <2>3. FileOutput(s, f) \in IF running = 1 THEN {"whole"} ELSE {"torn", "whole"}
    BY <1>0, <2>1, Versions DEF Skips, FileOutput, Whole
  <2> QED
    BY <1>0, <2>1, <2>2, <2>3 DEF File!Next, File!Skip, File!Idle
<1>2. CASE TakeFile(f)
  <2>1. work[f] = "queued" /\ work'[f] \in {"asking", "done"} /\ (running # 1 => ~Skips(f)) /\ UNCHANGED dir
    BY <1>0, <1>2 DEF TakeFile, Recuts, disk
  <2>2. work'[f] = "asking"
    <3>1. running = 2 => text'[f] # 0
      BY <1>2, TextFound2 DEF TakeFile, PipelineInv, PoolInv
    <3> QED
      BY <1>0, <1>2, <3>1 DEF TakeFile
  <2>3. UNCHANGED FileOutput(s, f)
    BY <1>0, <2>1 DEF FileOutput
  <2>4. running = 1 \/ FileOutput(s, f) = "absent"
    BY <1>0, <2>1, Versions DEF Skips, FileOutput, Whole
  <2> QED
    BY <1>0, <2>1, <2>2, <2>3, <2>4 DEF File!Next, File!Take, File!Idle
<1>3. CASE GiveUp(f)
  <2>1. work[f] = "asking" /\ work'[f] = "gaveup" /\ UNCHANGED FileOutput(s, f)
    BY <1>0, <1>3 DEF GiveUp, FileOutput, disk
  <2> QED
    BY <1>0, <2>1 DEF File!Next, File!GiveUp
<1>4. CASE OpenOutput(f)
  <2>1. work[f] = "asking" /\ work'[f] = "writing" /\ dir'[running][f] = Torn
    BY <1>0, <1>4 DEF OpenOutput
  <2>2. FileOutput(s, f)' = "torn"
    BY <1>0, <2>1, Versions DEF FileOutput, Whole
  <2>3. running = 1 \/ FileOutput(s, f) # "whole"
    BY <1>0, <2>1, Versions DEF PipelineInv, PoolInv, Late, Busy, FileOutput
  <2> QED
    BY <1>0, <2>1, <2>2, <2>3 DEF File!Next, File!Open
<1>5. CASE WriteOutput(f)
  <2>1. /\ work[f] = "writing" /\ work'[f] = "done"
        /\ dir'[running][f] = got[f] /\ Whole(got[f])
    BY <1>0, <1>5 DEF WriteOutput, PipelineInv, PoolInv
  <2>2. FileOutput(s, f)' = "whole"
    BY <1>0, <2>1 DEF FileOutput, Whole
  <2> QED
    BY <1>0, <2>1, <2>2 DEF File!Next, File!Fill
<1>6. CASE WriteFails(f)
  <2>1. /\ work[f] = "writing" /\ work'[f] \in IF running = 1 THEN {"gaveup"} ELSE {"asking", "gaveup"}
        /\ UNCHANGED FileOutput(s, f)
    BY <1>0, <1>6 DEF WriteFails, FileOutput, disk
  <2> QED
    BY <1>0, <2>1 DEF File!Next, File!FillFails
<1> QED
  BY <1>1, <1>2, <1>3, <1>4, <1>5, <1>6 DEF Thread

LEMMA FileStep ==
  ASSUME ConstantsOK, PipelineInv, [Next]_vars, NEW s \in Steps, NEW g \in Files
  PROVE  [File(s, g)!Next]_<<FileWorkOf(s, g), FileOutput(s, g)>>
<1>1. ASSUME NEW r \in Steps, Start(r)
      PROVE  UNCHANGED <<FileWorkOf(s, g), FileOutput(s, g)>>
  BY <1>1 DEF Start, FileWorkOf, FileOutput, disk, Steps
<1>2. ASSUME NEW f \in Files, running # 0, Thread(f)
      PROVE  [File(s, g)!Next]_<<FileWorkOf(s, g), FileOutput(s, g)>>
  <2>1. running \in Steps
    BY <1>2 DEF PipelineInv, FilesExplained, TypeOK
  <2>2. CASE s = running /\ f = g
    BY <1>2, <2>2, OwnFile
  <2>3. CASE s # running \/ f # g
    BY <1>2, <2>1, <2>3, OtherFiles
  <2> QED
    BY <2>2, <2>3
<1>3. CASE Finish \/ Killed
  <2>1. UNCHANGED <<dir, work>> /\ running' \in {0, running}
    BY <1>3 DEF Finish, Ends, OpenRaw, WriteRaw, Killed, disk, pool
  <2>2. UNCHANGED FileOutput(s, g)
    BY <2>1 DEF FileOutput
  <2>3. FileWorkOf(s, g)' \in {"out", FileWorkOf(s, g)}
    BY <2>1 DEF FileWorkOf, Steps
  <2> QED
    BY <2>2, <2>3 DEF File!Next, File!Leave
<1>4. CASE UNCHANGED vars
  BY <1>4 DEF vars, pool, disk, FileWorkOf, FileOutput
<1> QED
  BY <1>1, <1>2, <1>3, <1>4 DEF Next

\* Whatever runs, is killed and is started again over the directory, each step does with each
\* file what FileWork says, which is what Steps 1, 2 and 3 are shown to do with theirs.
THEOREM FileWorkImplemented == ASSUME ConstantsOK PROVE Spec => ImplementsFileWork
<1>1. PipelineInv /\ [Next]_vars => PipelineInv'
  BY PipelineStep
<1>2. PipelineInv /\ [Next]_vars =>
        [\A s \in Steps, f \in Files :
           [File(s, f)!Next]_<<FileWorkOf(s, f), FileOutput(s, f)>>]_vars
  BY FileStep
<1>3. Init => \A s \in Steps, f \in Files : File(s, f)!Init
  BY DEF Init, Steps, Absent, Torn, Whole, FileWorkOf, FileOutput, File!Init
<1> QED
  BY <1>1, <1>2, <1>3, PipelineInit, PTL DEF Spec, ImplementsFileWork
=============================================================================
