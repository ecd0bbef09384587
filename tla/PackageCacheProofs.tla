-------------------------- MODULE PackageCacheProofs --------------------------
(***************************************************************************)
(* Theorems about the caches of PackageCache, for any threads, boards and  *)
(* files, whatever is asked of them.                                       *)
(***************************************************************************)
EXTENDS PackageCache, TLAPS

\* Rewriting rules for the records of threads
LEMMA ThreadRecords ==
    ASSUME CacheTypeOK, NEW t \in Threads, ~At(t, "idle")
    PROVE  /\ thread[t] \in Working
           /\ thread[t].at \in Steps
           /\ thread[t].job \in Job
           /\ thread[t].job.path \in Files
           /\ thread[t].job.loader \in Loaders
           /\ thread[t].job.for \in Collections
BY DEF CacheTypeOK, At, Idle, Working, Job, Steps

\* All steps but the first are taken by threads at work
LEMMA AtWork ==
    ASSUME NEW t \in Threads,
           \/ FindLoaded(t) \/ BeginLoad(t) \/ FindEvaluated(t) \/ BeginEvaluation(t)
           \/ EndEvaluation(t) \/ FailEvaluation(t) \/ FailLoad(t) \/ EndLoad(t)
    PROVE  ~At(t, "idle")
BY DEF At, FindLoaded, BeginLoad, FindEvaluated, BeginEvaluation, EndEvaluation,
       FailEvaluation, FailLoad, EndLoad

\* A thread that moves on is still at work on its job
LEMMA GoTyping ==
    ASSUME CacheTypeOK, NEW t \in Threads, ~At(t, "idle"),
           NEW step \in Steps, Go(t, step)
    PROVE  /\ thread' \in [Threads -> {Idle} \union Working]
           /\ thread'[t].at = step
           /\ thread'[t].job = thread[t].job
           /\ \A u \in Threads \ {t} : thread'[u] = thread[u]
<1>1. thread[t] \in Working
    BY ThreadRecords
<1>2. [thread[t] EXCEPT !.at = step] \in Working
    BY <1>1 DEF Working
<1>3. thread \in [Threads -> {Idle} \union Working]
    BY DEF CacheTypeOK
<1>4. thread' = [thread EXCEPT ![t] = [thread[t] EXCEPT !.at = step]]
    BY <1>3 DEF Go
<1> QED
    BY <1>1, <1>2, <1>3, <1>4 DEF Working

LEMMA RestTyping ==
    ASSUME CacheTypeOK, NEW t \in Threads, Rest(t)
    PROVE  /\ thread' \in [Threads -> {Idle} \union Working]
           /\ thread'[t] = Idle
           /\ \A u \in Threads \ {t} : thread'[u] = thread[u]
BY DEF CacheTypeOK, Rest
----------------------------------------------------------------------------
(* Types                                                                   *)

LEMMA InitTypes == CacheInit => CacheTypeOK
BY DEF CacheInit, CacheTypeOK, Cell

LEMMA SetLoaderTyping ==
    ASSUME CacheTypeOK, NEW job \in Job, NEW value \in Cell, SetLoader(job, value)
    PROVE  /\ loaded' \in [Loaders -> [Files -> Cell]]
           /\ loaded'[job.loader][job.path] = value
           /\ \A l \in Loaders, p \in Files :
                  loaded'[l][p] = value \/ loaded'[l][p] = loaded[l][p]
BY DEF CacheTypeOK, SetLoader, Job

LEMMA SetEvaluatorTyping ==
    ASSUME CacheTypeOK, NEW job \in Job, NEW value \in Cell, SetEvaluator(job, value)
    PROVE  /\ evaluated' \in [Files -> Cell]
           /\ evaluated'[job.path] = value
           /\ \A p \in Files \ {job.path} : evaluated'[p] = evaluated[p]
BY DEF CacheTypeOK, SetEvaluator, Job

LEMMA StepTypes == CacheTypeOK /\ [CacheNext]_cacheVars => CacheTypeOK'
<1> SUFFICES ASSUME CacheTypeOK, [CacheNext]_cacheVars
             PROVE  CacheTypeOK'
    OBVIOUS
<1>1. ASSUME NEW asked \in SUBSET Job, Ask(asked)
      PROVE  CacheTypeOK'
    BY <1>1 DEF Ask, CacheTypeOK
<1>2. ASSUME NEW t \in Threads, NEW job \in jobs, Take(t, job)
      PROVE  CacheTypeOK'
    <2>1. [at |-> "loader", job |-> job] \in Working
        BY DEF CacheTypeOK, Working, Steps
    <2> QED
        BY <1>2, <2>1 DEF Take, CacheTypeOK
<1>3. ASSUME NEW job \in jobs, Leave(job)
      PROVE  CacheTypeOK'
    BY <1>3 DEF Leave, CacheTypeOK
<1>4. ASSUME NEW t \in Threads, FindLoaded(t)
      PROVE  CacheTypeOK'
    BY <1>4, RestTyping DEF FindLoaded, CacheTypeOK
<1>5. ASSUME NEW t \in Threads, ~At(t, "idle"), BeginLoad(t)
      PROVE  CacheTypeOK'
    BY <1>5, ThreadRecords, GoTyping, SetLoaderTyping DEF BeginLoad, CacheTypeOK, Steps, Cell
<1>6. ASSUME NEW t \in Threads, ~At(t, "idle"), FindEvaluated(t)
      PROVE  CacheTypeOK'
    BY <1>6, GoTyping DEF FindEvaluated, CacheTypeOK, Steps
<1>7. ASSUME NEW t \in Threads, ~At(t, "idle"), BeginEvaluation(t)
      PROVE  CacheTypeOK'
    BY <1>7, ThreadRecords, GoTyping, SetEvaluatorTyping
       DEF BeginEvaluation, CacheTypeOK, Steps, Cell
<1>8. ASSUME NEW t \in Threads, ~At(t, "idle"), EndEvaluation(t)
      PROVE  CacheTypeOK'
    <2>1. runs' \in [Files -> Nat]
        BY <1>8, ThreadRecords DEF EndEvaluation, CacheTypeOK
    <2> QED
        BY <1>8, <2>1, ThreadRecords, GoTyping, SetEvaluatorTyping
           DEF EndEvaluation, CacheTypeOK, Steps, Cell
<1>9. ASSUME NEW t \in Threads, ~At(t, "idle"), FailEvaluation(t)
      PROVE  CacheTypeOK'
    BY <1>9, ThreadRecords, GoTyping, SetEvaluatorTyping
       DEF FailEvaluation, CacheTypeOK, Steps, Cell
<1>10. ASSUME NEW t \in Threads, ~At(t, "idle"), FailLoad(t)
       PROVE  CacheTypeOK'
    BY <1>10, ThreadRecords, RestTyping, SetLoaderTyping DEF FailLoad, CacheTypeOK, Cell
<1>11. ASSUME NEW t \in Threads, ~At(t, "idle"), EndLoad(t)
       PROVE  CacheTypeOK'
    BY <1>11, ThreadRecords, RestTyping, SetLoaderTyping DEF EndLoad, CacheTypeOK, Cell
<1>12. ASSUME UNCHANGED cacheVars
       PROVE  CacheTypeOK'
    BY <1>12 DEF cacheVars, CacheTypeOK
<1> QED
    BY <1>1, <1>2, <1>3, <1>4, <1>5, <1>6, <1>7, <1>8, <1>9, <1>10, <1>11, <1>12, AtWork
       DEF CacheNext, Work

\* The types of the caches: a thread that is at work has a job of theirs, and
\* a cell is empty, being initialized or full
THEOREM CacheTyping == CacheSpec => []CacheTypeOK
BY InitTypes, StepTypes, PTL DEF CacheSpec
----------------------------------------------------------------------------
(* Bash is run once: a thread that runs it owns the cell of the ebuild,    *)
(* and a cell is full from the one run on                                  *)

Runs(t, p) == At(t, "bash") /\ thread[t].job.path = p
EvaluatorInv ==
    /\ \A t \in Threads, p \in Files : Runs(t, p) => evaluated[p] = "busy"
    /\ \A t, u \in Threads, p \in Files : Runs(t, p) /\ Runs(u, p) => t = u
    /\ \A t \in Threads : At(t, "parse") => evaluated[thread[t].job.path] = "full"
    /\ \A p \in Files : runs[p] = IF evaluated[p] = "full" THEN 1 ELSE 0
    /\ \A l \in Loaders, p \in Files : loaded[l][p] = "full" => evaluated[p] = "full"

LEMMA InitEvaluator == CacheInit => EvaluatorInv
BY DEF CacheInit, EvaluatorInv, Runs, At, Idle

LEMMA StepEvaluator ==
    CacheTypeOK /\ CacheTypeOK' /\ EvaluatorInv /\ [CacheNext]_cacheVars => EvaluatorInv'
<1> SUFFICES ASSUME CacheTypeOK, CacheTypeOK', EvaluatorInv, [CacheNext]_cacheVars
             PROVE  EvaluatorInv'
    OBVIOUS
<1>1. ASSUME NEW asked \in SUBSET Job, Ask(asked)
      PROVE  EvaluatorInv'
    BY <1>1 DEF Ask, EvaluatorInv, Runs, At
<1>2. ASSUME NEW t \in Threads, NEW job \in jobs, Take(t, job)
      PROVE  EvaluatorInv'
    <2>1. \A u \in Threads : ~At(u, "loader")' => thread'[u] = thread[u]
        BY <1>2 DEF Take, At, CacheTypeOK
    <2> QED
        BY <1>2, <2>1 DEF Take, EvaluatorInv, Runs, At
<1>3. ASSUME NEW job \in jobs, Leave(job)
      PROVE  EvaluatorInv'
    BY <1>3 DEF Leave, EvaluatorInv, Runs, At
<1>4. ASSUME NEW t \in Threads, FindLoaded(t)
      PROVE  EvaluatorInv'
    BY <1>4, RestTyping DEF FindLoaded, EvaluatorInv, Runs, At, Idle
<1>5. ASSUME NEW t \in Threads, ~At(t, "idle"), BeginLoad(t)
      PROVE  EvaluatorInv'
    BY <1>5, ThreadRecords, GoTyping, SetLoaderTyping
       DEF BeginLoad, EvaluatorInv, Runs, At, Steps, Cell
<1>6. ASSUME NEW t \in Threads, ~At(t, "idle"), FindEvaluated(t)
      PROVE  EvaluatorInv'
    BY <1>6, ThreadRecords, GoTyping DEF FindEvaluated, EvaluatorInv, Runs, At, Steps
<1>7. ASSUME NEW t \in Threads, ~At(t, "idle"), BeginEvaluation(t)
      PROVE  EvaluatorInv'
    BY <1>7, ThreadRecords, GoTyping, SetEvaluatorTyping
       DEF BeginEvaluation, EvaluatorInv, Runs, At, Steps, Cell
<1>8. ASSUME NEW t \in Threads, ~At(t, "idle"), EndEvaluation(t)
      PROVE  EvaluatorInv'
    <2> DEFINE p == thread[t].job.path
    <2>1. p \in Files /\ evaluated[p] = "busy" /\ runs[p] = 0
        BY <1>8, ThreadRecords DEF EndEvaluation, EvaluatorInv, Runs, At
    <2>2. evaluated'[p] = "full" /\ \A q \in Files \ {p} : evaluated'[q] = evaluated[q]
        BY <1>8, ThreadRecords, SetEvaluatorTyping DEF EndEvaluation, Cell
    <2>3. runs'[p] = 1 /\ \A q \in Files \ {p} : runs'[q] = runs[q]
        BY <1>8, <2>1 DEF EndEvaluation, CacheTypeOK
    <2>4. thread'[t].at = "parse" /\ thread'[t].job.path = p
          /\ \A u \in Threads \ {t} : thread'[u] = thread[u]
        BY <1>8, GoTyping DEF EndEvaluation, Steps
    <2>5. \A u \in Threads \ {t} : ~Runs(u, p)
        BY <1>8, <2>1 DEF EndEvaluation, EvaluatorInv, Runs
    <2> HIDE DEF p
    <2>6. \A u \in Threads, q \in Files : Runs(u, q)' => u # t /\ q # p /\ Runs(u, q)
        BY <2>4, <2>5 DEF Runs, At
    <2>7. \A u \in Threads, q \in Files : Runs(u, q)' => evaluated'[q] = "busy"
        BY <2>2, <2>6 DEF EvaluatorInv
    <2>8. \A u, v \in Threads, q \in Files : Runs(u, q)' /\ Runs(v, q)' => u = v
        BY <2>6 DEF EvaluatorInv
    <2>9. \A u \in Threads : At(u, "parse")' => evaluated'[thread'[u].job.path] = "full"
        <3> SUFFICES ASSUME NEW u \in Threads, u # t, At(u, "parse")
                     PROVE  evaluated'[thread[u].job.path] = "full"
            BY <2>2, <2>4 DEF At
        <3> QED
            BY <2>1, <2>2, ThreadRecords DEF EvaluatorInv, At
    <2>10. \A q \in Files : runs'[q] = IF evaluated'[q] = "full" THEN 1 ELSE 0
        BY <2>2, <2>3 DEF EvaluatorInv
    <2>11. \A l \in Loaders, q \in Files : loaded'[l][q] = "full" => evaluated'[q] = "full"
        BY <1>8, <2>2 DEF EndEvaluation, EvaluatorInv
    <2> QED
        BY <2>7, <2>8, <2>9, <2>10, <2>11 DEF EvaluatorInv
<1>9. ASSUME NEW t \in Threads, ~At(t, "idle"), FailEvaluation(t)
      PROVE  EvaluatorInv'
    <2> DEFINE p == thread[t].job.path
    <2>1. p \in Files /\ evaluated[p] = "busy"
        BY <1>9, ThreadRecords DEF FailEvaluation, EvaluatorInv, Runs, At
    <2>2. evaluated'[p] = "empty" /\ \A q \in Files \ {p} : evaluated'[q] = evaluated[q]
        BY <1>9, ThreadRecords, SetEvaluatorTyping DEF FailEvaluation, Cell
    <2>3. thread'[t].at = "error" /\ \A u \in Threads \ {t} : thread'[u] = thread[u]
        BY <1>9, GoTyping DEF FailEvaluation, Steps
    <2>4. \A u \in Threads \ {t} : ~Runs(u, p)
        BY <1>9, <2>1 DEF FailEvaluation, EvaluatorInv, Runs
    <2>5. \A u \in Threads : At(u, "parse") => thread[u].job.path \in Files \ {p}
        BY <2>1, ThreadRecords DEF EvaluatorInv, At
    <2> HIDE DEF p
    <2> QED
        BY <1>9, <2>1, <2>2, <2>3, <2>4, <2>5 DEF FailEvaluation, EvaluatorInv, Runs, At
<1>10. ASSUME NEW t \in Threads, ~At(t, "idle"), FailLoad(t)
       PROVE  EvaluatorInv'
    BY <1>10, ThreadRecords, RestTyping, SetLoaderTyping
       DEF FailLoad, EvaluatorInv, Runs, At, Idle, Cell
<1>11. ASSUME NEW t \in Threads, ~At(t, "idle"), EndLoad(t)
       PROVE  EvaluatorInv'
    <2> DEFINE job == thread[t].job
    <2>1. job \in Job /\ evaluated[job.path] = "full"
        BY <1>11, ThreadRecords DEF EndLoad, EvaluatorInv
    <2>2. \A l \in Loaders, q \in Files : loaded'[l][q] # loaded[l][q] => q = job.path
        BY <1>11, <2>1 DEF EndLoad, SetLoader, CacheTypeOK, Job
    <2>3. thread'[t].at = "idle" /\ \A u \in Threads \ {t} : thread'[u] = thread[u]
        BY <1>11, RestTyping DEF EndLoad, Idle
    <2> HIDE DEF job
    <2> QED
        BY <1>11, <2>1, <2>2, <2>3 DEF EndLoad, EvaluatorInv, Runs, At
<1>12. ASSUME UNCHANGED cacheVars
       PROVE  EvaluatorInv'
    BY <1>12 DEF cacheVars, EvaluatorInv, Runs, At
<1> QED
    BY <1>1, <1>2, <1>3, <1>4, <1>5, <1>6, <1>7, <1>8, <1>9, <1>10, <1>11, <1>12, AtWork
       DEF CacheNext, Work

\* For any threads, boards and files: the boards share one evaluation of an
\* ebuild, and have what they load only after it
THEOREM EvaluationIsShared == CacheSpec => [](EvaluatedOnce /\ EvaluatorInv)
<1>1. EvaluatorInv => EvaluatedOnce
    BY DEF EvaluatorInv, EvaluatedOnce
<1> QED
    BY <1>1, InitEvaluator, StepEvaluator, CacheTyping, PTL DEF CacheSpec
----------------------------------------------------------------------------
(* Nobody waits for good: a cell that is busy belongs to a thread, and of  *)
(* the threads at work one does not wait                                   *)

Loads(t, l, p) ==
    /\ thread[t].at \in {"evaluator", "bash", "parse", "error"}
    /\ thread[t].job.loader = l /\ thread[t].job.path = p
HeldInv ==
    /\ \A l \in Loaders, p \in Files : loaded[l][p] = "busy" => \E t \in Threads : Loads(t, l, p)
    /\ \A p \in Files : evaluated[p] = "busy" => \E t \in Threads : Runs(t, p)

Waits(t) ==
    \/ At(t, "loader") /\ LoaderCell(thread[t].job) = "busy"
    \/ At(t, "evaluator") /\ evaluated[thread[t].job.path] = "busy"
SomebodyMoves ==
    (\E t \in Threads : ~At(t, "idle")) => \E t \in Threads : ~At(t, "idle") /\ ~Waits(t)

LEMMA InitHeld == CacheInit => HeldInv
BY DEF CacheInit, HeldInv

\* A step of one thread that leaves the others, and all cells but those it
\* gives up or holds itself, keeps every busy cell in somebody's hands
LEMMA HeldByStep ==
    ASSUME HeldInv, NEW t \in Threads,
           \A u \in Threads \ {t} : thread'[u] = thread[u],
           \A l \in Loaders, p \in Files : loaded'[l][p] = "busy" =>
               \/ Loads(t, l, p)'
               \/ loaded[l][p] = "busy" /\ ~Loads(t, l, p),
           \A p \in Files : evaluated'[p] = "busy" =>
               \/ Runs(t, p)'
               \/ evaluated[p] = "busy" /\ ~Runs(t, p)
    PROVE  HeldInv'
<1>1. ASSUME NEW l \in Loaders, NEW p \in Files, loaded'[l][p] = "busy", ~Loads(t, l, p)'
      PROVE  \E u \in Threads : Loads(u, l, p)'
    <2>1. PICK u \in Threads : Loads(u, l, p)
        BY <1>1 DEF HeldInv
    <2> QED
        BY <1>1, <2>1 DEF Loads
<1>2. ASSUME NEW p \in Files, evaluated'[p] = "busy", ~Runs(t, p)'
      PROVE  \E u \in Threads : Runs(u, p)'
    <2>1. PICK u \in Threads : Runs(u, p)
        BY <1>2 DEF HeldInv
    <2> QED
        BY <1>2, <2>1 DEF Runs, At
<1> QED
    BY <1>1, <1>2 DEF HeldInv

LEMMA StepHeld ==
    CacheTypeOK /\ CacheTypeOK' /\ HeldInv /\ [CacheNext]_cacheVars => HeldInv'
<1> SUFFICES ASSUME CacheTypeOK, CacheTypeOK', HeldInv, [CacheNext]_cacheVars
             PROVE  HeldInv'
    OBVIOUS
<1>1. ASSUME NEW asked \in SUBSET Job, Ask(asked)
      PROVE  HeldInv'
    BY <1>1 DEF Ask, HeldInv, Loads, Runs, At
<1>2. ASSUME NEW t \in Threads, NEW job \in jobs, Take(t, job)
      PROVE  HeldInv'
    <2>1. \A u \in Threads \ {t} : thread'[u] = thread[u]
        BY <1>2 DEF Take, CacheTypeOK
    <2>2. \A l \in Loaders, p \in Files : ~Loads(t, l, p) /\ ~Runs(t, p)
        BY <1>2 DEF Take, At, Loads, Runs
    <2>3. \A l \in Loaders, p \in Files : loaded'[l][p] = "busy" =>
              Loads(t, l, p)' \/ (loaded[l][p] = "busy" /\ ~Loads(t, l, p))
        BY <1>2, <2>2 DEF Take
    <2>4. \A p \in Files : evaluated'[p] = "busy" =>
              Runs(t, p)' \/ (evaluated[p] = "busy" /\ ~Runs(t, p))
        BY <1>2, <2>2, ThreadRecords DEF Take, At, Runs
    <2> QED
        BY <2>1, <2>3, <2>4, HeldByStep
<1>3. ASSUME NEW job \in jobs, Leave(job)
      PROVE  HeldInv'
    BY <1>3 DEF Leave, HeldInv, Loads, Runs, At
<1>4. ASSUME NEW t \in Threads, ~At(t, "idle"), FindLoaded(t)
     PROVE  HeldInv'
    <2>1. /\ \A u \in Threads \ {t} : thread'[u] = thread[u]
          /\ thread'[t].at = "idle"
        BY <1>4, RestTyping DEF FindLoaded, Steps, Idle
    <2>2. \A l \in Loaders, p \in Files : loaded'[l][p] = "busy" =>
              Loads(t, l, p)' \/ (loaded[l][p] = "busy" /\ ~Loads(t, l, p))
        BY <1>4, <2>1, ThreadRecords DEF FindLoaded, At, Loads
    <2>3. \A p \in Files : evaluated'[p] = "busy" =>
              Runs(t, p)' \/ (evaluated[p] = "busy" /\ ~Runs(t, p))
        BY <1>4, <2>1, ThreadRecords DEF FindLoaded, At, Runs
    <2> QED
        BY <2>1, <2>2, <2>3, HeldByStep
<1>5. ASSUME NEW t \in Threads, ~At(t, "idle"), BeginLoad(t)
     PROVE  HeldInv'
    <2>1. /\ \A u \in Threads \ {t} : thread'[u] = thread[u]
          /\ thread'[t].at = "evaluator" /\ thread'[t].job = thread[t].job
        BY <1>5, GoTyping DEF BeginLoad, Steps, Idle
    <2>2. \A l \in Loaders, p \in Files : loaded'[l][p] = "busy" =>
              Loads(t, l, p)' \/ (loaded[l][p] = "busy" /\ ~Loads(t, l, p))
        BY <1>5, <2>1, ThreadRecords DEF BeginLoad, At, Loads, SetLoader, CacheTypeOK, Job
    <2>3. \A p \in Files : evaluated'[p] = "busy" =>
              Runs(t, p)' \/ (evaluated[p] = "busy" /\ ~Runs(t, p))
        BY <1>5, <2>1, ThreadRecords DEF BeginLoad, At, Runs
    <2> QED
        BY <2>1, <2>2, <2>3, HeldByStep
<1>6. ASSUME NEW t \in Threads, ~At(t, "idle"), FindEvaluated(t)
     PROVE  HeldInv'
    <2>1. /\ \A u \in Threads \ {t} : thread'[u] = thread[u]
          /\ thread'[t].at = "parse" /\ thread'[t].job = thread[t].job
        BY <1>6, GoTyping DEF FindEvaluated, Steps, Idle
    <2>2. \A l \in Loaders, p \in Files : loaded'[l][p] = "busy" =>
              Loads(t, l, p)' \/ (loaded[l][p] = "busy" /\ ~Loads(t, l, p))
        BY <1>6, <2>1, ThreadRecords DEF FindEvaluated, At, Loads
    <2>3. \A p \in Files : evaluated'[p] = "busy" =>
              Runs(t, p)' \/ (evaluated[p] = "busy" /\ ~Runs(t, p))
        BY <1>6, <2>1, ThreadRecords DEF FindEvaluated, At, Runs
    <2> QED
        BY <2>1, <2>2, <2>3, HeldByStep
<1>7. ASSUME NEW t \in Threads, ~At(t, "idle"), BeginEvaluation(t)
     PROVE  HeldInv'
    <2>1. /\ \A u \in Threads \ {t} : thread'[u] = thread[u]
          /\ thread'[t].at = "bash" /\ thread'[t].job = thread[t].job
        BY <1>7, GoTyping DEF BeginEvaluation, Steps, Idle
    <2>2. \A l \in Loaders, p \in Files : loaded'[l][p] = "busy" =>
              Loads(t, l, p)' \/ (loaded[l][p] = "busy" /\ ~Loads(t, l, p))
        BY <1>7, <2>1, ThreadRecords DEF BeginEvaluation, At, Loads
    <2>3. \A p \in Files : evaluated'[p] = "busy" =>
              Runs(t, p)' \/ (evaluated[p] = "busy" /\ ~Runs(t, p))
        BY <1>7, <2>1, ThreadRecords DEF BeginEvaluation, At, Runs, SetEvaluator, CacheTypeOK, Job
    <2> QED
        BY <2>1, <2>2, <2>3, HeldByStep
<1>8. ASSUME NEW t \in Threads, ~At(t, "idle"), EndEvaluation(t)
     PROVE  HeldInv'
    <2>1. /\ \A u \in Threads \ {t} : thread'[u] = thread[u]
          /\ thread'[t].at = "parse" /\ thread'[t].job = thread[t].job
        BY <1>8, GoTyping DEF EndEvaluation, Steps, Idle
    <2>2. \A l \in Loaders, p \in Files : loaded'[l][p] = "busy" =>
              Loads(t, l, p)' \/ (loaded[l][p] = "busy" /\ ~Loads(t, l, p))
        BY <1>8, <2>1, ThreadRecords DEF EndEvaluation, At, Loads
    <2>3. \A p \in Files : evaluated'[p] = "busy" =>
              Runs(t, p)' \/ (evaluated[p] = "busy" /\ ~Runs(t, p))
        BY <1>8, <2>1, ThreadRecords DEF EndEvaluation, At, Runs, SetEvaluator, CacheTypeOK, Job
    <2> QED
        BY <2>1, <2>2, <2>3, HeldByStep
<1>9. ASSUME NEW t \in Threads, ~At(t, "idle"), FailEvaluation(t)
     PROVE  HeldInv'
    <2>1. /\ \A u \in Threads \ {t} : thread'[u] = thread[u]
          /\ thread'[t].at = "error" /\ thread'[t].job = thread[t].job
        BY <1>9, GoTyping DEF FailEvaluation, Steps, Idle
    <2>2. \A l \in Loaders, p \in Files : loaded'[l][p] = "busy" =>
              Loads(t, l, p)' \/ (loaded[l][p] = "busy" /\ ~Loads(t, l, p))
        BY <1>9, <2>1, ThreadRecords DEF FailEvaluation, At, Loads
    <2>3. \A p \in Files : evaluated'[p] = "busy" =>
              Runs(t, p)' \/ (evaluated[p] = "busy" /\ ~Runs(t, p))
        BY <1>9, <2>1, ThreadRecords DEF FailEvaluation, At, Runs, SetEvaluator, CacheTypeOK, Job
    <2> QED
        BY <2>1, <2>2, <2>3, HeldByStep
<1>10. ASSUME NEW t \in Threads, ~At(t, "idle"), FailLoad(t)
      PROVE  HeldInv'
    <2>1. /\ \A u \in Threads \ {t} : thread'[u] = thread[u]
          /\ thread'[t].at = "idle"
        BY <1>10, RestTyping DEF FailLoad, Steps, Idle
    <2>2. \A l \in Loaders, p \in Files : loaded'[l][p] = "busy" =>
              Loads(t, l, p)' \/ (loaded[l][p] = "busy" /\ ~Loads(t, l, p))
        BY <1>10, <2>1, ThreadRecords DEF FailLoad, At, Loads, SetLoader, CacheTypeOK, Job
    <2>3. \A p \in Files : evaluated'[p] = "busy" =>
              Runs(t, p)' \/ (evaluated[p] = "busy" /\ ~Runs(t, p))
        BY <1>10, <2>1, ThreadRecords DEF FailLoad, At, Runs
    <2> QED
        BY <2>1, <2>2, <2>3, HeldByStep
<1>11. ASSUME NEW t \in Threads, ~At(t, "idle"), EndLoad(t)
      PROVE  HeldInv'
    <2>1. /\ \A u \in Threads \ {t} : thread'[u] = thread[u]
          /\ thread'[t].at = "idle"
        BY <1>11, RestTyping DEF EndLoad, Steps, Idle
    <2>2. \A l \in Loaders, p \in Files : loaded'[l][p] = "busy" =>
              Loads(t, l, p)' \/ (loaded[l][p] = "busy" /\ ~Loads(t, l, p))
        BY <1>11, <2>1, ThreadRecords DEF EndLoad, At, Loads, SetLoader, CacheTypeOK, Job
    <2>3. \A p \in Files : evaluated'[p] = "busy" =>
              Runs(t, p)' \/ (evaluated[p] = "busy" /\ ~Runs(t, p))
        BY <1>11, <2>1, ThreadRecords DEF EndLoad, At, Runs
    <2> QED
        BY <2>1, <2>2, <2>3, HeldByStep
<1>12. ASSUME UNCHANGED cacheVars
       PROVE  HeldInv'
    BY <1>12 DEF cacheVars, HeldInv, Loads, Runs, At
<1> QED
    BY <1>1, <1>2, <1>3, <1>4, <1>5, <1>6, <1>7, <1>8, <1>9, <1>10, <1>11, <1>12, AtWork
       DEF CacheNext, Work

\* Who waits for the cell of a loader waits for a thread that evaluates or
\* loads, and who waits for the evaluator waits for one that runs bash
LEMMA SomebodyDoes == CacheTypeOK /\ HeldInv => SomebodyMoves
<1> SUFFICES ASSUME CacheTypeOK, HeldInv, NEW t \in Threads, ~At(t, "idle")
             PROVE  \E u \in Threads : ~At(u, "idle") /\ ~Waits(u)
    BY DEF SomebodyMoves
<1>1. ASSUME NEW u \in Threads, At(u, "evaluator")
      PROVE  \E v \in Threads : ~At(v, "idle") /\ ~Waits(v)
    <2>1. CASE evaluated[thread[u].job.path] = "busy"
        <3>1. thread[u].job.path \in Files
            BY <1>1, ThreadRecords DEF At
        <3>2. PICK v \in Threads : Runs(v, thread[u].job.path)
            BY <2>1, <3>1 DEF HeldInv
        <3> QED
            BY <3>2 DEF Runs, At, Waits
    <2> QED
        BY <1>1, <2>1 DEF At, Waits
<1>2. CASE At(t, "loader") /\ LoaderCell(thread[t].job) = "busy"
    <2>1. PICK u \in Threads : Loads(u, thread[t].job.loader, thread[t].job.path)
        BY <1>2, ThreadRecords DEF HeldInv, LoaderCell
    <2>2. CASE At(u, "evaluator")
        BY <1>1, <2>2
    <2> QED
        BY <2>1, <2>2 DEF Loads, At, Waits
<1> QED
    BY <1>1, <1>2 DEF At, Waits

\* For any threads, boards and files: the caches never have all threads wait
\* for each other, however loads fail
THEOREM NoStandstill == CacheSpec => [](SomebodyMoves /\ HeldInv)
BY InitHeld, StepHeld, SomebodyDoes, CacheTyping, PTL DEF CacheSpec
===============================================================================
