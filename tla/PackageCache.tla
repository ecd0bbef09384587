----------------------------- MODULE PackageCache -----------------------------
(***************************************************************************)
(* The caches alchemist's threads load packages through.  Each board has a *)
(* CachedPackageLoader, which keeps the packages as the configuration of   *)
(* the board shows them; all share one CachedEBuildEvaluator, which runs   *)
(* bash and keeps what it says of an ebuild.  A cache is a map from paths  *)
(* to cells that are initialized at most once; a cell whose initialization *)
(* fails is empty again.                                                   *)
(*                                                                         *)
(* The threads of a pool map collections of paths in parallel.  A job is   *)
(* one path of one collection; the first error of a collection lets the    *)
(* pool leave out what it has not begun of it.                             *)
(***************************************************************************)
EXTENDS Naturals

CONSTANTS
    Threads,
    Loaders,        \* the boards
    Files,          \* paths of ebuilds
    Malformed,      \* those whose names cannot be parsed
    Collections

ASSUME MalformedAssumption == Malformed \subseteq Files

Job == [loader : Loaders, path : Files, for : Collections]
Steps == {"loader", "evaluator", "bash", "parse", "error"}
Cell == {"empty", "busy", "full"}

VARIABLES
    jobs,       \* what no thread has begun
    thread,     \* the job of each thread, and how far it is
    loaded,     \* the cells of the loaders
    evaluated,  \* the cells of the evaluator
    runs,       \* how often bash has been run for each ebuild
    failed      \* the collections of which a load has failed

cacheVars == <<jobs, thread, loaded, evaluated, runs, failed>>

Idle == [at |-> "idle"]
Working == [at : Steps, job : Job]

CacheTypeOK ==
    /\ jobs \subseteq Job
    /\ thread \in [Threads -> {Idle} \union Working]
    /\ loaded \in [Loaders -> [Files -> Cell]]
    /\ evaluated \in [Files -> Cell]
    /\ runs \in [Files -> Nat]
    /\ failed \subseteq Collections

CacheInit ==
    /\ jobs = {}
    /\ thread = [t \in Threads |-> Idle]
    /\ loaded = [l \in Loaders |-> [p \in Files |-> "empty"]]
    /\ evaluated = [p \in Files |-> "empty"]
    /\ runs = [p \in Files |-> 0]
    /\ failed = {}

At(t, step) == thread[t].at = step
Go(t, step) == thread' = [thread EXCEPT ![t].at = step]
Rest(t) == thread' = [thread EXCEPT ![t] = Idle]
LoaderCell(job) == loaded[job.loader][job.path]
SetLoader(job, value) == loaded' = [loaded EXCEPT ![job.loader][job.path] = value]
SetEvaluator(job, value) == evaluated' = [evaluated EXCEPT ![job.path] = value]

\* All that was asked is answered
Quiet == jobs = {} /\ \A t \in Threads : thread[t] = Idle

\* The pool is given the paths of some collections
Ask(asked) ==
    /\ Quiet
    /\ jobs' = asked
    /\ failed' = {}
    /\ UNCHANGED <<thread, loaded, evaluated, runs>>

Take(t, job) ==
    /\ At(t, "idle")
    /\ job \in jobs
    /\ jobs' = jobs \ {job}
    /\ thread' = [thread EXCEPT ![t] = [at |-> "loader", job |-> job]]
    /\ UNCHANGED <<loaded, evaluated, runs, failed>>

\* What is left of a collection that has failed may not be begun
Leave(job) ==
    /\ job \in jobs
    /\ job.for \in failed
    /\ jobs' = jobs \ {job}
    /\ UNCHANGED <<thread, loaded, evaluated, runs, failed>>

(* CachedPackageLoader::load_package: get_or_try_init gives what is there, *)
(* waits while another thread initializes the cell, or initializes it      *)
FindLoaded(t) ==
    /\ At(t, "loader")
    /\ LoaderCell(thread[t].job) = "full"
    /\ Rest(t)
    /\ UNCHANGED <<jobs, loaded, evaluated, runs, failed>>

BeginLoad(t) ==
    /\ At(t, "loader")
    /\ LoaderCell(thread[t].job) = "empty"
    /\ SetLoader(thread[t].job, "busy")
    /\ Go(t, "evaluator")
    /\ UNCHANGED <<jobs, evaluated, runs, failed>>

\* CachedEBuildEvaluator::evaluate_metadata
FindEvaluated(t) ==
    /\ At(t, "evaluator")
    /\ evaluated[thread[t].job.path] = "full"
    /\ Go(t, "parse")
    /\ UNCHANGED <<jobs, loaded, evaluated, runs, failed>>

BeginEvaluation(t) ==
    /\ At(t, "evaluator")
    /\ evaluated[thread[t].job.path] = "empty"
    /\ SetEvaluator(thread[t].job, "busy")
    /\ Go(t, "bash")
    /\ UNCHANGED <<jobs, loaded, runs, failed>>

\* Mutant: what bash says is used, and not kept
EndEvaluationForgotten(t) ==
    /\ At(t, "bash")
    /\ thread[t].job.path \notin Malformed
    /\ runs' = [runs EXCEPT ![thread[t].job.path] = @ + 1]
    /\ SetEvaluator(thread[t].job, "empty")
    /\ Go(t, "parse")
    /\ UNCHANGED <<jobs, loaded, failed>>

\* What bash says is kept, that it failed too
EndEvaluation(t) ==
    /\ At(t, "bash")
    /\ thread[t].job.path \notin Malformed
    /\ runs' = [runs EXCEPT ![thread[t].job.path] = @ + 1]
    /\ SetEvaluator(thread[t].job, "full")
    /\ Go(t, "parse")
    /\ UNCHANGED <<jobs, loaded, failed>>

\* A malformed name is an error of both cells, found before bash is run
FailEvaluation(t) ==
    /\ At(t, "bash")
    /\ thread[t].job.path \in Malformed
    /\ SetEvaluator(thread[t].job, "empty")
    /\ Go(t, "error")
    /\ UNCHANGED <<jobs, loaded, runs, failed>>

\* Mutant: the cell of a load that fails stays busy
FailLoadBusy(t) ==
    /\ At(t, "error")
    /\ failed' = failed \union {thread[t].job.for}
    /\ Rest(t)
    /\ UNCHANGED <<jobs, loaded, evaluated, runs>>

FailLoad(t) ==
    /\ At(t, "error")
    /\ SetLoader(thread[t].job, "empty")
    /\ failed' = failed \union {thread[t].job.for}
    /\ Rest(t)
    /\ UNCHANGED <<jobs, evaluated, runs>>

EndLoad(t) ==
    /\ At(t, "parse")
    /\ SetLoader(thread[t].job, "full")
    /\ Rest(t)
    /\ UNCHANGED <<jobs, evaluated, runs, failed>>

Work(t) ==
    \/ \E job \in jobs : Take(t, job) \/ Leave(job)
    \/ FindLoaded(t)
    \/ BeginLoad(t)
    \/ FindEvaluated(t)
    \/ BeginEvaluation(t)
    \/ EndEvaluation(t)
    \/ FailEvaluation(t)
    \/ FailLoad(t)
    \/ EndLoad(t)
----------------------------------------------------------------------------
\* The caches on their own, asked for anything at any time
CacheNext == (\E asked \in SUBSET Job : Ask(asked)) \/ (\E t \in Threads : Work(t))
CacheSpec == CacheInit /\ [][CacheNext]_cacheVars

(* "We share an evaluator between both config ROOTS so we only have to     *)
(* parse the ebuilds once": bash is run at most once for an ebuild, by     *)
(* whichever thread and for whichever board it is asked first, and all     *)
(* that has been loaded has been evaluated                                 *)
EvaluatedOnce ==
    \A p \in Files :
        /\ runs[p] <= 1
        /\ (\E l \in Loaders : loaded[l][p] = "full") => runs[p] = 1
===============================================================================
