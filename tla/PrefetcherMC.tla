---------------------------- MODULE PrefetcherMC ----------------------------
\* Model-checking instances of Prefetcher.
EXTENDS Prefetcher, TLC

\* The workers are interchangeable: nothing looks at worker_id but a log line.
WorkerSymmetry == Permutations(Workers)
=============================================================================
