----------------------------- MODULE MCJobFlow -----------------------------
(***************************************************************************)
(* Instances of JobFlow for TLC: jobs, handlers and workers are model      *)
(* values; each worker process runs a single goroutine.                    *)
(***************************************************************************)
EXTENDS JobFlow, TLC

\* WORKER_COUNT = 1 in every worker process.
SingleWorkerPools == {{w} : w \in Workers}

\* A limit below one, which buys a single attempt, and one that allows a retry.
EdgeLimits == {-1, 2}

\* Jobs, handlers and workers are interchangeable.
Symmetry ==
  Permutations(JobIds) \cup Permutations(Workers) \cup Permutations(Handlers)

\* The same without the jobs, for instances with a single one.
ProcessSymmetry == Permutations(Workers) \cup Permutations(Handlers)
=============================================================================
