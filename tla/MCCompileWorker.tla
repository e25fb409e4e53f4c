--------------------------- MODULE MCCompileWorker ---------------------------
(* The two ways overlay code is compiled while the game runs.  A behaviour   *)
(* exercises one part: the worker thread with arbitrary requests, the worker *)
(* as the dispatch thread uses it and picks its shards up, or the external   *)
(* compiler.                                                                 *)
(*                                                                           *)
(* A ring of two, a table of three and four keys: the ring wraps, fills, and *)
(* the table must evict finished rows to accept a new request.  Two shards   *)
(* share an address; the file of a third cannot be read, so its address      *)
(* keeps missing and rescanning.  The cache is empty at the start.  The      *)
(* memo of loaded files has one place and the candidate table three: both    *)
(* fill.  Two variants of an overlay in one region share a dispatched        *)
(* address and have one each of their own.                                   *)
EXTENDS ShardCache, MCAutocompile

VARIABLE part

mcVars == <<cacheVars, autoVars, part>>

MCPhysOf == [k \in {"k1", "k2", "k3"} |-> IF k = "k3" THEN "q" ELSE "p"]

\* The parts a behaviour does not exercise start in one of their states.
MCInit ==
  /\ ShardInit /\ AutoInit /\ part \in {"worker", "shards", "autocompile"}
  /\ part # "shards" => live = [p \in Phys |-> IF p = "q" THEN "k3" ELSE "k1"]
  /\ dir = {}
  /\ part # "autocompile" => image = "v1" /\ ~faults /\ dlls = {}

On(p, A) == part = p /\ A /\ UNCHANGED part
WorkerOnly(A) == On("worker", A /\ UNCHANGED <<shardVars, autoVars>>)
ShardsOnly(A) == On("shards", A /\ UNCHANGED autoVars)
AutoOnly(A) == On("autocompile", A /\ UNCHANGED <<faults, cacheVars>>)

MCNext ==
  \/ WorkerOnly(Next)
  \/ ShardsOnly(ShardNext)
  \/ AutoOnly(AutoNext)

\* Fairness, ShardFairness and AutoFairness, each for its part.
MCSpec ==
  /\ MCInit /\ [][MCNext]_mcVars
  /\ WF_mcVars(WorkerOnly(Worker)) /\ WF_mcVars(WorkerOnly(StopJoin))
  /\ WF_mcVars(ShardsOnly(DispatchRest)) /\ WF_mcVars(ShardsOnly(ShardWorker))
  /\ WF_mcVars(ShardsOnly(StopJoin /\ UNCHANGED shardVars))
  /\ \A p \in Phys : SF_mcVars(ShardsOnly(Miss(p)))
  /\ WF_mcVars(AutoOnly(Frame)) /\ WF_mcVars(AutoOnly(Compile))
  /\ \A a \in Addresses : SF_mcVars(AutoOnly(dispatch_impl(a)))
=============================================================================
