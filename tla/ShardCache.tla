------------------------------ MODULE ShardCache ------------------------------
(***************************************************************************)
(* How a shard gets from the compile worker into the dispatch thread's     *)
(* candidate table: a dispatch miss hands the live bytes to the worker,    *)
(* the worker publishes the shard as a file (temp, rename) and raises a    *)
(* flag, and a later miss lowers the flag, scans the directory and         *)
(* registers what it finds (overlay_loader.c).  Only the file system and   *)
(* the flag are shared; the candidate table belongs to the dispatch        *)
(* thread.  A shard is the Key it was compiled from.                       *)
(***************************************************************************)
EXTENDS CompileWorker

LOCAL INSTANCE Functions

CONSTANTS
  Phys,             \* entry addresses in the overlay window
  PhysOf,           \* the address at which the bytes of a key are loaded
  Bad,              \* keys whose file does not deserialize
  MAX_LOADED_BLOBS, \* capacity of s_loaded_blobs
  MAX_SLJIT_TRIED,  \* capacity of s_sljit_tried
  CAND_DYNAMIC_CAP  \* candidates the table has room for

ASSUME ShardAssumption ==
  /\ DOMAIN PhysOf \subseteq Keys /\ IsFiniteSet(DOMAIN PhysOf) /\ Bad \subseteq Keys
  /\ MAX_LOADED_BLOBS \in Nat /\ MAX_SLJIT_TRIED \in Nat /\ CAND_DYNAMIC_CAP \in Nat

\* The keys of code the game loads.
ShardKeys == DOMAIN PhysOf

VARIABLES
  dir,     \* complete shard files in the cache directory
  flag,    \* s_async_cache_dirty
  pub,     \* how far the worker's publish of its item is
  dpc,     \* where the dispatch thread is in dispatch_impl
  at,      \* the address it dispatches, NoKey between dispatches
  todo,    \* the files its enumeration has still to return
  loaded,  \* s_loaded_blobs
  regs,    \* how often each shard was registered as a candidate
  tried,   \* s_sljit_tried
  live     \* the key of the bytes RAM holds at each address

shardVars == <<dir, flag, pub, dpc, at, todo, loaded, regs, tried, live>>
cacheVars == <<vars, shardVars>>

\* s_cand_n < s_cand_cap
CandRoom == SumFunction(regs) < CAND_DYNAMIC_CAP

idx_head(p) == \E k \in ShardKeys : PhysOf[k] = p /\ regs[k] > 0

\* An earlier session's files are registered by the scan at init.
ShardInit ==
  /\ Init
  /\ dir \in SUBSET ShardKeys /\ loaded = dir \ Bad
  /\ Cardinality(loaded) <= MAX_LOADED_BLOBS
  /\ Cardinality(loaded) <= CAND_DYNAMIC_CAP
  /\ regs = [k \in ShardKeys |-> IF k \in loaded THEN 1 ELSE 0]
  /\ flag = FALSE /\ pub = "none" /\ dpc = "run" /\ at = NoKey /\ todo = {}
  /\ tried = {}
  /\ live \in {l \in [Phys -> ShardKeys] : \A p \in Phys : PhysOf[l[p]] = p}

-----------------------------------------------------------------------------
(* The dispatch thread *)

\* Other bytes are loaded at an address.
LoadOverlay(k) ==
  /\ dpc = "run" /\ main = "run"
  /\ live' = [live EXCEPT ![PhysOf[k]] = k]
  /\ UNCHANGED <<vars, dir, flag, pub, dpc, at, todo, loaded, regs, tried>>

\* A miss that does not look whether the worker has published.
Miss_noscan(p) ==
  /\ dpc = "run" /\ main = "run" /\ ~idx_head(p)
  /\ at' = p /\ dpc' = "miss"
  /\ UNCHANGED <<vars, dir, flag, pub, todo, loaded, regs, tried, live>>
\* dispatch_impl, no candidate at p: async_cache_dirty_exchange(0) comes first.
Miss(p) ==
  /\ dpc = "run" /\ main = "run" /\ ~idx_head(p)
  /\ at' = p
  /\ dpc' = IF flag THEN "scan" ELSE "miss"
  /\ todo' = IF flag THEN dir ELSE {}
  /\ flag' = FALSE
  /\ UNCHANGED <<vars, dir, pub, loaded, regs, tried, live>>

\* A full candidate table drops the shard, and the caller does not notice.
register_sljit_candidate(k) ==
  regs' = IF CandRoom THEN [regs EXCEPT ![k] = @ + 1] ELSE regs

\* blob_mark_loaded: a full memo forgets the file.
blob_mark_loaded(k) ==
  loaded' = IF Cardinality(loaded) < MAX_LOADED_BLOBS THEN loaded \cup {k} ELSE loaded

\* Registering without asking blob_already_loaded.
ScanFile_again(k) ==
  /\ dpc = "scan" /\ k \in todo
  /\ todo' = todo \ {k}
  /\ IF k \in Bad THEN UNCHANGED <<regs, loaded>>
     ELSE register_sljit_candidate(k) /\ blob_mark_loaded(k)
  /\ UNCHANGED <<vars, dir, flag, pub, dpc, at, tried, live>>
\* One file of scan_sljit_cache_dir.
ScanFile(k) ==
  /\ dpc = "scan" /\ k \in todo
  /\ todo' = todo \ {k}
  /\ IF k \in loaded \/ k \in Bad THEN UNCHANGED <<regs, loaded>>
     ELSE register_sljit_candidate(k) /\ blob_mark_loaded(k)
  /\ UNCHANGED <<vars, dir, flag, pub, dpc, at, tried, live>>

\* Lowering the flag once the scan is done.
ScanEnd_lowers ==
  /\ dpc = "scan" /\ todo = {}
  /\ dpc' = "miss" /\ flag' = FALSE
  /\ UNCHANGED <<vars, dir, pub, at, todo, loaded, regs, tried, live>>
ScanEnd ==
  /\ dpc = "scan" /\ todo = {}
  /\ dpc' = "miss"
  /\ UNCHANGED <<vars, dir, flag, pub, at, todo, loaded, regs, tried, live>>

\* overlay_compile_worker_enqueue returns without queueing.
Refused(k) ==
  \/ ~thread \/ state_find(k) \/ s_q_n >= WQ_CAP
  \/ s_state_n = STATE_CAP /\ \A i \in Rows : s_state[i].state \notin Finished

\* The rest of the miss: an address not tried yet is marked and its bytes are
\* handed to the worker; this pass is interpreted, or native if the scan found
\* the shard.
MissRest ==
  /\ dpc = "miss"
  /\ dpc' = "run" /\ at' = NoKey
  /\ IF idx_head(at) \/ at \in tried THEN UNCHANGED <<tried, vars>>
     ELSE /\ tried' = IF Cardinality(tried) < MAX_SLJIT_TRIED
                     THEN tried \cup {at} ELSE tried
          /\ \/ Refused(live[at]) /\ UNCHANGED vars
             \/ Enqueue(live[at])
  /\ UNCHANGED <<dir, flag, pub, todo, loaded, regs, live>>

\* Starting and stopping the worker, between dispatches.
StartStop ==
  /\ dpc = "run" /\ (Start \/ StopSignal \/ StopJoin)
  /\ UNCHANGED shardVars

-----------------------------------------------------------------------------
(* overlay_loader_async_publish, on the worker thread *)

\* The temp file is renamed into place; a scan under way may return it or not.
PublishRename ==
  /\ worker = "compile" /\ pub = "none"
  /\ dir' = dir \cup {item} /\ pub' = "renamed"
  /\ todo' \in {todo, IF dpc = "scan" THEN todo \cup {item} ELSE todo}
  /\ UNCHANGED <<vars, flag, dpc, at, loaded, regs, tried, live>>

\* The temp file cannot be written or renamed: it is removed.
PublishFails ==
  /\ worker = "compile" /\ pub = "none"
  /\ pub' = "done"
  /\ UNCHANGED <<vars, dir, flag, dpc, at, todo, loaded, regs, tried, live>>

PublishFlag ==
  /\ pub = "renamed"
  /\ flag' = TRUE /\ pub' = "done"
  /\ UNCHANGED <<vars, dir, dpc, at, todo, loaded, regs, tried, live>>

\* The compile step ends: published or not, or declined.
CompileEnds ==
  /\ pub \in {"none", "done"}
  /\ WorkerCompile /\ ok' = (pub = "done")
  /\ pub' = "none"
  /\ UNCHANGED <<dir, flag, dpc, at, todo, loaded, regs, tried, live>>

WorkerRest ==
  /\ WorkerWait \/ WorkerPop \/ WorkerFinish \/ WorkerExit
  /\ UNCHANGED shardVars

-----------------------------------------------------------------------------
DispatchRest == (\E k \in ShardKeys : ScanFile(k)) \/ ScanEnd \/ MissRest
ShardWorker == PublishRename \/ PublishFails \/ PublishFlag \/ CompileEnds \/ WorkerRest

ShardNext ==
  \/ \E k \in ShardKeys : LoadOverlay(k)
  \/ \E p \in Phys : Miss(p)
  \/ DispatchRest
  \/ StartStop
  \/ ShardWorker
  \/ SpuriousWake /\ UNCHANGED shardVars

\* Both threads are scheduled, and the game goes on calling every address it
\* has no native code for.
ShardFairness ==
  /\ WF_cacheVars(DispatchRest)
  /\ WF_cacheVars(ShardWorker)
  /\ WF_cacheVars(StopJoin /\ UNCHANGED shardVars)
  /\ \A p \in Phys : SF_cacheVars(Miss(p))

ShardSpec == ShardInit /\ [][ShardNext]_cacheVars /\ ShardFairness

-----------------------------------------------------------------------------
\* No published shard is overlooked: as long as the candidate table has room, a
\* readable file that is not registered is still ahead of the scan under way,
\* or announced by the flag, or about to be (the rename comes before the flag in
\* async_publish, and dispatch_impl lowers the flag before it scans).
NoShardMissed ==
  CandRoom =>
    \A k \in (dir \ Bad) \cap ShardKeys :
      regs[k] = 0 => flag \/ pub = "renamed" \/ k \in todo

\* Rescans register a shard twice only if the memo of loaded files was full when
\* it came (blob_already_loaded, blob_mark_loaded), whatever the worker
\* publishes while they run.
RegisteredOnce ==
  \A k \in ShardKeys :
    regs[k] > 1 => k \notin loaded /\ Cardinality(loaded) = MAX_LOADED_BLOBS

\* A shard the worker publishes for an address the game keeps calling ends up
\* in the candidate table, some shard being registered there, unless the table
\* is full.
PublishedIsUsable ==
  \A p \in Phys : (\E k \in dir \ Bad : PhysOf[k] = p) ~> (idx_head(p) \/ ~CandRoom)
=============================================================================
