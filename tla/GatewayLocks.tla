---------------------------- MODULE GatewayLocks ----------------------------
(***************************************************************************)
(* The locks of Gateway and the tasks that take them.                      *)
(*                                                                         *)
(* strategy, config, targets and config_history are tokio RwLocks: a task  *)
(* that asks for one joins the lock's first-come first-served queue and is *)
(* suspended, its worker thread goes on with other tasks.  The `providers` *)
(* DashMap is different: an insert or remove blocks its worker thread for  *)
(* as long as anyone holds a reference into the same shard, and `proxy`    *)
(* holds one while it awaits the upstream.                                 *)
(*                                                                         *)
(* A task runs the lock operations of its handler in order, then waits for *)
(* its next call.  generation counts the configs applied: each lock's data *)
(* carries the generation of the reload that wrote it.                     *)
(***************************************************************************)
EXTENDS Integers, Sequences, FiniteSets

CONSTANTS Tasks,
          Handler,    \* which handler each task runs
          Workers,    \* tokio worker threads
          MaxReloads  \* bound on the generation

Locks == {"strategy", "config", "targets", "history"}

(* The operations of a handler.                                            *)
Read(l) == [op |-> "lock", lock |-> l, mode |-> "read"]
Write(l) == [op |-> "lock", lock |-> l, mode |-> "write"]
Drop(l) == [op |-> "drop", lock |-> l, mode |-> "-"]
Op(name) == [op |-> name, lock |-> "-", mode |-> "-"]

(* prepare_request, select_targets, filter_targets_by_rbac, and the        *)
(* latency store of with_failover.                                         *)
Chat ==
  << Read("config"), Drop("config"),
     Read("strategy"), Read("targets"), Drop("targets"), Drop("strategy"),
     Read("config"), Drop("config"),
     Read("strategy"), Drop("strategy") >>

(* Mutant of Proxy: the reference moves into the streamed body.            *)
ProxyKeepsRef ==
  << Read("targets"), Op("get_ref"), Op("upstream"), Drop("targets") >>

(* The targets guard and the `providers` reference live until the end of   *)
(* the function, over `send().await`.                                      *)
Proxy ==
  << Read("targets"), Op("get_ref"), Op("upstream"), Op("drop_ref"),
     Drop("targets") >>

(* rebuild_targets_from_db: clients are registered, the targets swapped,   *)
(* stale clients removed.                                                  *)
Rebuild ==
  << Op("insert"), Write("config"), Write("targets"),
     Drop("targets"), Drop("config"), Op("insert") >>

(* rebuild_targets: db_owns_routing, then the rebuild.                     *)
Mutation == << Read("targets"), Drop("targets") >> \o Rebuild

(* Mutant of ApplyConfig: each part is swapped under its own lock.         *)
ApplyOneByOne ==
  << Write("strategy"), Op("swap"), Drop("strategy"), Write("config"),
     Drop("config"), Write("targets"), Op("swap"), Drop("targets") >>

(* apply_config: the three write locks, held together.                     *)
ApplyConfig ==
  << Write("strategy"), Write("config"), Write("targets"), Op("swap"),
     Drop("strategy"), Drop("config"), Drop("targets") >>

(* reload_config and the re-assertion of the database's targets.           *)
ReloadConfig == ApplyConfig \o << Write("history"), Drop("history") >> \o Rebuild

Program(h) ==
  CASE h = "chat" -> Chat
    [] h = "proxy" -> Proxy
    [] h = "mutation" -> Mutation
    [] h = "reload" -> ReloadConfig

Handlers == {"chat", "proxy", "mutation", "reload"}

ASSUME LocksAssumption ==
  /\ IsFiniteSet(Tasks)
  /\ Handler \in [Tasks -> Handlers]
  /\ Workers \in Nat \ {0}
  /\ MaxReloads \in Nat

VARIABLES pc,          \* per task: the next operation; 0 while idle
          queue,       \* per lock: who waits for it, in order of arrival
          readers,     \* per lock: who holds it in read mode
          writer,      \* per lock: who holds it in write mode
          refs,        \* tasks holding a reference into `providers`
          blocked,     \* tasks whose worker thread is blocked by one
          generation   \* per lock: the reload that wrote its data

lockVars == <<pc, queue, readers, writer, refs, blocked, generation>>

LocksInit ==
  /\ pc = [t \in Tasks |-> 0]
  /\ queue = [l \in Locks |-> <<>>]
  /\ readers = [l \in Locks |-> {}]
  /\ writer = [l \in Locks |-> {}]
  /\ refs = {}
  /\ blocked = {}
  /\ generation = [l \in Locks |-> 0]

Prog(t) == Program(Handler[t])
Current(t) == Prog(t)[pc[t]]

AtOp(t, op) == pc[t] # 0 /\ Current(t).op = op

(* The next operation, or idle after the last.                             *)
Advance(t) ==
  pc' = [pc EXCEPT ![t] = IF @ = Len(Prog(t)) THEN 0 ELSE @ + 1]

Queued(t) == \E l \in Locks : \E i \in DOMAIN queue[l] : queue[l][i] = t

(* A worker thread is free to poll a task.                                 *)
WorkerFree == Cardinality(blocked) < Workers

Call(t) ==
  /\ pc[t] = 0
  /\ WorkerFree
  /\ Handler[t] = "reload" => generation["strategy"] < MaxReloads
  /\ pc' = [pc EXCEPT ![t] = 1]
  /\ UNCHANGED <<queue, readers, writer, refs, blocked, generation>>

Request(t) ==
  /\ AtOp(t, "lock")
  /\ ~Queued(t)
  /\ WorkerFree
  /\ queue' = [queue EXCEPT ![Current(t).lock] = Append(@, t)]
  /\ UNCHANGED <<pc, readers, writer, refs, blocked, generation>>

(* The lock's state allows the task at the head of its queue in.           *)
Compatible(t) ==
  LET l == Current(t).lock IN
    /\ writer[l] = {}
    /\ Current(t).mode = "write" => readers[l] = {}

(* The task at the head of the queue gets the lock.                        *)
Acquire(t) ==
  /\ AtOp(t, "lock")
  /\ LET l == Current(t).lock IN
       /\ queue[l] # <<>>
       /\ Head(queue[l]) = t
       /\ Compatible(t)
       /\ queue' = [queue EXCEPT ![l] = Tail(@)]
       /\ IF Current(t).mode = "read"
          THEN readers' = [readers EXCEPT ![l] = @ \cup {t}] /\ UNCHANGED writer
          ELSE writer' = [writer EXCEPT ![l] = {t}] /\ UNCHANGED readers
  /\ Advance(t)
  /\ UNCHANGED <<refs, blocked, generation>>

Release(t) ==
  /\ AtOp(t, "drop")
  /\ WorkerFree
  /\ LET l == Current(t).lock IN
       /\ readers' = [readers EXCEPT ![l] = @ \ {t}]
       /\ writer' = [writer EXCEPT ![l] = @ \ {t}]
  /\ Advance(t)
  /\ UNCHANGED <<queue, refs, blocked, generation>>

(* Every part the task holds in write mode gets the new config's data.     *)
SwapParts(t) ==
  /\ AtOp(t, "swap")
  /\ WorkerFree
  /\ generation' = [l \in Locks |->
                      IF writer[l] = {t} THEN generation["strategy"] + 1
                                         ELSE generation[l]]
  /\ Advance(t)
  /\ UNCHANGED <<queue, readers, writer, refs, blocked>>

GetRef(t) ==
  /\ AtOp(t, "get_ref")
  /\ WorkerFree
  /\ refs' = refs \cup {t}
  /\ Advance(t)
  /\ UNCHANGED <<queue, readers, writer, blocked, generation>>

(* The upstream answers, or its timeout fires: a worker must see it.       *)
Upstream(t) ==
  /\ AtOp(t, "upstream")
  /\ WorkerFree
  /\ Advance(t)
  /\ UNCHANGED <<queue, readers, writer, refs, blocked, generation>>

DropRef(t) ==
  /\ AtOp(t, "drop_ref")
  /\ WorkerFree
  /\ refs' = refs \ {t}
  /\ Advance(t)
  /\ UNCHANGED <<queue, readers, writer, blocked, generation>>

(* A write to `providers` while a reference is out blocks the thread.      *)
InsertBlocks(t) ==
  /\ AtOp(t, "insert")
  /\ t \notin blocked
  /\ WorkerFree
  /\ refs # {}
  /\ blocked' = blocked \cup {t}
  /\ UNCHANGED <<pc, queue, readers, writer, refs, generation>>

Insert(t) ==
  /\ AtOp(t, "insert")
  /\ t \in blocked \/ WorkerFree
  /\ refs = {}
  /\ blocked' = blocked \ {t}
  /\ Advance(t)
  /\ UNCHANGED <<queue, readers, writer, refs, generation>>

Runs(t) ==
  \/ Request(t) \/ Acquire(t) \/ Release(t) \/ SwapParts(t) \/ GetRef(t)
  \/ Upstream(t) \/ DropRef(t) \/ InsertBlocks(t) \/ Insert(t)

LocksNext == \E t \in Tasks : Call(t) \/ Runs(t)

LocksSpec == LocksInit /\ [][LocksNext]_lockVars

(* Worker threads poll every runnable task while one of them is free, and  *)
(* the upstream answers or the client's read timeout fires.  DashMap's     *)
(* lock lets new readers pass a waiting writer, so nothing is assumed of   *)
(* an insert that finds a reference out each time it looks.                *)
FairLocksSpec == LocksSpec /\ \A t \in Tasks : WF_lockVars(Runs(t))

-----------------------------------------------------------------------------
(* The lock tables have their types.                                       *)
LocksTypeOK ==
  /\ \A t \in Tasks : pc[t] \in 0..Len(Prog(t))
  /\ queue \in [Locks -> Seq(Tasks)]
  /\ readers \in [Locks -> SUBSET Tasks]
  /\ writer \in [Locks -> SUBSET Tasks]
  /\ refs \subseteq Tasks
  /\ blocked \subseteq Tasks
  /\ generation \in [Locks -> 0..MaxReloads]

(* config.rs: the write locks are held together "to prevent inconsistent   *)
(* reads": a request that ranks targets with a strategy sees both from the *)
(* same config.                                                            *)
ConsistentSelect ==
  \A t \in Tasks :
    (t \in readers["strategy"] /\ t \in readers["targets"]) =>
      generation["strategy"] = generation["targets"]

(* Every worker thread waits for a reference that only a worker can drop.  *)
Exhausted == ~WorkerFree

(* References come and go, and one is always out when the insert looks.    *)
Outrun(t) ==
  /\ <>[]AtOp(t, "insert")
  /\ []<>(refs # {})
  /\ \A u \in Tasks : []<>(u \notin refs)

(* Each call comes to its end, with two exceptions that the reference held *)
(* over `send().await` causes and nothing else does: as many rebuilds as   *)
(* there are worker threads block on it, and then everything stops, the    *)
(* timers too, although proxy.rs bounds connect and reads "so a hung       *)
(* upstream can't pin a request forever"; or ever new passthrough calls    *)
(* outrun a rebuild, which alone goes on waiting.                          *)
CallsEnd ==
  \A t \in Tasks : []<>(pc[t] = 0) \/ <>[]Exhausted \/ Outrun(t)
=============================================================================
