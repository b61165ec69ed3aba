---------------------------- MODULE FixedWindow -----------------------------
(***************************************************************************)
(* One shard of the rate-limit plugin's RateLimiterStore and the fixed     *)
(* window counters in it.                                                  *)
(*                                                                         *)
(* A counter packs (window index, count) in one atomic.  allow_n first     *)
(* computes the index of the current window, then updates the atomic: the  *)
(* two steps interleave with other threads and with the clock.  The shard  *)
(* lock is held in read mode over both steps on the fast path, and in      *)
(* write mode over the whole slow path, so a slow path (and reset_all)     *)
(* waits until no thread is between the two steps.                         *)
(*                                                                         *)
(* Time is the window index; 2^32 windows (136 years of seconds) never     *)
(* pass, so the index does not wrap.                                       *)
(***************************************************************************)
EXTENDS Integers, FiniteSets

CONSTANTS Callers,       \* concurrent callers of the store
          Keys,          \* keys that hash to this shard
          MaxRequests,   \* FixedWindowCounter.max_requests
          MaxKeys,       \* RateLimiterStore.max_keys; 0 is no bound
          MaxWindow      \* bound on the clock

ASSUME FixedWindowAssumption ==
  /\ MaxRequests \in Nat
  /\ MaxKeys \in Nat
  /\ MaxWindow \in Nat

Windows == 0..MaxWindow

VARIABLES counters,     \* keys with a counter in the shard's map
          packed,       \* their (window, count)
          window,       \* window_index(now_micros())
          path, key, w, \* per thread: the call in progress, w as computed
          granted,      \* history: calls admitted per key and window, ...
          setbacks      \* ... and times the key's counter went back to an
                        \* earlier window, both since it was created or reset

windowVars == <<counters, packed, window, path, key, w, granted, setbacks>>
thread == <<path, key, w>>

Fresh == [window |-> 0, count |-> 0]
None == [v \in Windows |-> 0]

WindowInit ==
  /\ counters = {}
  /\ packed = [k \in Keys |-> Fresh]
  /\ window = 0
  /\ path = [t \in Callers |-> "idle"]
  /\ key \in [Callers -> Keys]
  /\ w = [t \in Callers |-> 0]
  /\ granted = [k \in Keys |-> None]
  /\ setbacks = [k \in Keys |-> 0]

(* The count a caller whose window is v starts from.                       *)
CountIn(p, v) == IF p.window = v THEN p.count ELSE 0

(* Mutant of AllowN: every caller resets the count.                        *)
AllowNResets(k, v) ==
  IF MaxRequests >= 1
  THEN /\ packed' = [packed EXCEPT ![k] = [window |-> v, count |-> 1]]
       /\ granted' = [granted EXCEPT ![k][v] = @ + 1]
       /\ setbacks' = IF v < packed[k].window THEN [setbacks EXCEPT ![k] = @ + 1]
                                              ELSE setbacks
  ELSE UNCHANGED <<packed, granted, setbacks>>

(* The update of allow_n for key k by a caller whose window is v.          *)
AllowN(k, v) ==
  LET next == CountIn(packed[k], v) + 1
  IN  IF next <= MaxRequests
      THEN /\ packed' = [packed EXCEPT ![k] = [window |-> v, count |-> next]]
           /\ granted' = [granted EXCEPT ![k][v] = @ + 1]
           /\ setbacks' = IF v < packed[k].window
                          THEN [setbacks EXCEPT ![k] = @ + 1] ELSE setbacks
      ELSE UNCHANGED <<packed, granted, setbacks>>

NoReaders == \A t \in Callers : path[t] \notin {"update", "reset"}

Call(t) ==
  /\ path[t] = "idle"
  /\ \E k \in Keys : key' = [key EXCEPT ![t] = k]
  /\ path' = [path EXCEPT ![t] = "lookup"]
  /\ UNCHANGED <<counters, packed, window, w, granted, setbacks>>

(* Fast path, under the read lock: the counter exists, compute the window. *)
Found(t) ==
  /\ path[t] = "lookup" /\ key[t] \in counters
  /\ w' = [w EXCEPT ![t] = window]
  /\ path' = [path EXCEPT ![t] = "update"]
  /\ UNCHANGED <<counters, packed, window, key, granted, setbacks>>

Update(t) ==
  /\ path[t] = "update"
  /\ AllowN(key[t], w[t])
  /\ path' = [path EXCEPT ![t] = "idle"]
  /\ UNCHANGED <<counters, window, key, w>>

(* Fast path miss: the read lock is released before the write lock is      *)
(* taken, and another thread may create the counter meanwhile.             *)
Missing(t) ==
  /\ path[t] = "lookup" /\ key[t] \notin counters
  /\ path' = [path EXCEPT ![t] = "slow"]
  /\ UNCHANGED <<counters, packed, window, key, w, granted, setbacks>>

(* Slow path, second look: it exists by now.                               *)
SlowFound(t) ==
  /\ path[t] = "slow" /\ NoReaders
  /\ key[t] \in counters
  /\ AllowN(key[t], window)
  /\ path' = [path EXCEPT ![t] = "idle"]
  /\ UNCHANGED <<counters, window, key, w>>

(* Slow path: evict a random key of a full shard, create the counter and   *)
(* consume from it.                                                        *)
EvictAndCreate(t, victims) ==
  LET k == key[t]
      kept == counters \ victims
  IN  /\ counters' = kept \cup {k}
      /\ packed' = [j \in Keys |->
           CASE j = k -> IF MaxRequests >= 1
                         THEN [window |-> window, count |-> 1] ELSE Fresh
             [] j \in kept /\ j # k -> packed[j]
             [] OTHER -> Fresh]
      /\ granted' = [j \in Keys |->
           CASE j = k -> IF MaxRequests >= 1
                         THEN [None EXCEPT ![window] = 1] ELSE None
             [] j \in kept /\ j # k -> granted[j]
             [] OTHER -> None]
      /\ setbacks' = [j \in Keys |-> IF j \in kept /\ j # k THEN setbacks[j] ELSE 0]
      /\ path' = [path EXCEPT ![t] = "idle"]
      /\ UNCHANGED <<window, key, w>>

Full == MaxKeys > 0 /\ Cardinality(counters) >= MaxKeys

(* Mutant of SlowCreate: no second look under the write lock.              *)
SlowCreateUnchecked(t) ==
  /\ path[t] = "slow" /\ NoReaders
  /\ IF Full /\ key[t] \notin counters
     THEN \E victim \in counters : EvictAndCreate(t, {victim})
     ELSE EvictAndCreate(t, {})

SlowCreate(t) ==
  /\ path[t] = "slow" /\ NoReaders
  /\ key[t] \notin counters
  /\ IF Full THEN \E victim \in counters : EvictAndCreate(t, {victim})
             ELSE EvictAndCreate(t, {})

(* reset_store_key: FixedWindowCounter::reset under the read lock; the     *)
(* window is computed first, the store comes later.                        *)
ResetBegin(t) ==
  /\ path[t] = "lookup" /\ key[t] \in counters
  /\ w' = [w EXCEPT ![t] = window]
  /\ path' = [path EXCEPT ![t] = "reset"]
  /\ UNCHANGED <<counters, packed, window, key, granted, setbacks>>

ResetStore(t) ==
  /\ path[t] = "reset"
  /\ packed' = [packed EXCEPT ![key[t]] = [window |-> w[t], count |-> 0]]
  /\ granted' = [granted EXCEPT ![key[t]] = None]
  /\ setbacks' = [setbacks EXCEPT ![key[t]] = 0]
  /\ path' = [path EXCEPT ![t] = "idle"]
  /\ UNCHANGED <<counters, window, key, w>>

(* reset_store: the shard's map is cleared under the write lock.           *)
ResetAll ==
  /\ NoReaders
  /\ counters # {}
  /\ counters' = {}
  /\ packed' = [k \in Keys |-> Fresh]
  /\ granted' = [k \in Keys |-> None]
  /\ setbacks' = [k \in Keys |-> 0]
  /\ UNCHANGED <<window, thread>>

NextWindow ==
  /\ window < MaxWindow
  /\ window' = window + 1
  /\ UNCHANGED <<counters, packed, thread, granted, setbacks>>

WindowNext ==
  \/ \E t \in Callers : Call(t) \/ Found(t) \/ Update(t) \/ Missing(t)
                          \/ SlowFound(t) \/ SlowCreate(t)
                          \/ ResetBegin(t) \/ ResetStore(t)
  \/ ResetAll
  \/ NextWindow

WindowSpec == WindowInit /\ [][WindowNext]_windowVars

-----------------------------------------------------------------------------
(* Types; the count of a counter never passes max_requests.                *)
WindowTypeOK ==
  /\ counters \subseteq Keys
  /\ packed \in [Keys -> [window: Windows, count: 0..MaxRequests]]
  /\ window \in Windows
  /\ path \in [Callers -> {"idle", "lookup", "update", "slow", "reset"}]
  /\ key \in [Callers -> Keys]
  /\ w \in [Callers -> Windows]
  /\ granted \in [Keys -> [Windows -> Nat]]
  /\ setbacks \in [Keys -> Nat]

(* "Concurrent callers can never exceed max_requests within one window     *)
(* view" (rate_limit.rs:15), and over a whole window the limit holds       *)
(* as long as the counter only moves forward.  What breaks it is a caller  *)
(* that computed its window before a boundary and updates after it: it     *)
(* sets the counter back and wipes what the new window has counted, which  *)
(* the comment at rate_limit.rs:21 says a rollover can never do.  Each     *)
(* such setback lets a window admit max_requests once more, and nothing    *)
(* else lets it pass the limit.                                            *)
LimitUnlessSetBack ==
  \A k \in Keys, v \in Windows :
    granted[k][v] <= MaxRequests * (1 + setbacks[k])

(* Two threads that both miss a key never overwrite each other's counter:  *)
(* a key that keeps its counter loses consumption in a window only when    *)
(* the counter setbacks that window or is reset.                             *)
NoLostConsumption ==
  [][ \A k \in counters \cap counters' :
        packed'[k].window = packed[k].window =>
          \/ packed'[k].count >= packed[k].count
          \/ \E t \in Callers : path[t] = "reset" /\ key[t] = k
                                  /\ path'[t] = "idle" ]_windowVars
=============================================================================
