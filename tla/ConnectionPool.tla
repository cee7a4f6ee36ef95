--------------------------- MODULE ConnectionPool ---------------------------
(***************************************************************************)
(* The connection pool of the engine created in src/app/db/database.py: the *)
(* library's queue pool with the size and overflow configured there and its *)
(* default timeout.  A request that needs a connection takes an idle one,   *)
(* else opens a new one while the overflow allows it, else waits; a waiter  *)
(* takes what is released, without any order among the waiters, or gives up *)
(* when its time has passed.                                                *)
(***************************************************************************)
EXTENDS Integers, FiniteSets

CONSTANTS Requests,     \* who may need a connection
          PoolSize,     \* pool_size
          MaxOverflow   \* max_overflow

ASSUME PoolAssumption == /\ PoolSize \in Nat \ {0}
                         /\ MaxOverflow \in Nat
                         /\ IsFiniteSet(Requests)

VARIABLES idle,       \* connections in the queue
          overflow,   \* open connections beyond PoolSize, negative while there are fewer
          holders,    \* requests whose session has a connection
          waiting     \* requests that wait for one

poolVars == <<idle, overflow, holders, waiting>>

PoolInit == /\ idle = 0
            /\ overflow = -PoolSize
            /\ holders = {}
            /\ waiting = {}

\* A process that starts again has a pool of its own.
PoolReset == /\ idle' = 0
             /\ overflow' = -PoolSize
             /\ holders' = {}
             /\ waiting' = {}

Open == PoolSize + overflow
Full == overflow >= MaxOverflow

Gets(r) == /\ holders' = holders \cup {r}
           /\ waiting' = waiting \ {r}

TakeIdle(r) == /\ idle > 0
               /\ idle' = idle - 1
               /\ Gets(r)
               /\ UNCHANGED overflow

\* A waiter comes here only when its time has passed, another at once.
OpenNew(r) == /\ ~Full
              /\ r \in waiting \/ idle = 0
              /\ overflow' = overflow + 1
              /\ Gets(r)
              /\ UNCHANGED idle

StartWaiting(r) == /\ idle = 0
                   /\ Full
                   /\ r \notin waiting
                   /\ waiting' = waiting \cup {r}
                   /\ UNCHANGED <<idle, overflow, holders>>

Acquire(r) == TakeIdle(r) \/ OpenNew(r) \/ StartWaiting(r)

\* Faulty variant: the pool without a timeout.
ExpiresNever(r) == r \notin waiting /\ (~Full \/ idle > 0)
\* The request ends up without a connection: a waiter's time passes while the pool
\* is full, the database refuses the connection to be opened, or an idle one turns
\* out dead (pool_pre_ping) and cannot be replaced.  In the last two cases the slot
\* goes back to where it was.
Expires(r)      == r \in waiting \/ ~Full \/ idle > 0
GiveUp(r) == /\ Expires(r)
             /\ waiting' = waiting \ {r}
             /\ UNCHANGED <<idle, overflow, holders>>

\* Faulty variant: every connection goes back into the queue.
ReleaseToQueue(r) == /\ holders' = holders \ {r}
                     /\ idle' = IF r \in holders THEN idle + 1 ELSE idle
                     /\ UNCHANGED <<overflow, waiting>>
\* A session that ends its transaction returns its connection: into the queue if
\* there is room, and closed otherwise.
Release(r) ==
  /\ holders' = holders \ {r}
  /\ IF r \notin holders THEN UNCHANGED <<idle, overflow>>
     ELSE IF idle < PoolSize THEN idle' = idle + 1 /\ UNCHANGED overflow
     ELSE overflow' = overflow - 1 /\ UNCHANGED idle
  /\ UNCHANGED waiting

-----------------------------------------------------------------------------
PoolTypeOK == /\ idle \in 0 .. PoolSize
              /\ overflow \in -PoolSize .. MaxOverflow
              /\ holders \in SUBSET Requests
              /\ waiting \in SUBSET Requests

\* Every open connection is in the queue or held by a request, and the pool opens
\* no more than it was configured for (database.py:19-20).
Accounted == /\ idle + Cardinality(holders) = Open
             /\ waiting \cap holders = {}
=============================================================================
