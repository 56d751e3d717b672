---------------------------- MODULE RealtimeCache ----------------------------
(***************************************************************************)
(* The double-buffered cache between acquisition and the block files.      *)
(* storeVariablePoint runs in the main thread; when the active buffer has  *)
(* MAX_CACHE_VALUES samples the buffers are swapped and a copy of the full *)
(* one is handed to a task of the global thread pool (persist), which      *)
(* emits one persistData signal per sample.  SQLiteDatabase lives in the   *)
(* main thread, so each signal is queued there and storeVariablePoint of   *)
(* the database runs when the event loop delivers it.  Several tasks may   *)
(* be under way at once and their signals interleave.                      *)
(***************************************************************************)
EXTENDS Integers, Sequences, FiniteSets

CONSTANTS
    Variables,     \* the variables the collector samples
    Value,         \* their values, integers and reals alike
    Kind,          \* which variables are integers: Variables -> {"int", "double"}
    FirstTemp,     \* what m_intTemp and m_doubleTemp start with: values no
                   \* sample is expected to have
    MaxCache,      \* MAX_CACHE_VALUES
    MaxTasks,      \* threads of the pool: how many persist tasks run at once
    MaxSamples     \* bound: samples received in one behaviour

ASSUME CacheAssumption ==
    /\ {MaxCache, MaxTasks} \subseteq Nat \ {0} /\ MaxSamples \in Nat
    /\ Kind \in [Variables -> {"int", "double"}]
    /\ Value \subseteq Int /\ FirstTemp \in [{"int", "double"} -> Int]

VARIABLES
    buffer,    \* m_cache1 and m_cache2: sequences of sample numbers
    active,    \* m_currentCache
    temp,      \* m_intTemp and m_doubleTemp
    pool,      \* the persist tasks, in the order they were started: what each
               \* has still to emit
    queue,     \* persistData signals queued for the main thread
    stored,    \* (history) what was handed to the database, in that order
    accepted,  \* (history) samples put into the cache so far
    received   \* samples received so far

vars == <<buffer, active, temp, pool, queue, stored, accepted, received>>

Init ==
    /\ buffer = [i \in 1 .. 2 |-> << >>]
    /\ active = 1
    /\ temp = FirstTemp
    /\ pool = << >> /\ queue = << >> /\ stored = << >>
    /\ accepted = 0 /\ received = 0

Other(i) == IF i = 1 THEN 2 ELSE 1

(* The sample is kept if its value differs from the last value kept of the *)
(* same kind - of whatever variable.                                       *)
Changed(v, x) == x # temp[Kind[v]]

CacheFullLate(b) == Len(b) > MaxCache   \* mutant
CacheFull(b) == Len(b) = MaxCache

(* The buffer handed over and the buffers after a swap. *)
SwapKeeps(full) ==   \* mutant: the copied buffer is not cleared
    /\ active' = Other(active)
    /\ pool' = Append(pool, full)
    /\ buffer' = [buffer EXCEPT ![active] = full]
Swap(full) ==
    /\ active' = Other(active)
    /\ pool' = Append(pool, full)
    /\ buffer' = [buffer EXCEPT ![active] = << >>]

Keep(v, x) ==
    LET b == Append(buffer[active], accepted + 1)
    IN  /\ accepted' = accepted + 1
        /\ temp' = [temp EXCEPT ![Kind[v]] = x]
        /\ IF CacheFull(b)
           THEN Swap(b)
           ELSE /\ buffer' = [buffer EXCEPT ![active] = b]
                /\ UNCHANGED <<active, pool>>

(* RealtimeCache::storeVariablePoint *)
StoreVariablePoint(v, x) ==
    /\ received < MaxSamples
    /\ received' = received + 1
    /\ \/ Changed(v, x) /\ Keep(v, x)
       \/ ~Changed(v, x) /\ UNCHANGED <<buffer, active, temp, pool, accepted>>
    /\ UNCHANGED <<queue, stored>>

(* The tasks the pool is running: the oldest ones that are not finished.   *)
Running == {t \in 1 .. Len(pool) :
              /\ pool[t] # << >>
              /\ Cardinality({u \in 1 .. t - 1 : pool[u] # << >>}) < MaxTasks}

(* RealtimeCache::persist, one signal. *)
EmitLast(t) ==   \* mutant: walks the batch backwards
    /\ t \in Running
    /\ queue' = Append(queue, pool[t][Len(pool[t])])
    /\ pool' = [pool EXCEPT ![t] = SubSeq(@, 1, Len(@) - 1)]
    /\ UNCHANGED <<buffer, active, temp, stored, accepted, received>>
EmitSkips(t) ==   \* mutant: steps over every other sample
    /\ t \in Running
    /\ queue' = Append(queue, Head(pool[t]))
    /\ pool' = [pool EXCEPT ![t] = SubSeq(@, 3, Len(@))]
    /\ UNCHANGED <<buffer, active, temp, stored, accepted, received>>
Emit(t) ==
    /\ t \in Running
    /\ queue' = Append(queue, Head(pool[t]))
    /\ pool' = [pool EXCEPT ![t] = Tail(@)]
    /\ UNCHANGED <<buffer, active, temp, stored, accepted, received>>

(* SQLiteDatabase::storeIncommingVariablePoint, run by the event loop. *)
Deliver ==
    /\ queue # << >>
    /\ stored' = Append(stored, Head(queue))
    /\ queue' = Tail(queue)
    /\ UNCHANGED <<buffer, active, temp, pool, accepted, received>>

EmitSome == \E t \in 1 .. Len(pool) : Emit(t)
Next == (\E v \in Variables, x \in Value : StoreVariablePoint(v, x)) \/ EmitSome \/ Deliver

(* The pool runs its tasks and the event loop its queue. *)
Spec == Init /\ [][Next]_vars /\ WF_vars(EmitSome) /\ WF_vars(Deliver)

-----------------------------------------------------------------------------
Count(s, n) == Cardinality({i \in 1 .. Len(s) : s[i] = n})

(* m_currentCache is 1 or 2, and buffers, tasks and queue hold samples     *)
(* that were received.                                                     *)
TypeOK ==
    /\ buffer \in [1 .. 2 -> Seq(1 .. MaxSamples)] /\ active \in 1 .. 2
    /\ temp \in [{"int", "double"} -> Int]
    /\ pool \in Seq(Seq(1 .. MaxSamples))
    /\ queue \in Seq(1 .. MaxSamples) /\ stored \in Seq(1 .. MaxSamples)
    /\ accepted \in 0 .. received /\ received \in Nat

(* Every sample the cache accepted is in exactly one place: a buffer, a    *)
(* task, the event queue or the database.  Swapping, copying and clearing  *)
(* loses none and doubles none.                                            *)
Places(n) ==
    Count(buffer[1], n) + Count(buffer[2], n) + Count(queue, n) + Count(stored, n)
       + Cardinality({t \in 1 .. Len(pool) : Count(pool[t], n) > 0})
Conserved == \A n \in 1 .. accepted : Places(n) = 1

(* Between two samples the buffer that is not active is empty - so a swap  *)
(* never finds old samples in it - and the active one has room: cacheFull  *)
(* tests with ==, a buffer that passed the limit would grow for ever.      *)
BuffersBounded ==
    buffer[Other(active)] = << >> /\ Len(buffer[active]) < MaxCache

(* Tasks may overtake each other, but the samples of one batch reach the   *)
(* database in the order they were taken.                                  *)
Batch(n) == (n - 1) \div MaxCache
OrderWithinBatch ==
    \A i, j \in 1 .. Len(stored) :
        i < j /\ Batch(stored[i]) = Batch(stored[j]) => stored[i] < stored[j]

(* What has left the buffers reaches the database in the end. *)
Persisted ==
    \A n \in 1 .. MaxSamples :
        (\E t \in 1 .. Len(pool) : Count(pool[t], n) > 0) ~> Count(stored, n) = 1
=============================================================================
