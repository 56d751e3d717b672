-------------------------- MODULE AcquisitionProofs --------------------------
(***************************************************************************)
(* Part 1: the two buffers of the cache for any batch size, any pool and   *)
(* any stream of samples.  The test for a full buffer is an equality, so   *)
(* it only works if no buffer can ever be longer.                          *)
(*                                                                         *)
(* Part 2: the connection to the collector for any number of samples and   *)
(* outages: one timer while there is no connection and none otherwise,     *)
(* samples handed on in order and no whole one left out, and the cache     *)
(* behind it, of which every step of the whole is a step.                  *)
(***************************************************************************)
EXTENDS TcpProxy, FiniteSetTheorems, SequenceTheorems, TLAPS

(* What the argument needs of the types, and the property itself.          *)
Buffers ==
    /\ buffer \in [1 .. 2 -> Seq(Nat)] /\ active \in 1 .. 2 /\ accepted \in Nat
    /\ BuffersBounded

LEMMA InitBuffers == Init => Buffers
BY CacheAssumption DEF Init, Buffers, BuffersBounded, Other

LEMMA KeepBuffers ==
    ASSUME Buffers, NEW v, NEW x, Keep(v, x)
    PROVE  Buffers'
<1> USE CacheAssumption DEF Buffers, BuffersBounded, Other
<1> DEFINE b == Append(buffer[active], accepted + 1)
<1>1. /\ buffer[active] \in Seq(Nat) /\ accepted + 1 \in Nat
      /\ buffer[1] \in Seq(Nat) /\ buffer[2] \in Seq(Nat)
  OBVIOUS
<1>2. b \in Seq(Nat) /\ Len(b) = Len(buffer[active]) + 1
  BY <1>1
<1>3. accepted' = accepted + 1
  BY DEF Keep
<1>4. CASE CacheFull(b)
  <2>1. active' = Other(active) /\ buffer' = [buffer EXCEPT ![active] = << >>]
    BY <1>4 DEF Keep, Swap
  <2>2. Other(active') = active /\ active' \in 1 .. 2 /\ active' # active
    BY <2>1
  <2>3. buffer'[active] = << >> /\ buffer'[active'] = << >>
    BY <2>1, <2>2
  <2>4. buffer' \in [1 .. 2 -> Seq(Nat)]
    BY <2>1, <1>1
  <2>5. Len(buffer'[active']) < MaxCache
    BY <2>3
  <2> QED BY <1>3, <2>2, <2>3, <2>4, <2>5
<1>5. CASE ~CacheFull(b)
  <2>1. active' = active /\ buffer' = [buffer EXCEPT ![active] = b]
    BY <1>5 DEF Keep
  <2>2. Len(b) < MaxCache
    BY <1>2, <1>5 DEF CacheFull
  <2>3. buffer' \in [1 .. 2 -> Seq(Nat)]
    BY <1>2, <2>1
  <2>4. buffer'[active] = b /\ buffer'[Other(active)] = buffer[Other(active)]
    BY <2>1, SMTT(30)
  <2> QED BY <1>3, <2>1, <2>2, <2>3, <2>4
<1> QED BY <1>4, <1>5

LEMMA StepBuffers == Buffers /\ [Next]_vars => Buffers'
<1> SUFFICES ASSUME Buffers, [Next]_vars PROVE Buffers'
  OBVIOUS
<1>1. ASSUME NEW v \in Variables, NEW x \in Value, StoreVariablePoint(v, x) PROVE Buffers'
  <2>1. CASE Keep(v, x)
    BY <2>1, KeepBuffers
  <2>2. CASE UNCHANGED <<buffer, active, accepted>>
    BY <2>2 DEF Buffers, BuffersBounded, Other
  <2> QED BY <1>1, <2>1, <2>2 DEF StoreVariablePoint
<1>2. ASSUME EmitSome \/ Deliver \/ UNCHANGED vars PROVE Buffers'
  <2>1. UNCHANGED <<buffer, active, accepted>>
    BY <1>2 DEF EmitSome, Emit, Deliver, vars
  <2> QED BY <2>1 DEF Buffers, BuffersBounded, Other
<1> QED BY <1>1, <1>2 DEF Next

(* The buffer that is not active is empty whenever the cache swaps, and    *)
(* the active one stays below MAX_CACHE_VALUES (RealtimeCache::cacheFull,  *)
(* swapCache), whatever the batch size.                                    *)
THEOREM BuffersStayBounded == Spec => []BuffersBounded
<1>1. Buffers => BuffersBounded
  BY DEF Buffers
<1> QED BY InitBuffers, StepBuffers, <1>1, PTL DEF Spec

-----------------------------------------------------------------------------
(***************************************************************************)
(* Where every sample is.  The t-th task was given the samples             *)
(* End(t) - MaxCache + 1 .. End(t) and still holds the last of them; the   *)
(* active buffer holds what came after; Out is what the tasks have         *)
(* emitted, delivered or not.                                              *)
(***************************************************************************)
End(t) == t * MaxCache
InBatch(n, t) == End(t) - MaxCache < n /\ n <= End(t)
Out == stored \o queue

TasksInv ==
    /\ pool \in Seq(Seq(Nat)) /\ queue \in Seq(Nat) /\ stored \in Seq(Nat)
    /\ \A t \in 1 .. Len(pool) :
          /\ Len(pool[t]) <= MaxCache
          /\ \A i \in 1 .. Len(pool[t]) : pool[t][i] = End(t) - Len(pool[t]) + i
FillingInv ==
    /\ accepted = End(Len(pool)) + Len(buffer[active])
    /\ \A i \in 1 .. Len(buffer[active]) : buffer[active][i] = End(Len(pool)) + i
EmittedInv ==
    /\ \A i \in 1 .. Len(Out) : \E t \in 1 .. Len(pool) :
          InBatch(Out[i], t) /\ Out[i] <= End(t) - Len(pool[t])
    /\ \A t \in 1 .. Len(pool) : \A n \in Nat :
          InBatch(n, t) /\ n <= End(t) - Len(pool[t]) => \E i \in 1 .. Len(Out) : Out[i] = n
    /\ \A i, j \in 1 .. Len(Out) : \A t \in 1 .. Len(pool) :
          i < j /\ InBatch(Out[i], t) /\ InBatch(Out[j], t) => Out[i] < Out[j]
Flow == Buffers /\ TasksInv /\ FillingInv /\ EmittedInv

LEMMA Ends ==
    /\ MaxCache \in Nat \ {0}
    /\ \A t \in Nat : End(t) \in Nat /\ End(t + 1) = End(t) + MaxCache
    /\ End(0) = 0
    /\ \A s, t \in Nat : s < t => End(s) + MaxCache <= End(t)
<1>1. MaxCache \in Nat \ {0}
  BY CacheAssumption
<1>2. ASSUME NEW s \in Nat, NEW t \in Nat, s < t PROVE End(s) + MaxCache <= End(t)
  <2>1. (s + 1) * MaxCache <= t * MaxCache
    BY <1>1, <1>2
  <2>2. (s + 1) * MaxCache = s * MaxCache + MaxCache
    BY <1>1
  <2> QED
    BY <2>1, <2>2 DEF End
<1> QED
  BY <1>1, <1>2 DEF End

(* The batches do not overlap, and Batch numbers them from zero. *)
LEMMA Batches ==
    ASSUME NEW n \in Nat, NEW t \in Nat \ {0}, InBatch(n, t)
    PROVE  /\ Batch(n) = t - 1
           /\ \A s \in Nat \ {0} : InBatch(n, s) => s = t
<1>1. ASSUME NEW s \in Nat \ {0}, InBatch(n, s) PROVE s = t
  <2>1. /\ End(t) - MaxCache < n /\ n <= End(t)
        /\ End(s) - MaxCache < n /\ n <= End(s)
    BY <1>1 DEF InBatch
  <2>2. /\ MaxCache \in Nat /\ End(s) \in Nat /\ End(t) \in Nat
        /\ (s < t => End(s) + MaxCache <= End(t)) /\ (t < s => End(t) + MaxCache <= End(s))
    BY Ends
  <2>3. ~(s < t) /\ ~(t < s)
    BY <2>1, <2>2
  <2> QED
    BY <2>3
<1>2. Batch(n) = t - 1
  <2> DEFINE q == Batch(n)
             M == MaxCache
  <2>1. M \in Nat \ {0} /\ q = (n - 1) \div M
    BY Ends DEF Batch
  <2> HIDE DEF q, M
  <2>2. q \in Int /\ q * M <= n - 1 /\ n - 1 < q * M + M
    BY <2>1
  <2>3. (t - 1) * M < n /\ n <= (t - 1) * M + M
    BY <2>1 DEF InBatch, End, M
  <2>4. ~(q < t - 1)
    <3>1. SUFFICES ASSUME q + 1 <= t - 1 PROVE FALSE
      BY <2>2
    <3>2. (q + 1) * M <= (t - 1) * M
      BY <2>1, <2>2, <3>1
    <3>3. (q + 1) * M = q * M + M
      BY <2>1, <2>2
    <3> QED
      BY <2>1, <2>2, <2>3, <3>2, <3>3
  <2>5. ~(q > t - 1)
    <3>1. SUFFICES ASSUME q >= t PROVE FALSE
      BY <2>2
    <3>2. q * M >= t * M
      BY <2>1, <2>2, <3>1
    <3>3. t * M = (t - 1) * M + M
      BY <2>1
    <3> QED
      BY <2>1, <2>2, <2>3, <3>2, <3>3
  <2> QED
    BY <2>2, <2>4, <2>5 DEF q
<1> QED
  BY <1>1, <1>2

LEMMA InitFlow == Init => Flow
<1> SUFFICES ASSUME Init PROVE Flow
  OBVIOUS
<1>1. Buffers
  BY InitBuffers
<1>2. Len(Out) = 0
  BY DEF Init, Out
<1>3. TasksInv /\ FillingInv
  BY Ends DEF Init, TasksInv, FillingInv
<1>4. EmittedInv
  BY <1>2 DEF EmittedInv, Init
<1> QED
  BY <1>1, <1>3, <1>4 DEF Flow

(* A batch goes to the pool, or the buffer gets one sample longer. *)
LEMMA KeepFlow ==
    ASSUME Flow, NEW v, NEW x, Keep(v, x), UNCHANGED <<queue, stored>>
    PROVE  Flow'
<1> DEFINE b == Append(buffer[active], accepted + 1)
           N == Len(pool)
           L == Len(buffer[active])
<1>t. /\ pool \in Seq(Seq(Nat)) /\ queue \in Seq(Nat) /\ stored \in Seq(Nat)
      /\ \A t \in 1 .. N :
            /\ Len(pool[t]) <= MaxCache
            /\ \A i \in 1 .. Len(pool[t]) : pool[t][i] = End(t) - Len(pool[t]) + i
  BY DEF Flow, TasksInv
<1>f. /\ accepted = End(N) + L
      /\ \A i \in 1 .. L : buffer[active][i] = End(N) + i
  BY DEF Flow, FillingInv
<1>e1. \A i \in 1 .. Len(Out) : \E t \in 1 .. N :
          InBatch(Out[i], t) /\ Out[i] <= End(t) - Len(pool[t])
  BY DEF Flow, EmittedInv
<1>e2. \A t \in 1 .. N : \A n \in Nat :
          InBatch(n, t) /\ n <= End(t) - Len(pool[t]) => \E i \in 1 .. Len(Out) : Out[i] = n
  BY DEF Flow, EmittedInv
<1>e3. \A i, j \in 1 .. Len(Out) : \A t \in 1 .. N :
          i < j /\ InBatch(Out[i], t) /\ InBatch(Out[j], t) => Out[i] < Out[j]
  BY DEF Flow, EmittedInv
<1>1. Buffers'
  BY KeepBuffers DEF Flow
<1>2. /\ buffer[active] \in Seq(Nat) /\ accepted \in Nat /\ active \in 1 .. 2
      /\ buffer \in [1 .. 2 -> Seq(Nat)] /\ N \in Nat /\ L \in Nat
  BY <1>t DEF Flow, Buffers
<1>3. /\ b \in Seq(Nat) /\ Len(b) = L + 1
      /\ \A i \in 1 .. L : b[i] = buffer[active][i]
      /\ b[L + 1] = accepted + 1
  BY <1>2, AppendProperties
<1>n. End(N) \in Nat /\ End(N + 1) = End(N) + MaxCache /\ MaxCache \in Nat
  BY <1>2, Ends
<1>5. Out' = Out /\ accepted' = accepted + 1
  BY DEF Out, Keep
<1>6. CASE CacheFull(b)
  <2>1. /\ active' = Other(active) /\ pool' = Append(pool, b)
        /\ buffer' = [buffer EXCEPT ![active] = << >>] /\ Len(b) = MaxCache
    BY <1>6 DEF Keep, Swap, CacheFull
  <2>2. buffer'[active'] = << >>
    BY <1>2, <2>1 DEF Flow, Buffers, BuffersBounded, Other
  <2> HIDE DEF b, N, L
  <2>3. /\ pool' \in Seq(Seq(Nat)) /\ Len(pool') = N + 1 /\ pool'[N + 1] = b
        /\ \A t \in 1 .. N : pool'[t] = pool[t]
    BY <1>t, <1>3, <2>1, AppendProperties DEF N
  <2>4. \A i \in 1 .. Len(b) : b[i] = End(N) + i
    <3> TAKE i \in 1 .. Len(b)
    <3>1. CASE i \in 1 .. L
      BY <1>f, <1>3, <3>1
    <3>2. CASE i = L + 1
      BY <1>f, <1>n, <1>2, <1>3, <3>2, SMTT(30)
    <3> QED
      BY <1>2, <1>3, <3>1, <3>2
  <2>5. TasksInv'
    <3>1. ASSUME NEW t \in 1 .. N + 1
          PROVE  /\ Len(pool'[t]) <= MaxCache
                 /\ \A i \in 1 .. Len(pool'[t]) : pool'[t][i] = End(t) - Len(pool'[t]) + i
      <4>1. CASE t \in 1 .. N
        BY <1>t, <2>3, <4>1
      <4>2. CASE t = N + 1
        BY <1>n, <2>1, <2>3, <2>4, <4>2
      <4> QED
        BY <1>2, <4>1, <4>2
    <3> QED
      BY <1>t, <2>3, <3>1 DEF TasksInv, End
  <2>6. FillingInv'
    <3>1. accepted' = End(N + 1) + 0
      <4>1. L + 1 = MaxCache
        BY <1>3, <2>1
      <4>2. accepted' = End(N) + L + 1
        BY <1>f, <1>5
      <4> QED
        BY <4>1, <4>2, <1>n, <1>2, SMTT(30)
    <3>2. Len(<< >>) = 0
      OBVIOUS
    <3> QED
      BY <2>2, <2>3, <3>1, <3>2 DEF FillingInv, End
  <2>7. EmittedInv'
    <3>1. ASSUME NEW n \in Nat, InBatch(n, N + 1), n <= End(N + 1) - Len(pool'[N + 1]) PROVE FALSE
      BY <1>n, <2>1, <2>3, <3>1 DEF InBatch
    <3>2. \A i \in 1 .. Len(Out) : ~InBatch(Out[i], N + 1)
      <4> TAKE i \in 1 .. Len(Out)
      <4>1. Out \in Seq(Nat)
        BY <1>t, ConcatProperties DEF Out
      <4>2. Out[i] \in Nat
        BY <4>1, ElementOfSeq
      <4>3. PICK t \in 1 .. N : InBatch(Out[i], t)
        BY <1>e1
      <4>4. t # N + 1 /\ t \in Nat \ {0} /\ N + 1 \in Nat \ {0}
        BY <1>2
      <4> QED
        BY <4>2, <4>3, <4>4, Batches
    <3>3. ASSUME NEW i \in 1 .. Len(Out)
          PROVE  \E t \in 1 .. N + 1 : InBatch(Out[i], t) /\ Out[i] <= End(t) - Len(pool'[t])
      <4>1. PICK t \in 1 .. N : InBatch(Out[i], t) /\ Out[i] <= End(t) - Len(pool[t])
        BY <1>e1
      <4>2. t \in 1 .. N + 1 /\ pool'[t] = pool[t]
        BY <1>2, <2>3
      <4> QED
        BY <4>1, <4>2
    <3>4. ASSUME NEW t \in 1 .. N + 1, NEW n \in Nat, InBatch(n, t), n <= End(t) - Len(pool'[t])
          PROVE  \E i \in 1 .. Len(Out) : Out[i] = n
      <4>1. t # N + 1
        BY <3>1, <3>4
      <4>2. t \in 1 .. N
        BY <1>2, <4>1
      <4>3. pool'[t] = pool[t]
        BY <2>3, <4>2
      <4> QED
        BY <1>e2, <3>4, <4>2, <4>3
    <3>5. ASSUME NEW i \in 1 .. Len(Out), NEW j \in 1 .. Len(Out), NEW t \in 1 .. N + 1,
                 i < j, InBatch(Out[i], t), InBatch(Out[j], t)
          PROVE  Out[i] < Out[j]
      <4>1. t # N + 1
        BY <3>2, <3>5
      <4>2. t \in 1 .. N
        BY <1>2, <4>1
      <4> QED
        BY <1>e3, <3>5, <4>2
    <3> QED
      BY <1>5, <2>3, <3>3, <3>4, <3>5 DEF EmittedInv, InBatch, End
  <2> QED
    BY <1>1, <2>5, <2>6, <2>7 DEF Flow
<1>7. CASE ~CacheFull(b)
  <2>1. active' = active /\ pool' = pool /\ buffer' = [buffer EXCEPT ![active] = b]
    BY <1>7 DEF Keep
  <2> HIDE DEF b, L
  <2>2. buffer'[active'] = b
    BY <1>2, <2>1
  <2>3. TasksInv' /\ EmittedInv'
    BY <1>5, <2>1 DEF InBatch, End, Flow, TasksInv, EmittedInv
  <2>4. \A i \in 1 .. Len(b) : b[i] = End(N) + i
    <3> TAKE i \in 1 .. Len(b)
    <3>1. CASE i \in 1 .. L
      BY <1>f, <1>3, <3>1
    <3>2. CASE i = L + 1
      BY <1>f, <1>n, <1>2, <1>3, <3>2, SMTT(30)
    <3> QED
      BY <1>2, <1>3, <3>1, <3>2
  <2>5. accepted' = End(N) + Len(b)
    BY <1>2, <1>3, <1>5, <1>n, <1>f, SMTT(30)
  <2>6. FillingInv'
    BY <2>1, <2>2, <2>4, <2>5 DEF FillingInv, End
  <2> QED
    BY <1>1, <2>3, <2>6 DEF Flow
<1> QED
  BY <1>6, <1>7

(* What is appended to the second sequence is appended to the whole. *)
LEMMA ConcatAppend ==
    ASSUME NEW S, NEW s \in Seq(S), NEW t \in Seq(S), NEW e \in S
    PROVE  s \o Append(t, e) = Append(s \o t, e)
<1>1. <<e>> \in Seq(S) /\ s \o t \in Seq(S)
  BY ConcatProperties
<1>2. s \o Append(t, e) = s \o (t \o <<e>>)
  BY AppendIsConcat
<1>3. s \o (t \o <<e>>) = (s \o t) \o <<e>>
  BY <1>1, ConcatAssociative
<1>4. (s \o t) \o <<e>> = Append(s \o t, e)
  BY <1>1, AppendIsConcat
<1> QED BY <1>2, <1>3, <1>4

(* The head of a task's batch joins what was emitted. *)
LEMMA EmitFlow ==
    ASSUME Flow, NEW s \in 1 .. Len(pool), Emit(s)
    PROVE  Flow'
<1> DEFINE N == Len(pool)
           K == Len(Out)
           x == Head(pool[s])
<1>t. /\ pool \in Seq(Seq(Nat)) /\ queue \in Seq(Nat) /\ stored \in Seq(Nat)
      /\ \A t \in 1 .. N :
            /\ Len(pool[t]) <= MaxCache
            /\ \A i \in 1 .. Len(pool[t]) : pool[t][i] = End(t) - Len(pool[t]) + i
  BY DEF Flow, TasksInv
<1>e1. \A i \in 1 .. K : \E t \in 1 .. N :
          InBatch(Out[i], t) /\ Out[i] <= End(t) - Len(pool[t])
  BY DEF Flow, EmittedInv
<1>e2. \A t \in 1 .. N : \A n \in Nat :
          InBatch(n, t) /\ n <= End(t) - Len(pool[t]) => \E i \in 1 .. K : Out[i] = n
  BY DEF Flow, EmittedInv
<1>e3. \A i, j \in 1 .. K : \A t \in 1 .. N :
          i < j /\ InBatch(Out[i], t) /\ InBatch(Out[j], t) => Out[i] < Out[j]
  BY DEF Flow, EmittedInv
<1>1. /\ pool[s] # << >> /\ queue' = Append(queue, x)
      /\ pool' = [pool EXCEPT ![s] = Tail(@)]
      /\ UNCHANGED <<buffer, active, stored, accepted>>
  BY DEF Emit, Running
<1>2. /\ N \in Nat /\ pool[s] \in Seq(Nat) /\ Out \in Seq(Nat) /\ K \in Nat /\ s \in Nat \ {0}
      /\ \A t \in 1 .. N : pool[t] \in Seq(Nat) /\ Len(pool[t]) \in Nat
  BY <1>t, ConcatProperties DEF Out
<1>3. /\ x \in Nat /\ x = pool[s][1] /\ Len(pool[s]) >= 1
      /\ Tail(pool[s]) \in Seq(Nat) /\ Len(Tail(pool[s])) = Len(pool[s]) - 1
      /\ \A i \in 1 .. Len(pool[s]) - 1 : Tail(pool[s])[i] = pool[s][i + 1]
  BY <1>1, <1>2, HeadTailProperties
<1>4. /\ pool' \in Seq(Seq(Nat)) /\ Len(pool') = N /\ pool'[s] = Tail(pool[s])
      /\ \A t \in 1 .. N : t # s => pool'[t] = pool[t]
  BY <1>t, <1>1, <1>3, ExceptSeq
<1>5. /\ Out' \in Seq(Nat) /\ Len(Out') = K + 1 /\ Out'[K + 1] = x
      /\ \A i \in 1 .. K : Out'[i] = Out[i]
  <2> HIDE DEF x
  <2>1. Out' = stored \o Append(queue, x)
    BY <1>1 DEF Out
  <2>a. stored \in Seq(Nat) /\ queue \in Seq(Nat) /\ x \in Nat
    BY <1>t, <1>3
  <2>b. stored \o Append(queue, x) = Append(stored \o queue, x)
    BY <2>a, ConcatAppend, SMTT(30)
  <2>2. Out' = Append(Out, x)
    BY <2>1, <2>b, Zenon DEF Out
  <2> QED
    BY <1>2, <1>3, <2>2, AppendProperties
<1>6. \A t \in 1 .. N : End(t) \in Nat /\ MaxCache \in Nat
  BY <1>2, Ends
<1>7. x = End(s) - Len(pool[s]) + 1 /\ InBatch(x, s)
  BY <1>t, <1>2, <1>3, <1>6, SMTT(30) DEF InBatch
<1>h. /\ Len(pool'[s]) = Len(pool[s]) - 1 /\ End(s) - Len(pool'[s]) = x
      /\ End(s) \in Nat /\ MaxCache \in Nat /\ Len(pool[s]) \in Nat
  BY <1>2, <1>3, <1>4, <1>6, <1>7
<1> HIDE DEF x, K, N
<1>8. Buffers' /\ FillingInv'
  BY <1>1, <1>4 DEF Flow, Buffers, BuffersBounded, Other, FillingInv, End, N
<1>9. TasksInv'
  <2>1. ASSUME NEW t \in 1 .. N
        PROVE  /\ Len(pool'[t]) <= MaxCache
               /\ \A i \in 1 .. Len(pool'[t]) : pool'[t][i] = End(t) - Len(pool'[t]) + i
    <3>1. CASE t # s
      BY <1>t, <1>4, <3>1
    <3>2. CASE t = s
      <4>1. Len(pool'[s]) <= MaxCache
        BY <1>t, <1>h, <3>2
      <4>2. ASSUME NEW i \in 1 .. Len(pool'[s])
            PROVE  pool'[s][i] = End(s) - Len(pool'[s]) + i
        <5>1. i \in 1 .. Len(pool[s]) - 1 /\ i + 1 \in 1 .. Len(pool[s])
          BY <1>h
        <5>2. pool'[s][i] = pool[s][i + 1]
          BY <1>3, <1>4, <5>1
        <5>3. pool[s][i + 1] = End(s) - Len(pool[s]) + (i + 1)
          BY <1>t, <3>2, <5>1
        <5>4. End(s) - Len(pool'[s]) + i = End(s) - Len(pool[s]) + (i + 1)
          <6>1. \A e, l, k \in Int : (e - (l - 1)) + k = (e - l) + (k + 1)
            OBVIOUS
          <6>2. End(s) \in Int /\ Len(pool[s]) \in Int /\ i \in Int
            BY <1>h, <5>1
          <6>3. (End(s) - (Len(pool[s]) - 1)) + i = (End(s) - Len(pool[s])) + (i + 1)
            BY <6>1, <6>2
          <6> QED
            BY <1>h, <6>3
        <5> QED
          BY <5>2, <5>3, <5>4
      <4> QED
        BY <3>2, <4>1, <4>2
    <3> QED
      BY <3>1, <3>2
  <2>2. queue' \in Seq(Nat) /\ stored' \in Seq(Nat)
    BY <1>t, <1>1, <1>3, AppendProperties
  <2> QED
    BY <1>4, <2>1, <2>2 DEF TasksInv, End
<1>10. ASSUME NEW i \in 1 .. K + 1
       PROVE  \E t \in 1 .. N : InBatch(Out'[i], t) /\ Out'[i] <= End(t) - Len(pool'[t])
  <2>1. CASE i \in 1 .. K
    <3>1. PICK t \in 1 .. N : InBatch(Out[i], t) /\ Out[i] <= End(t) - Len(pool[t])
      BY <1>e1, <2>1
    <3>2. Out[i] \in Nat /\ Out'[i] = Out[i]
      BY <1>2, <1>5, <2>1, ElementOfSeq DEF K
    <3>3. Out[i] <= End(t) - Len(pool'[t])
      <4>1. CASE t = s
        BY <1>h, <3>1, <3>2, <4>1, SMTT(30)
      <4>2. CASE t # s
        BY <1>4, <3>1, <4>2
      <4> QED
        BY <4>1, <4>2
    <3> QED
      BY <3>1, <3>2, <3>3
  <2>2. CASE i = K + 1
    <3>1. s \in 1 .. N /\ Out'[i] = x /\ x \in Nat
      BY <1>3, <1>5, <2>2 DEF N
    <3>2. InBatch(Out'[i], s) /\ Out'[i] <= End(s) - Len(pool'[s])
      BY <1>7, <1>h, <3>1
    <3> QED
      BY <3>1, <3>2
  <2> QED
    BY <1>2, <2>1, <2>2
<1>11. ASSUME NEW t \in 1 .. N, NEW n \in Nat, InBatch(n, t), n <= End(t) - Len(pool'[t])
       PROVE  \E i \in 1 .. K + 1 : Out'[i] = n
  <2>1. CASE n <= End(t) - Len(pool[t])
    <3>1. PICK i \in 1 .. K : Out[i] = n
      BY <1>e2, <1>11, <2>1
    <3> QED
      BY <1>2, <1>5, <3>1
  <2>2. CASE n > End(t) - Len(pool[t])
    <3>1. t = s
      BY <1>4, <1>11, <1>2, <1>6, <2>2
    <3>2. n = x
      BY <1>7, <1>h, <1>11, <2>2, <3>1, SMTT(30)
    <3> QED
      BY <1>2, <1>5, <3>2
  <2> QED
    BY <1>2, <1>6, <2>1, <2>2
<1>12. ASSUME NEW i \in 1 .. K + 1, NEW j \in 1 .. K + 1, NEW t \in 1 .. N,
              i < j, InBatch(Out'[i], t), InBatch(Out'[j], t)
       PROVE  Out'[i] < Out'[j]
  <2>1. i \in 1 .. K /\ Out'[i] = Out[i] /\ Out[i] \in Nat
    <3>1. i \in 1 .. K
      BY <1>2, <1>12
    <3> QED
      BY <1>2, <1>5, <3>1, ElementOfSeq DEF K
  <2>2. CASE j \in 1 .. K
    BY <1>e3, <1>5, <1>12, <2>1, <2>2
  <2>3. CASE j = K + 1
    <3>1. t \in Nat \ {0} /\ Out'[j] = x
      BY <1>2, <1>5, <2>3
    <3>2. t = s
      BY <1>2, <1>3, <1>7, <1>12, <3>1, Batches
    <3>3. PICK u \in 1 .. N : InBatch(Out[i], u) /\ Out[i] <= End(u) - Len(pool[u])
      BY <1>e1, <2>1
    <3>4. u \in Nat \ {0}
      BY <1>2
    <3>5. u = s
      BY <1>2, <1>12, <2>1, <3>2, <3>3, <3>4, Batches
    <3> QED
      BY <1>2, <1>6, <1>7, <2>1, <3>1, <3>3, <3>5
  <2> QED
    BY <1>2, <2>2, <2>3
<1>13. EmittedInv'
  BY <1>4, <1>5, <1>10, <1>11, <1>12 DEF EmittedInv, InBatch, End
<1> QED
  BY <1>8, <1>9, <1>13 DEF Flow

LEMMA HeadMoves ==
    ASSUME NEW s \in Seq(Nat), NEW q \in Seq(Nat), q # << >>
    PROVE  Append(s, Head(q)) \o Tail(q) = s \o q
<1> DEFINE a == Append(s, Head(q))
           r == Tail(q)
<1>1. /\ r \in Seq(Nat) /\ Len(r) = Len(q) - 1 /\ Len(q) \in Nat \ {0}
      /\ \A i \in 1 .. Len(r) : r[i] = q[i + 1]
      /\ Head(q) = q[1] /\ Head(q) \in Nat
  BY HeadTailProperties
<1>2. /\ a \in Seq(Nat) /\ Len(a) = Len(s) + 1 /\ Len(s) \in Nat
      /\ \A i \in 1 .. Len(s) : a[i] = s[i]
      /\ a[Len(s) + 1] = q[1]
  BY <1>1, AppendProperties
<1> HIDE DEF a, r
<1>3. /\ a \o r \in Seq(Nat) /\ Len(a \o r) = Len(a) + Len(r)
      /\ \A i \in 1 .. Len(a) + Len(r) : (a \o r)[i] = IF i <= Len(a) THEN a[i] ELSE r[i - Len(a)]
  BY <1>1, <1>2, ConcatProperties
<1>4. /\ s \o q \in Seq(Nat) /\ Len(s \o q) = Len(s) + Len(q)
      /\ \A i \in 1 .. Len(s) + Len(q) : (s \o q)[i] = IF i <= Len(s) THEN s[i] ELSE q[i - Len(s)]
  BY ConcatProperties
<1>5. ASSUME NEW i \in 1 .. Len(s) + Len(q) PROVE (a \o r)[i] = (s \o q)[i]
  <2>0. i \in 1 .. Len(a) + Len(r) /\ i \in Nat \ {0}
    BY <1>1, <1>2
  <2>1. CASE i <= Len(s)
    BY <1>2, <1>3, <1>4, <2>0, <2>1
  <2>2. CASE i = Len(s) + 1
    BY <1>2, <1>3, <1>4, <2>0, <2>2
  <2>3. CASE i > Len(s) + 1
    <3>1. i - Len(a) \in 1 .. Len(r) /\ (i - Len(a)) + 1 = i - Len(s)
      BY <1>1, <1>2, <2>0, <2>3
    <3>2. (a \o r)[i] = r[i - Len(a)] /\ (s \o q)[i] = q[i - Len(s)]
      <4>1. ~(i <= Len(a)) /\ ~(i <= Len(s))
        BY <1>2, <2>0, <2>3
      <4>2. (a \o r)[i] = r[i - Len(a)]
        BY <1>3, <2>0, <4>1
      <4>3. (s \o q)[i] = q[i - Len(s)]
        BY <1>4, <4>1
      <4> QED
        BY <4>2, <4>3
    <3> QED
      BY <1>1, <3>1, <3>2
  <2> QED
    BY <1>2, <2>0, <2>1, <2>2, <2>3, SMTT(30)
<1> QED
  BY <1>1, <1>2, <1>3, <1>4, <1>5, SeqEqual DEF a, r

(* Delivering a signal moves it from the queue to the database. *)
LEMMA DeliverFlow ==
    ASSUME Flow, Deliver
    PROVE  Flow'
<1>1. queue \in Seq(Nat) /\ stored \in Seq(Nat) /\ queue # << >>
  BY DEF Flow, TasksInv, Deliver
<1>2. /\ queue' = Tail(queue) /\ stored' = Append(stored, Head(queue))
      /\ UNCHANGED <<buffer, active, pool, accepted>>
  BY DEF Deliver
<1>3. queue' \in Seq(Nat) /\ stored' \in Seq(Nat)
  BY <1>1, <1>2, HeadTailProperties, AppendProperties
<1>4. Out' = Out
  BY <1>1, <1>2, HeadMoves DEF Out
<1> QED
  BY <1>2, <1>3, <1>4 DEF Flow, Buffers, BuffersBounded, Other, TasksInv, FillingInv,
                          EmittedInv, InBatch, End

LEMMA StepFlow == Flow /\ [Next]_vars => Flow'
<1> SUFFICES ASSUME Flow, [Next]_vars PROVE Flow'
  OBVIOUS
<1>1. ASSUME NEW v \in Variables, NEW x \in Value, StoreVariablePoint(v, x) PROVE Flow'
  <2>1. CASE Keep(v, x)
    BY <1>1, <2>1, KeepFlow DEF StoreVariablePoint
  <2>2. CASE UNCHANGED <<buffer, active, pool, accepted, queue, stored>>
    BY <2>2 DEF Flow, Buffers, BuffersBounded, Other, TasksInv, FillingInv, EmittedInv,
                InBatch, End, Out
  <2> QED
    BY <1>1, <2>1, <2>2 DEF StoreVariablePoint
<1>2. CASE EmitSome
  BY <1>2, EmitFlow DEF EmitSome
<1>3. CASE Deliver
  BY <1>3, DeliverFlow
<1>4. CASE UNCHANGED vars
  BY <1>4 DEF vars, Flow, Buffers, BuffersBounded, Other, TasksInv, FillingInv, EmittedInv,
              InBatch, End, Out
<1> QED
  BY <1>1, <1>2, <1>3, <1>4 DEF Next

LEMMA AlwaysFlow == Spec => []Flow
BY InitFlow, StepFlow, PTL DEF Spec

LEMMA FlowKeepsOrder == Flow => OrderWithinBatch
<1> SUFFICES ASSUME Flow, NEW i \in 1 .. Len(stored), NEW j \in 1 .. Len(stored),
                    i < j, Batch(stored[i]) = Batch(stored[j])
             PROVE  stored[i] < stored[j]
  BY DEF OrderWithinBatch
<1>1. queue \in Seq(Nat) /\ stored \in Seq(Nat) /\ Len(pool) \in Nat
  BY DEF Flow, TasksInv
<1>2. /\ i \in 1 .. Len(Out) /\ j \in 1 .. Len(Out)
      /\ Out[i] = stored[i] /\ Out[j] = stored[j] /\ Out[i] \in Nat /\ Out[j] \in Nat
  BY <1>1, ConcatProperties DEF Out
<1>3. PICK t \in 1 .. Len(pool) : InBatch(Out[i], t)
  BY <1>2 DEF Flow, EmittedInv
<1>4. PICK u \in 1 .. Len(pool) : InBatch(Out[j], u)
  BY <1>2 DEF Flow, EmittedInv
<1>5. t \in Nat \ {0} /\ u \in Nat \ {0}
  BY <1>1
<1>6. Batch(Out[i]) = t - 1
  BY <1>2, <1>3, <1>5, Batches
<1>7. Batch(Out[j]) = u - 1
  BY <1>2, <1>4, <1>5, Batches
<1>8. t = u
  <2>1. t - 1 = u - 1
    BY <1>2, <1>6, <1>7
  <2> QED
    BY <1>5, <2>1
<1> QED
  BY <1>2, <1>3, <1>4, <1>8 DEF Flow, EmittedInv

(* The samples of one batch reach the database in the order they were      *)
(* taken (RealtimeCache::persist), however the tasks of the pool overtake  *)
(* each other and whenever the event loop delivers their signals.          *)
THEOREM OrderKeptWithinBatch == Spec => []OrderWithinBatch
BY AlwaysFlow, FlowKeepsOrder, PTL

-----------------------------------------------------------------------------
(* Counting. *)

LEMMA CountOnce ==
    ASSUME NEW s \in Seq(Nat), NEW n,
           \A i, j \in 1 .. Len(s) : s[i] = n /\ s[j] = n => i = j
    PROVE  Count(s, n) = IF \E i \in 1 .. Len(s) : s[i] = n THEN 1 ELSE 0
<1>1. CASE \E i \in 1 .. Len(s) : s[i] = n
  <2>1. PICK i \in 1 .. Len(s) : s[i] = n
    BY <1>1
  <2>2. {j \in 1 .. Len(s) : s[j] = n} = {i}
    BY <2>1
  <2> QED
    BY <1>1, <2>2, FS_Singleton DEF Count
<1>2. CASE ~\E i \in 1 .. Len(s) : s[i] = n
  <2>1. {j \in 1 .. Len(s) : s[j] = n} = {}
    BY <1>2
  <2> QED
    BY <1>2, <2>1, FS_EmptySet DEF Count
<1> QED
  BY <1>1, <1>2

(* Every number up to the last task's end is in the batch of some task. *)
LEMMA SomeBatch ==
    ASSUME NEW N \in Nat, NEW n \in Nat \ {0}, n <= End(N)
    PROVE  \E t \in 1 .. N : InBatch(n, t)
<1> DEFINE M == MaxCache
           q == (n - 1) \div M
<1>1. M \in Nat \ {0}
  BY Ends
<1> HIDE DEF M
<1>2. q \in Int /\ q * M <= n - 1 /\ n - 1 < q * M + M
  BY <1>1
<1> HIDE DEF q
<1>3. (q + 1) * M = q * M + M
  BY <1>1, <1>2
<1>4. q >= 0
  <2>1. SUFFICES ASSUME q + 1 <= 0 PROVE FALSE
    BY <1>2
  <2>2. (q + 1) * M <= 0 * M
    BY <1>1, <1>2, <2>1
  <2> QED
    BY <1>1, <1>2, <1>3, <2>2
<1>5. q + 1 <= N
  <2>1. SUFFICES ASSUME N <= q PROVE FALSE
    BY <1>2
  <2>2. N * M <= q * M
    BY <1>1, <1>2, <2>1
  <2>3. n <= N * M /\ N * M \in Nat
    BY <1>1 DEF End, M
  <2>4. q * M \in Int
    BY <1>1, <1>2
  <2> QED
    BY <1>2, <2>2, <2>3, <2>4
<1>6. InBatch(n, q + 1)
  <2>1. End(q + 1) = q * M + M /\ q * M \in Int
    BY <1>1, <1>2, <1>3 DEF End, M
  <2>2. (q * M + M) - M < n /\ n <= q * M + M
    BY <1>1, <1>2, <2>1
  <2> QED
    BY <1>1, <2>1, <2>2 DEF InBatch, M
<1> QED
  BY <1>2, <1>4, <1>5, <1>6

(* What was emitted is in the database or under way to it, once. *)
LEMMA CountOut ==
    ASSUME Flow, NEW n \in Nat
    PROVE  Count(stored, n) + Count(queue, n)
              = IF \E i \in 1 .. Len(Out) : Out[i] = n THEN 1 ELSE 0
<1>1. queue \in Seq(Nat) /\ stored \in Seq(Nat) /\ Len(pool) \in Nat
  BY DEF Flow, TasksInv
<1>2. /\ Len(Out) = Len(stored) + Len(queue)
      /\ \A i \in 1 .. Len(stored) : i \in 1 .. Len(Out) /\ Out[i] = stored[i]
      /\ \A i \in 1 .. Len(queue) :
            Len(stored) + i \in 1 .. Len(Out) /\ Out[Len(stored) + i] = queue[i]
  BY <1>1, ConcatProperties DEF Out
<1>3. ASSUME NEW i \in 1 .. Len(Out), NEW j \in 1 .. Len(Out), Out[i] = n, Out[j] = n
      PROVE  i = j
  <2>1. PICK t \in 1 .. Len(pool) : InBatch(n, t)
    BY <1>3 DEF Flow, EmittedInv
  <2>2. ~(i < j) /\ ~(j < i)
    BY <1>3, <2>1 DEF Flow, EmittedInv
  <2> QED
    BY <1>1, <1>2, <2>2
<1>4. Count(stored, n) = IF \E i \in 1 .. Len(stored) : stored[i] = n THEN 1 ELSE 0
  <2>1. \A i, j \in 1 .. Len(stored) : stored[i] = n /\ stored[j] = n => i = j
    BY <1>2, <1>3
  <2> QED
    BY <1>1, <2>1, CountOnce
<1>5. Count(queue, n) = IF \E i \in 1 .. Len(queue) : queue[i] = n THEN 1 ELSE 0
  <2>1. ASSUME NEW i \in 1 .. Len(queue), NEW j \in 1 .. Len(queue), queue[i] = n, queue[j] = n
        PROVE  i = j
    <3>1. Len(stored) + i = Len(stored) + j
      BY <1>2, <1>3, <2>1
    <3> QED
      BY <1>1, <3>1
  <2> QED
    BY <1>1, <2>1, CountOnce
<1>6. ASSUME NEW i \in 1 .. Len(stored), stored[i] = n,
             NEW j \in 1 .. Len(queue), queue[j] = n
      PROVE  FALSE
  <2>1. i = Len(stored) + j
    BY <1>2, <1>3, <1>6
  <2> QED
    BY <1>1, <2>1
<1>7. ASSUME NEW k \in 1 .. Len(Out), Out[k] = n
      PROVE  \/ \E i \in 1 .. Len(stored) : stored[i] = n
             \/ \E i \in 1 .. Len(queue) : queue[i] = n
  <2>1. CASE k <= Len(stored)
    <3>1. k \in 1 .. Len(stored)
      BY <1>1, <1>2, <2>1
    <3> QED
      BY <1>2, <1>7, <3>1
  <2>2. CASE k > Len(stored)
    <3>1. k - Len(stored) \in 1 .. Len(queue) /\ Len(stored) + (k - Len(stored)) = k
      BY <1>1, <1>2, <2>2
    <3> QED
      BY <1>2, <1>7, <3>1
  <2> QED
    BY <1>1, <2>1, <2>2
<1>8. (\E i \in 1 .. Len(Out) : Out[i] = n)
         <=> \/ \E i \in 1 .. Len(stored) : stored[i] = n
             \/ \E i \in 1 .. Len(queue) : queue[i] = n
  BY <1>2, <1>7
<1> QED
  BY <1>4, <1>5, <1>6, <1>8

LEMMA CountBuffers ==
    ASSUME Flow, NEW n \in 1 .. accepted
    PROVE  Count(buffer[1], n) + Count(buffer[2], n) = IF n > End(Len(pool)) THEN 1 ELSE 0
<1> DEFINE b == buffer[active]
           E == End(Len(pool))
<1>1. /\ b \in Seq(Nat) /\ Len(b) \in Nat /\ active \in 1 .. 2 /\ E \in Nat
      /\ accepted = E + Len(b) /\ \A i \in 1 .. Len(b) : b[i] = E + i
      /\ buffer[Other(active)] = << >>
  <2>1. pool \in Seq(Seq(Nat)) /\ Len(pool) \in Nat
    BY DEF Flow, TasksInv
  <2>2. /\ buffer \in [1 .. 2 -> Seq(Nat)] /\ active \in 1 .. 2
        /\ buffer[Other(active)] = << >>
    BY DEF Flow, Buffers, BuffersBounded
  <2>3. accepted = E + Len(b) /\ \A i \in 1 .. Len(b) : b[i] = E + i
    BY DEF Flow, FillingInv
  <2>4. E \in Nat
    BY <2>1, Ends
  <2> QED
    BY <2>2, <2>3, <2>4
<1>2. Count(<< >>, n) = 0
  <2>1. {i \in 1 .. Len(<< >>) : << >>[i] = n} = {}
    OBVIOUS
  <2> QED
    BY <2>1, FS_EmptySet DEF Count
<1>3. Count(b, n) \in Int =>
         Count(buffer[1], n) + Count(buffer[2], n) = Count(b, n)
  <2>1. CASE active = 1
    BY <1>1, <1>2, <2>1 DEF Other
  <2>2. CASE active = 2
    BY <1>1, <1>2, <2>2 DEF Other
  <2> QED
    BY <1>1, <2>1, <2>2
<1> HIDE DEF b, E
<1>4. Count(b, n) = IF \E i \in 1 .. Len(b) : b[i] = n THEN 1 ELSE 0
  <2>1. \A i, j \in 1 .. Len(b) : b[i] = n /\ b[j] = n => i = j
    BY <1>1
  <2> QED
    BY <1>1, <2>1, CountOnce
<1>5. (\E i \in 1 .. Len(b) : b[i] = n) <=> n > E
  <2>1. ASSUME n > E PROVE \E i \in 1 .. Len(b) : b[i] = n
    <3>1. n - E \in 1 .. Len(b) /\ E + (n - E) = n
      BY <1>1, <2>1
    <3> QED
      BY <1>1, <3>1
  <2> QED
    BY <1>1, <2>1
<1> QED
  BY <1>3, <1>4, <1>5 DEF E

LEMMA CountTask ==
    ASSUME Flow, NEW t \in 1 .. Len(pool), NEW n \in Nat
    PROVE  Count(pool[t], n) > 0 <=> InBatch(n, t) /\ n > End(t) - Len(pool[t])
<1> DEFINE p == pool[t]
<1>1. /\ p \in Seq(Nat) /\ Len(p) \in Nat /\ Len(p) <= MaxCache /\ MaxCache \in Nat
      /\ End(t) \in Nat /\ \A i \in 1 .. Len(p) : p[i] = End(t) - Len(p) + i
  <2>1. pool \in Seq(Seq(Nat)) /\ t \in Nat
    BY DEF Flow, TasksInv
  <2>2. Len(p) <= MaxCache /\ \A i \in 1 .. Len(p) : p[i] = End(t) - Len(p) + i
    BY DEF Flow, TasksInv
  <2>3. p \in Seq(Nat) /\ Len(p) \in Nat
    BY <2>1
  <2>4. End(t) \in Nat /\ MaxCache \in Nat
    BY <2>1, Ends
  <2> QED
    BY <2>2, <2>3, <2>4
<1> HIDE DEF p
<1>2. Count(p, n) = IF \E i \in 1 .. Len(p) : p[i] = n THEN 1 ELSE 0
  <2>1. \A i, j \in 1 .. Len(p) : p[i] = n /\ p[j] = n => i = j
    BY <1>1, SMTT(30)
  <2> QED
    BY <1>1, <2>1, CountOnce
<1>3. ASSUME InBatch(n, t), n > End(t) - Len(p) PROVE \E i \in 1 .. Len(p) : p[i] = n
  <2>1. n - (End(t) - Len(p)) \in 1 .. Len(p)
    BY <1>1, <1>3 DEF InBatch
  <2>2. (End(t) - Len(p)) + (n - (End(t) - Len(p))) = n
    BY <1>1
  <2> QED
    BY <1>1, <2>1, <2>2
<1>4. ASSUME NEW i \in 1 .. Len(p), p[i] = n PROVE InBatch(n, t) /\ n > End(t) - Len(p)
  BY <1>1, <1>4 DEF InBatch
<1> QED
  BY <1>2, <1>3, <1>4 DEF p

LEMMA FlowConserves == Flow => Conserved
<1> SUFFICES ASSUME Flow, NEW n \in 1 .. accepted PROVE Places(n) = 1
  BY DEF Conserved
<1> DEFINE N == Len(pool)
           held == {t \in 1 .. N : Count(pool[t], n) > 0}
           inBuffers == Count(buffer[1], n) + Count(buffer[2], n)
           emitted == Count(stored, n) + Count(queue, n)
<1>1. /\ N \in Nat /\ n \in Nat \ {0} /\ accepted \in Nat /\ queue \in Seq(Nat)
      /\ stored \in Seq(Nat) /\ End(N) \in Nat /\ MaxCache \in Nat
      /\ \A t \in 1 .. N : End(t) \in Nat /\ Len(pool[t]) \in Nat /\ End(t) <= End(N)
  <2>1. N \in Nat /\ queue \in Seq(Nat) /\ stored \in Seq(Nat) /\ accepted \in Nat
        /\ \A t \in 1 .. N : Len(pool[t]) \in Nat
    BY DEF Flow, TasksInv, Buffers
  <2>2. \A t \in 1 .. N : End(t) \in Nat /\ (t < N => End(t) + MaxCache <= End(N))
    BY <2>1, Ends
  <2>3. End(N) \in Nat /\ MaxCache \in Nat /\ n \in Nat \ {0}
    BY <2>1, Ends
  <2>4. \A t \in 1 .. N : End(t) <= End(N)
    <3> TAKE t \in 1 .. N
    <3>1. CASE t = N
      BY <2>3, <3>1
    <3>2. CASE t < N
      BY <2>2, <2>3, <3>2
    <3> QED
      BY <2>1, <3>1, <3>2
  <2> QED
    BY <2>1, <2>2, <2>3, <2>4
<1>2. inBuffers = IF n > End(N) THEN 1 ELSE 0
  BY CountBuffers
<1>3. emitted = IF \E i \in 1 .. Len(Out) : Out[i] = n THEN 1 ELSE 0
  BY <1>1, CountOut
<1>4. held = {t \in 1 .. N : InBatch(n, t) /\ n > End(t) - Len(pool[t])}
  BY <1>1, CountTask
<1>5. inBuffers + emitted + Cardinality(held) = 1
  <2>1. CASE n > End(N)
    <3>1. \A t \in 1 .. N : ~InBatch(n, t)
      BY <1>1, <2>1 DEF InBatch
    <3>2. held = {}
      BY <1>4, <3>1
    <3>3. ~\E i \in 1 .. Len(Out) : Out[i] = n
      BY <3>1 DEF Flow, EmittedInv
    <3> HIDE DEF held, inBuffers, emitted
    <3> QED
      BY <1>2, <1>3, <2>1, <3>2, <3>3, FS_EmptySet
  <2>2. CASE ~(n > End(N))
    <3>1. PICK t \in 1 .. N : InBatch(n, t)
      <4>1. n <= End(N)
        BY <1>1, <2>2
      <4> HIDE DEF N
      <4> QED
        BY <1>1, <4>1, SomeBatch
    <3>2. \A u \in 1 .. N : InBatch(n, u) => u = t
      <4> TAKE u \in 1 .. N
      <4>1. u \in Nat \ {0} /\ t \in Nat \ {0}
        BY <1>1
      <4> QED
        BY <1>1, <3>1, <4>1, Batches
    <3>3. CASE n > End(t) - Len(pool[t])
      <4>1. held = {t}
        BY <1>4, <3>1, <3>2, <3>3
      <4>2. ASSUME NEW i \in 1 .. Len(Out), Out[i] = n PROVE FALSE
        <5>1. PICK u \in 1 .. N : InBatch(n, u) /\ n <= End(u) - Len(pool[u])
          BY <4>2 DEF Flow, EmittedInv
        <5> QED
          BY <1>1, <3>2, <3>3, <5>1
      <4>3. Cardinality(held) = 1
        BY <4>1, FS_Singleton
      <4>4. ~\E i \in 1 .. Len(Out) : Out[i] = n
        BY <4>2
      <4> HIDE DEF held, inBuffers, emitted
      <4> QED
        BY <1>2, <1>3, <2>2, <4>3, <4>4
    <3>4. CASE ~(n > End(t) - Len(pool[t]))
      <4>1. held = {}
        BY <1>4, <3>2, <3>4
      <4>2. n <= End(t) - Len(pool[t])
        BY <1>1, <3>4
      <4>3. \E i \in 1 .. Len(Out) : Out[i] = n
        BY <1>1, <3>1, <4>2 DEF Flow, EmittedInv
      <4> HIDE DEF held, inBuffers, emitted
      <4> QED
        BY <1>2, <1>3, <2>2, <4>1, <4>3, FS_EmptySet
    <3> QED
      BY <3>3, <3>4
  <2> QED
    BY <2>1, <2>2
<1>6. Count(stored, n) \in Int /\ Count(queue, n) \in Int
  <2>1. IsFiniteSet(1 .. Len(stored)) /\ IsFiniteSet(1 .. Len(queue))
    BY <1>1, FS_Interval
  <2>2. /\ IsFiniteSet({i \in 1 .. Len(stored) : stored[i] = n})
        /\ IsFiniteSet({i \in 1 .. Len(queue) : queue[i] = n})
    BY <2>1, FS_Subset
  <2> QED
    BY <2>2, FS_CardinalityType DEF Count
<1> HIDE DEF held
<1>7. Places(n) = inBuffers + Count(queue, n) + Count(stored, n) + Cardinality(held)
  BY DEF Places, held
<1>8. inBuffers \in Int
  BY <1>2
<1>9. Cardinality(held) \in Int
  <2>1. IsFiniteSet(held)
    <3>1. IsFiniteSet(1 .. N)
      BY <1>1, FS_Interval
    <3> QED
      BY <3>1, FS_Subset DEF held
  <2> QED
    BY <2>1, FS_CardinalityType
<1> HIDE DEF inBuffers
<1> QED
  BY <1>5, <1>6, <1>7, <1>8, <1>9

(* Every sample the cache accepted is in exactly one place, whatever the   *)
(* batch size: RealtimeCache::swapCache and persist lose none and store    *)
(* none twice.                                                             *)
THEOREM SamplesConserved == Spec => []Conserved
BY AlwaysFlow, FlowConserves, PTL

-----------------------------------------------------------------------------
(* The timers. *)

OneTimerInv ==
    /\ socket \in {"unconnected", "connecting", "connected"} /\ timers \in Nat
    /\ OneTimer

LEMMA StepOneTimer == OneTimerInv /\ [ProxyNext]_allVars => OneTimerInv'
<1> SUFFICES ASSUME OneTimerInv, [ProxyNext]_allVars PROVE OneTimerInv'
  OBVIOUS
<1> USE DEF OneTimerInv, OneTimer
<1>1. CASE Outage
  BY <1>1 DEF Outage, ManageError, OnDisconnected
<1>2. CASE ConnectFails \/ ConnectSucceeds
  BY <1>2 DEF ConnectFails, ConnectSucceeds, ManageError
<1>3. CASE ConnectToServer
  BY <1>3 DEF ConnectToServer, OnDisconnected
<1>4. CASE UNCHANGED <<socket, timers>>
  BY <1>4
<1>5. Recovers \/ CollectorWrites \/ OnReadyRead \/ Cache \/ UNCHANGED allVars
         => UNCHANGED <<socket, timers>>
  BY DEF Recovers, CollectorWrites, OnReadyRead, Cache, allVars, proxyVars
<1>6. ASSUME NEW v \in Variables, NEW x \in Value, VariableChanged(v, x)
      PROVE  UNCHANGED <<socket, timers>>
  BY <1>6 DEF VariableChanged
<1> QED BY <1>1, <1>2, <1>3, <1>4, <1>5, <1>6 DEF ProxyNext, Loop

(* TcpProxy::manageError and onDisconnected arm one timer between them     *)
(* however a connection ends or fails to come up, and connectToServer      *)
(* never runs on a socket that is connected.                               *)
THEOREM OneTimerAlways == ProxySpec => []OneTimer
<1>1. ProxyInit => OneTimerInv
  BY DEF ProxyInit, OneTimerInv, OneTimer
<1>2. OneTimerInv => OneTimer
  BY DEF OneTimerInv
<1> QED BY <1>1, <1>2, StepOneTimer, PTL DEF ProxySpec

-----------------------------------------------------------------------------
(* The cache. *)

LEMMA ProxyStepIsCacheStep == [ProxyNext]_allVars => [Next]_vars
<1> SUFFICES ASSUME [ProxyNext]_allVars PROVE [Next]_vars
  OBVIOUS
<1>1. CASE Outage \/ Recovers \/ ConnectFails \/ ConnectSucceeds \/ CollectorWrites
             \/ ConnectToServer \/ OnReadyRead \/ UNCHANGED allVars
  BY <1>1 DEF Outage, Recovers, ConnectFails, ConnectSucceeds, CollectorWrites,
              ConnectToServer, OnReadyRead, allVars
<1>2. CASE Cache
  BY <1>2 DEF Cache, Next
<1>3. ASSUME NEW v \in Variables, NEW x \in Value, VariableChanged(v, x) PROVE Next
  BY <1>3 DEF VariableChanged, Next
<1> QED BY <1>1, <1>2, <1>3 DEF ProxyNext, Loop

(* The acquisition is an environment of the RealtimeCache as that module   *)
(* assumes one: what the cache does under it the cache does by itself.     *)
THEOREM ProxyDrivesCache == ProxySpec => Init /\ [][Next]_vars
<1>1. ProxyInit => Init
  BY DEF ProxyInit
<1> QED BY <1>1, ProxyStepIsCacheStep, PTL DEF ProxySpec

(* What the cache promises - the buffers below MAX_CACHE_VALUES, each      *)
(* sample in one place, a batch stored in order - it keeps whatever the    *)
(* collector sends and in whichever pieces it comes.                       *)
THEOREM ProxyKeepsCachePromises ==
    ProxySpec => [](BuffersBounded /\ Conserved /\ OrderWithinBatch)
<1>1. ProxyInit => Flow
  BY InitFlow DEF ProxyInit
<1>2. Flow /\ [ProxyNext]_allVars => Flow'
  BY StepFlow, ProxyStepIsCacheStep
<1>3. Flow => BuffersBounded /\ Conserved /\ OrderWithinBatch
  BY FlowConserves, FlowKeepsOrder DEF Flow, Buffers
<1> QED BY <1>1, <1>2, <1>3, PTL DEF ProxySpec

-----------------------------------------------------------------------------
(* The samples.  What has been handed on and what onReadyRead has still to *)
(* hand on is, but for the broken ones, in order, and no sample is beyond  *)
(* what was taken from the socket.                                         *)

StreamTypeOK ==
    /\ sent \in Nat /\ taken \in Nat /\ taken <= sent
    /\ reading \in Seq(Nat) /\ origin \in Seq(Nat)
Upto ==
    /\ \A i \in DOMAIN origin : 2 * origin[i] <= taken
    /\ \A j \in DOMAIN reading : 2 * reading[j] <= taken
Ahead ==
    /\ \A i, j \in DOMAIN reading : i < j /\ reading[j] # 0 => reading[i] < reading[j]
    /\ \A i \in DOMAIN origin, j \in DOMAIN reading :
          reading[j] # 0 => origin[i] < reading[j]
Stream == StreamTypeOK /\ Upto /\ Ahead /\ InOrder

(* What one call of onReadyRead makes of the halves it takes.              *)
ReadWell(t, b, r) ==
    /\ r \in Seq(Nat)
    /\ \A j \in DOMAIN r : r[j] # 0 => t < 2 * r[j] /\ 2 * r[j] <= b
    /\ \A i, j \in DOMAIN r : i < j /\ r[j] # 0 => r[i] < r[j]
    /\ t % 2 = 0 => \A k \in t \div 2 + 1 .. b \div 2 : \E i \in DOMAIN r : r[i] = k

LEMMA WhatIsRead ==
    \A t, b \in Nat : t < b => \A r \in Reads(t + 1, b) : ReadWell(t, b, r)
<1> SUFFICES ASSUME NEW t \in Nat, NEW b \in Nat, t < b, NEW r \in Reads(t + 1, b)
             PROVE  ReadWell(t, b, r)
  OBVIOUS
<1>1. CASE t % 2 = 0
  <2> DEFINE n == (b - (t + 1) + 2) \div 2
             whole(k) == IF t + 1 + 2 * k - 1 <= b THEN (t + 1 + 2 * k - 1) \div 2 ELSE 0
  <2>1. PICK m \in Nat : t = 2 * m
    <3>1. t = 2 * (t \div 2) /\ t \div 2 \in Nat
      BY <1>1
    <3> QED BY <3>1
  <2>2. (t + 1) % 2 = 1
    BY <1>1
  <2>3. r = [k \in 1 .. n |-> whole(k)]
    BY <2>2 DEF Reads
  <2>4. n \in Nat
    OBVIOUS
  <2>5. \A k \in 1 .. n : whole(k) = IF 2 * (m + k) <= b THEN m + k ELSE 0
    BY <2>1
  <2> HIDE DEF whole
  <2>6. r \in Seq(Nat) /\ DOMAIN r = 1 .. n /\ \A k \in 1 .. n : r[k] = whole(k)
    BY <2>3, <2>4, <2>5
  <2>7. \A k \in t \div 2 + 1 .. b \div 2 : k - m \in 1 .. n /\ r[k - m] = k
    <3> SUFFICES ASSUME NEW k \in t \div 2 + 1 .. b \div 2
                 PROVE  k - m \in 1 .. n /\ r[k - m] = k
      OBVIOUS
    <3>1. t \div 2 = m /\ k \in Nat /\ m + 1 <= k /\ 2 * k <= b
      BY <2>1
    <3>2. k - m \in 1 .. n
      BY <2>1, <3>1
    <3> QED BY <2>5, <2>6, <3>1, <3>2
  <2> HIDE DEF n
  <2>8. \A j \in DOMAIN r : r[j] # 0 => r[j] = m + j /\ 2 * (m + j) <= b
    BY <2>5, <2>6
  <2>9. \A j \in DOMAIN r : r[j] # 0 => t < 2 * r[j] /\ 2 * r[j] <= b
    BY <2>1, <2>4, <2>6, <2>8
  <2>10. \A i, j \in DOMAIN r : i < j /\ r[j] # 0 => r[i] < r[j]
    <3> SUFFICES ASSUME NEW i \in DOMAIN r, NEW j \in DOMAIN r, i < j, r[j] # 0
                 PROVE  r[i] < r[j]
      OBVIOUS
    <3>1. r[j] = m + j /\ i \in Nat /\ j \in Nat
      BY <2>4, <2>6, <2>8, SMTT(30)
    <3>2. r[i] = 0 \/ r[i] = m + i
      BY <2>8
    <3> QED BY <2>1, <3>1, <3>2
  <2> QED BY <2>6, <2>7, <2>9, <2>10 DEF ReadWell
<1>2. CASE t % 2 # 0
  <2>1. (t + 1) % 2 # 1
    BY <1>2
  <2>2. PICK n \in 1 .. b - (t + 1) + 1 : r = [k \in 1 .. n |-> 0]
    BY <2>1 DEF Reads
  <2> QED BY <1>2, <2>2 DEF ReadWell
<1> QED BY <1>1, <1>2

LEMMA InitStream == ProxyInit => Stream
BY DEF ProxyInit, Stream, StreamTypeOK, Upto, Ahead, InOrder

(* Steps that take data from the socket, or lose it with the connection.   *)
LEMMA ConnectionStream ==
    ASSUME Stream, Outage \/ ConnectToServer \/ CollectorWrites
    PROVE  Stream'
<1> USE DEF Stream, StreamTypeOK
<1>1. UNCHANGED <<reading, origin>>
  BY DEF Outage, ConnectToServer, CollectorWrites
<1>2. taken' \in Nat /\ sent' \in Nat /\ taken <= taken' /\ taken' <= sent'
  BY DEF Outage, ConnectToServer, CollectorWrites, Whole
<1>3. Upto'
  BY <1>1, <1>2, SMTT(30) DEF Upto
<1> QED BY <1>1, <1>2, <1>3 DEF Ahead, InOrder

LEMMA ReadStream ==
    ASSUME Stream, OnReadyRead
    PROVE  /\ Stream'
           /\ taken % 2 = 0 => \A k \in taken \div 2 + 1 .. taken' \div 2 :
                                   \E i \in DOMAIN reading' : reading'[i] = k
<1> USE DEF Stream, StreamTypeOK
<1>1. PICK b \in taken + 1 .. sent : taken' = b /\ reading' \in Reads(taken + 1, b)
  BY DEF OnReadyRead
<1>2. UNCHANGED <<sent, origin>>
  BY DEF OnReadyRead
<1>3. b \in Nat /\ taken < b /\ b <= sent
  OBVIOUS
<1>4. /\ reading' \in Seq(Nat)
      /\ \A j \in DOMAIN reading' : reading'[j] # 0 => taken < 2 * reading'[j] /\ 2 * reading'[j] <= b
      /\ \A i, j \in DOMAIN reading' : i < j /\ reading'[j] # 0 => reading'[i] < reading'[j]
      /\ taken % 2 = 0 => \A k \in taken \div 2 + 1 .. b \div 2 :
                              \E i \in DOMAIN reading' : reading'[i] = k
  <2>1. ReadWell(taken, b, reading')
    BY <1>1, <1>3, WhatIsRead
  <2> QED BY <2>1 DEF ReadWell
<1>5. Upto'
  BY <1>1, <1>2, <1>3, <1>4, SMTT(30) DEF Upto
<1>6. Ahead'
  <2> SUFFICES ASSUME NEW i \in DOMAIN origin, NEW j \in DOMAIN reading', reading'[j] # 0
               PROVE  origin[i] < reading'[j]
    BY <1>2, <1>4 DEF Ahead
  <2>1. origin[i] \in Nat /\ reading'[j] \in Nat /\ 2 * origin[i] <= taken
    BY <1>4, SMTT(30) DEF Upto
  <2> QED BY <1>4, <2>1
<1> QED BY <1>1, <1>2, <1>3, <1>4, <1>5, <1>6 DEF InOrder

LEMMA HandOnStream ==
    ASSUME Stream, NEW v, NEW x, VariableChanged(v, x)
    PROVE  Stream'
<1> USE DEF Stream, StreamTypeOK
<1> DEFINE h == Head(reading)
<1>1. /\ reading # << >> /\ reading' = Tail(reading) /\ origin' = Append(origin, h)
      /\ UNCHANGED <<sent, taken>>
  BY DEF VariableChanged
<1>2. /\ h \in Nat /\ h = reading[1] /\ 1 \in DOMAIN reading /\ Len(reading) \in Nat \ {0}
      /\ reading' \in Seq(Nat) /\ origin' \in Seq(Nat)
      /\ Len(reading') = Len(reading) - 1 /\ Len(origin') = Len(origin) + 1
      /\ DOMAIN reading' \subseteq Nat
  BY <1>1
<1>3. \A j \in DOMAIN reading' : j + 1 \in DOMAIN reading /\ reading'[j] = reading[j + 1]
  BY <1>1, <1>2
<1>4. \A i \in DOMAIN origin' :
          \/ i \in DOMAIN origin /\ origin'[i] = origin[i]
          \/ i = Len(origin) + 1 /\ origin'[i] = h
  BY <1>1, <1>2
<1>5. Upto'
  BY <1>1, <1>2, <1>3, <1>4 DEF Upto
<1>6. \A i, j \in DOMAIN reading' : i < j /\ reading'[j] # 0 => reading'[i] < reading'[j]
  <2> SUFFICES ASSUME NEW i \in DOMAIN reading', NEW j \in DOMAIN reading', i < j, reading'[j] # 0
               PROVE  reading'[i] < reading'[j]
    OBVIOUS
  <2>1. i \in Nat /\ j \in Nat /\ i + 1 < j + 1
    BY <1>2
  <2> QED BY <1>3, <2>1 DEF Ahead
<1>7. \A i \in DOMAIN origin', j \in DOMAIN reading' :
          reading'[j] # 0 => origin'[i] < reading'[j]
  <2> SUFFICES ASSUME NEW i \in DOMAIN origin', NEW j \in DOMAIN reading', reading'[j] # 0
               PROVE  origin'[i] < reading'[j]
    OBVIOUS
  <2>1. j \in Nat /\ 1 < j + 1
    BY <1>2, SMTT(30)
  <2>2. CASE i \in DOMAIN origin /\ origin'[i] = origin[i]
    BY <1>3, <2>2 DEF Ahead
  <2>3. CASE origin'[i] = h
    BY <1>2, <1>3, <2>1, <2>3 DEF Ahead
  <2> QED BY <1>4, <2>2, <2>3
<1>8. InOrder'
  <2> SUFFICES ASSUME NEW i \in DOMAIN origin', NEW j \in DOMAIN origin', i < j, origin'[j] # 0
               PROVE  origin'[i] < origin'[j]
    BY DEF InOrder
  <2>a. /\ DOMAIN origin' = 1 .. Len(origin') /\ Len(origin) \in Nat
        /\ Len(origin') = Len(origin) + 1
    BY <1>2
  <2>b. i # Len(origin) + 1
    BY <2>a
  <2>1. i \in DOMAIN origin /\ origin'[i] = origin[i]
    BY <1>4, <2>b
  <2>2. CASE j \in DOMAIN origin /\ origin'[j] = origin[j]
    BY <2>1, <2>2 DEF InOrder
  <2>3. CASE origin'[j] = h
    BY <1>2, <2>1, <2>3 DEF Ahead
  <2> QED BY <1>4, <2>2, <2>3
<1> QED BY <1>1, <1>2, <1>5, <1>6, <1>7, <1>8 DEF Ahead

LEMMA StepStream == Stream /\ [ProxyNext]_allVars => Stream'
<1> SUFFICES ASSUME Stream, [ProxyNext]_allVars PROVE Stream'
  OBVIOUS
<1>1. CASE Recovers \/ ConnectFails \/ ConnectSucceeds \/ Cache \/ UNCHANGED allVars
  <2>1. UNCHANGED <<sent, taken, reading, origin>>
    BY <1>1 DEF Recovers, ConnectFails, ConnectSucceeds, Cache, allVars, proxyVars
  <2> QED BY <2>1 DEF Stream, StreamTypeOK, Upto, Ahead, InOrder
<1>2. CASE OnReadyRead
  BY <1>2, ReadStream
<1> QED BY <1>1, <1>2, ConnectionStream, HandOnStream DEF ProxyNext, Loop

(* onReadyRead and emitVariablePoint hand the samples on in the order the  *)
(* collector wrote them, none twice, wherever TCP cuts the stream.         *)
THEOREM HandedOnInOrder == ProxySpec => []InOrder
<1>1. Stream => InOrder
  BY DEF Stream
<1> QED BY <1>1, InitStream, StepStream, PTL DEF ProxySpec

(* A piece that begins with a sample yields every sample that is whole in  *)
(* it.                                                                     *)
THEOREM WholeSamplesHandedOn == ProxySpec => HandsOnPieces
<1> DEFINE Piece == reading' # << >> /\ reading = << >> /\ taken % 2 = 0 =>
                       \A k \in taken \div 2 + 1 .. taken' \div 2 :
                           \E i \in DOMAIN reading' : reading'[i] = k
<1>1. Stream /\ [ProxyNext]_allVars => [Piece]_allVars
  <2> SUFFICES ASSUME Stream, ProxyNext, reading' # << >>, reading = << >>, taken % 2 = 0
               PROVE  Piece
    OBVIOUS
  <2>1. CASE OnReadyRead
    BY <2>1, ReadStream
  <2>2. CASE UNCHANGED reading
    BY <2>2
  <2>3. ASSUME NEW v, NEW x, VariableChanged(v, x) PROVE FALSE
    BY <2>3 DEF VariableChanged
  <2>4. OnReadyRead \/ UNCHANGED reading
    BY <2>3 DEF ProxyNext, Loop, Outage, Recovers, ConnectFails, ConnectSucceeds,
                CollectorWrites, ConnectToServer, Cache, proxyVars
  <2> QED BY <2>1, <2>2, <2>4
<1> QED BY <1>1, InitStream, StepStream, PTL DEF ProxySpec, HandsOnPieces
=============================================================================
