--------------------------- MODULE AdmissionProofs ---------------------------
(***************************************************************************)
(* The memory of the rate limiter is bounded for any keys, threads, window *)
(* and budget, whatever the order in which threads use the times they      *)
(* sampled.  When one thread asks, so that times come in order, no rolling *)
(* window holds more than the budget and no budget is wasted.              *)
(*                                                                         *)
(* The permits of connections, sessions and commands add up in every       *)
(* order of closing, upgrading, deadlines and panics, and a poisoned mutex *)
(* stays poisoned.                                                         *)
(***************************************************************************)
EXTENDS RateLimit, Permits, FiniteSetTheorems, TLAPS

Sampled == [key : Keys, now : Times]

\* The map tracks finitely many keys, with a sequence of times for each.
RateTypeOK ==
  /\ sampled \in [Threads -> Sampled \cup {None}]
  /\ clock \in Times
  /\ IsFiniteSet(DOMAIN windows)
  /\ windows \in [DOMAIN windows -> Seq(Times)]

IInv == RateTypeOK /\ MemoryBounded

-----------------------------------------------------------------------------

\* A set of places without gaps is an interval.
LEMMA PrefixIsInterval ==
  ASSUME NEW n \in Nat, NEW S \in SUBSET (1 .. n), \A i \in S : 1 .. i \subseteq S
  PROVE  Cardinality(S) \in 0 .. n /\ S = 1 .. Cardinality(S)
<1>1. \A k \in Nat : IsFiniteSet(1 .. k) /\ Cardinality(1 .. k) = k
  <2>. TAKE k \in Nat
  <2>1. 1 \in Int /\ k \in Int /\ (IF 1 > k THEN 0 ELSE k - 1 + 1) = k
    OBVIOUS
  <2>. QED  BY <2>1, FS_Interval, Zenon
<1>2. IsFiniteSet(S) /\ Cardinality(S) \in Nat /\ Cardinality(S) <= n
  <2>1. IsFiniteSet(S) /\ Cardinality(S) <= Cardinality(1 .. n)
    BY <1>1, FS_Subset, Zenon
  <2>2. Cardinality(S) \in Nat
    BY <2>1, FS_CardinalityType, Zenon
  <2>. QED  BY <1>1, <2>1, <2>2, Zenon
<1>3. ASSUME NEW i \in S PROVE i \in 1 .. Cardinality(S)
  <2>1. i \in Nat /\ 1 <= i
    OBVIOUS
  <2>2. Cardinality(1 .. i) <= Cardinality(S)
    BY <1>2, <1>3, FS_Subset, Zenon
  <2>. QED  BY <1>1, <1>2, <2>1, <2>2
<1>4. S \in SUBSET (1 .. Cardinality(S))
  BY <1>3, Zenon
<1>5. S = 1 .. Cardinality(S)
  BY <1>1, <1>2, <1>4, FS_Subset, Zenon
<1>. QED  BY <1>2, <1>5

\* Eviction drops the c oldest entries, all of which have left the window, and
\* the first one it keeps has not: the while loop of admit() pops from the front.
LEMMA CurrentDrops ==
  ASSUME NEW entries \in Seq(Times), NEW now \in Times
  PROVE  \E c \in 0 .. Len(entries) :
           /\ Current(entries, now) \in Seq(Times)
           /\ Len(Current(entries, now)) = Len(entries) - c
           /\ \A i \in 1 .. Len(entries) - c :
                Current(entries, now)[i] = entries[c + i]
           /\ \A i \in 1 .. c : entries[i] + WindowSecs <= now
           /\ c < Len(entries) => entries[c + 1] + WindowSecs > now
<1>. DEFINE old == {i \in DOMAIN entries :
                      \A j \in 1 .. i : entries[j] + WindowSecs <= now}
            c == Cardinality(old)
            n == Len(entries)
<1>1. n \in Nat /\ DOMAIN entries = 1 .. n
  OBVIOUS
<1>2. c \in 0 .. n /\ old = 1 .. c
  <2>1. old \in SUBSET (1 .. n) /\ \A i \in old : 1 .. i \subseteq old
    BY <1>1
  <2>. HIDE DEF old, n
  <2>. QED  BY <1>1, <2>1, PrefixIsInterval, Zenon
<1>3. Current(entries, now) = SubSeq(entries, c + 1, n)
  BY Zenon DEF Current
<1>4. \A i \in 1 .. c : entries[i] + WindowSecs <= now
  BY <1>1, <1>2
<1>5. ASSUME c < n PROVE entries[c + 1] + WindowSecs > now
  <2>. HIDE DEF c, old, n
  <2>1. c + 1 \in DOMAIN entries /\ c + 1 \notin old
    BY <1>1, <1>2, <1>5
  <2>2. PICK j \in 1 .. c + 1 : ~(entries[j] + WindowSecs <= now)
    BY <2>1, Zenon DEF old
  <2>3. j = c + 1
    BY <1>2, <1>4, <2>2
  <2>4. entries[j] \in Nat
    BY <2>1, <2>3, RateLimitAssumption DEF Times
  <2>. QED  BY <2>2, <2>3, <2>4, RateLimitAssumption DEF Times
<1>. HIDE DEF c, old, n
<1>6. \A i \in (c + 1) .. n : entries[i] \in Times
  BY <1>1, <1>2
<1>7. /\ SubSeq(entries, c + 1, n) \in Seq(Times)
      /\ Len(SubSeq(entries, c + 1, n)) = n - c
      /\ \A i \in 1 .. n - c : SubSeq(entries, c + 1, n)[i] = entries[c + i]
  <2>1. c + 1 \in Int /\ n \in Int
    BY <1>1, <1>2
  <2>2. /\ SubSeq(entries, c + 1, n) \in Seq(Times)
        /\ Len(SubSeq(entries, c + 1, n)) =
             IF c + 1 <= n THEN n - (c + 1) + 1 ELSE 0
        /\ \A i \in 1 .. n - (c + 1) + 1 :
             SubSeq(entries, c + 1, n)[i] = entries[c + 1 + i - 1]
    BY <1>6, <2>1
  <2>3. /\ n - (c + 1) + 1 = n - c
        /\ \A i \in 1 .. n - c : c + 1 + i - 1 = c + i
        /\ ~(c + 1 <= n) => n - c = 0
    BY <1>1, <1>2
  <2>. QED  BY <2>2, <2>3, Zenon
<1>. QED  BY <1>2, <1>3, <1>4, <1>5, <1>7, Zenon DEF n

\* Before the first request nothing is tracked.
LEMMA InitInv == Init => IInv
<1>. SUFFICES ASSUME Init PROVE IInv
  BY Zenon
<1>1. DOMAIN windows = {}
  BY Zenon DEF Init
<1>2. IsFiniteSet(DOMAIN windows) /\ Cardinality(DOMAIN windows) = 0
  BY <1>1, FS_EmptySet, Zenon
<1>3. RateTypeOK
  BY <1>1, <1>2, RateLimitAssumption DEF Init, RateTypeOK, Times
<1>4. MemoryBounded
  BY <1>1, <1>2, RateLimitAssumption DEF MemoryBounded
<1>. QED  BY <1>3, <1>4, Zenon DEF IInv

\* A decision empties the thread's sample and keeps the clock.
LEMMA DecideType ==
  ASSUME RateTypeOK, NEW t \in Threads, NEW admit, Decide(t, admit)
  PROVE  /\ sampled' \in [Threads -> Sampled \cup {None}]
         /\ clock' \in Times
BY Zenon DEF RateTypeOK, Decide

\* A request of a tracked key evicts and may append one time.
LEMMA KnownInv ==
  ASSUME IInv, NEW t \in Threads, AdmitKnown(t)
  PROVE  IInv'
<1>. DEFINE key == sampled[t].key
            now == sampled[t].now
            entries == Current(windows[key], now)
            next == IF Len(entries) < MaxRequests THEN Append(entries, now) ELSE entries
<1>1. key \in DOMAIN windows /\ now \in Times
  BY Zenon DEF IInv, RateTypeOK, AdmitKnown, Sampled
<1>2. windows[key] \in Seq(Times) /\ Len(windows[key]) <= MaxRequests
  BY <1>1, Zenon DEF IInv, RateTypeOK, MemoryBounded
<1>3. entries \in Seq(Times) /\ Len(entries) <= Len(windows[key])
  BY <1>1, <1>2, CurrentDrops
<1>4. windows' = [windows EXCEPT ![key] = next]
  BY Zenon DEF AdmitKnown
<1>. HIDE DEF entries
<1>5. next \in Seq(Times) /\ Len(next) <= MaxRequests
  BY <1>1, <1>2, <1>3, RateLimitAssumption
<1>. HIDE DEF next, key, now
<1>6. DOMAIN windows' = DOMAIN windows
  BY <1>4, Zenon
<1>7. RateTypeOK'
  <2>1. Decide(t, Len(entries) < MaxRequests)
    BY Zenon DEF AdmitKnown, entries, key, now
  <2>. QED  BY <1>4, <1>5, <1>6, <2>1, DecideType, Zenon DEF IInv, RateTypeOK
<1>8. MemoryBounded'
  BY <1>1, <1>4, <1>5, <1>6, Zenon DEF IInv, RateTypeOK, MemoryBounded
<1>. QED  BY <1>7, <1>8, Zenon DEF IInv

\* A key that is not tracked is added while there is room.
LEMMA NewInv ==
  ASSUME IInv, NEW t \in Threads, AdmitNew(t)
  PROVE  IInv'
<1>. DEFINE key == sampled[t].key
            now == sampled[t].now
            room == Cardinality(DOMAIN windows) < MaxTrackedKeys
<1>1. key \notin DOMAIN windows /\ now \in Times /\ Decide(t, room)
  BY Zenon DEF IInv, RateTypeOK, AdmitNew, Sampled
<1>2. /\ sampled' \in [Threads -> Sampled \cup {None}]
      /\ clock' \in Times
  BY <1>1, DecideType, Zenon DEF IInv
<1>3. CASE room
  <2>1. windows' = [k \in DOMAIN windows \cup {key} |->
                      IF k = key THEN <<now>> ELSE windows[k]]
    BY <1>3, Zenon DEF AdmitNew
  <2>. HIDE DEF key, now
  <2>2. DOMAIN windows' = DOMAIN windows \cup {key}
    BY <2>1, Zenon
  <2>3. /\ IsFiniteSet(DOMAIN windows')
        /\ Cardinality(DOMAIN windows') = Cardinality(DOMAIN windows) + 1
    BY <1>1, <2>2, FS_AddElement, Zenon DEF IInv, RateTypeOK
  <2>4. Cardinality(DOMAIN windows) \in Nat
    BY FS_CardinalityType, Zenon DEF IInv, RateTypeOK
  <2>5. <<now>> \in Seq(Times) /\ Len(<<now>>) = 1
    BY <1>1
  <2>6. windows' \in [DOMAIN windows' -> Seq(Times)]
    BY <2>1, <2>2, <2>5, Zenon DEF IInv, RateTypeOK
  <2>7. \A k \in DOMAIN windows' : Len(windows'[k]) <= MaxRequests
    BY <2>1, <2>2, <2>5, RateLimitAssumption DEF IInv, MemoryBounded
  <2>8. Cardinality(DOMAIN windows') <= MaxTrackedKeys
    BY <1>3, <2>3, <2>4, RateLimitAssumption
  <2>. QED  BY <1>2, <2>3, <2>6, <2>7, <2>8, Zenon DEF IInv, RateTypeOK, MemoryBounded
<1>4. CASE ~room
  BY <1>2, <1>4, Zenon DEF AdmitNew, IInv, RateTypeOK, MemoryBounded
<1>. QED  BY <1>3, <1>4, Zenon

\* Every step keeps the invariant.
LEMMA StepInv == IInv /\ [Next]_vars => IInv'
<1>. SUFFICES ASSUME IInv, [Next]_vars PROVE IInv'
  BY Zenon
<1>1. ASSUME NEW t \in Threads, NEW key \in Keys, Sample(t, key)
      PROVE  IInv'
  BY <1>1, Zenon DEF IInv, RateTypeOK, MemoryBounded, Sample, Sampled
<1>2. ASSUME Tick
      PROVE  IInv'
  BY <1>2, RateLimitAssumption DEF IInv, RateTypeOK, MemoryBounded, Tick, Times
<1>3. ASSUME UNCHANGED vars
      PROVE  IInv'
  BY <1>3, Zenon DEF IInv, RateTypeOK, MemoryBounded, vars
<1>. QED  BY <1>1, <1>2, <1>3, KnownInv, NewInv, Zenon DEF Next

\* CW-SECURITY-003: the limiter never tracks more than MaxTrackedKeys keys and
\* keeps no more than MaxRequests times of each, for any number of threads and
\* any order of the times they sampled, a clock that is set back included.
THEOREM MemoryIsBounded == Spec => []MemoryBounded
<1>1. IInv => MemoryBounded
  BY Zenon DEF IInv
<1>. QED  BY <1>1, InitInv, StepInv, PTL DEF Spec

-----------------------------------------------------------------------------
(* Times in order: one blocking thread, and a clock that is not set back.  *)

OneThread == \A t, u \in Threads : t = u
SamplesInOrder == OneThread /\ ClockMayStepBack = FALSE

\* No request that is still to be decided can carry a time before x.
Past(x) ==
  /\ x <= clock
  /\ \A t \in Threads : sampled[t] # None => x <= sampled[t].now

Ordered(seq) == \A i, j \in DOMAIN seq : i <= j => seq[i] <= seq[j]

\* A request and the one MaxRequests later are a window apart.
Spaced(seq) ==
  \A i \in DOMAIN seq :
    i + MaxRequests \in DOMAIN seq => seq[i + MaxRequests] >= seq[i] + WindowSecs

\* What the deque keeps of a key is its history without the first d requests.
KeepsFrom(kept, seq, d) ==
  /\ Len(kept) = Len(seq) - d
  /\ \A i \in 1 .. Len(seq) - d : kept[i] = seq[d + i]

\* The forgotten requests left the window of every request still to come.
KeyInv(key) ==
  /\ Ordered(admitted[key])
  /\ Spaced(admitted[key])
  /\ \A i \in DOMAIN admitted[key] : Past(admitted[key][i])
  /\ key \notin DOMAIN windows => admitted[key] = <<>>
  /\ key \in DOMAIN windows =>
       \E d \in 0 .. Len(admitted[key]) :
         /\ KeepsFrom(windows[key], admitted[key], d)
         /\ \A i \in 1 .. d : Past(admitted[key][i] + WindowSecs)

HistoryInv ==
  /\ IInv
  /\ admitted \in [Keys -> Seq(Times)]
  /\ \A t \in Threads : sampled[t] # None => sampled[t].now <= clock
  /\ \A key \in Keys : KeyInv(key)

\* Eviction at now leaves exactly the requests that are in the window that
\* ends at now.
LEMMA EvictionExact ==
  ASSUME NEW seq \in Seq(Times), NEW kept \in Seq(Times), NEW now \in Times,
         NEW d \in 0 .. Len(seq), KeepsFrom(kept, seq, d), Ordered(seq),
         \A i \in 1 .. d : seq[i] + WindowSecs <= now
  PROVE  \E e \in 0 .. Len(seq) :
           /\ Current(kept, now) \in Seq(Times)
           /\ KeepsFrom(Current(kept, now), seq, e)
           /\ \A i \in 1 .. e : seq[i] + WindowSecs <= now
           /\ \A i \in (e + 1) .. Len(seq) : seq[i] + WindowSecs > now
<1>. DEFINE cur == Current(kept, now)
            n == Len(seq)
<1>1. PICK c \in 0 .. Len(kept) :
        /\ cur \in Seq(Times)
        /\ Len(cur) = Len(kept) - c
        /\ \A i \in 1 .. Len(kept) - c : cur[i] = kept[c + i]
        /\ \A i \in 1 .. c : kept[i] + WindowSecs <= now
        /\ c < Len(kept) => kept[c + 1] + WindowSecs > now
  BY CurrentDrops, Zenon
<1>. HIDE DEF cur
<1>2. n \in Nat /\ DOMAIN seq = 1 .. n /\ Len(kept) = n - d
  BY DEF KeepsFrom
<1>. HIDE DEF n
<1>3. \A i \in 1 .. n - d : kept[i] = seq[d + i]
  BY Zenon DEF KeepsFrom, n
<1>. DEFINE e == d + c
<1>4. d \in 0 .. n /\ e \in 0 .. n /\ Len(cur) = n - e
  BY <1>1, <1>2 DEF n
<1>5. \A i \in 1 .. n - e : cur[i] = seq[e + i]
  <2>. TAKE i \in 1 .. n - e
  <2>1. i \in 1 .. Len(kept) - c /\ c + i \in 1 .. n - d /\ d + (c + i) = e + i
    BY <1>2, <1>4
  <2>. QED  BY <1>1, <1>3, <2>1, Zenon
<1>6. \A i \in 1 .. e : seq[i] + WindowSecs <= now
  <2>. TAKE i \in 1 .. e
  <2>1. CASE i <= d
    BY <2>1
  <2>2. CASE i > d
    <3>1. i - d \in 1 .. c /\ i - d \in 1 .. n - d /\ d + (i - d) = i
      BY <1>2, <1>4, <2>2
    <3>. QED  BY <1>1, <1>3, <3>1, Zenon
  <2>. QED  BY <1>4, <2>1, <2>2
<1>7. ASSUME NEW i \in (e + 1) .. n PROVE seq[i] + WindowSecs > now
  <2>1. c < Len(kept) /\ c + 1 \in 1 .. n - d /\ d + (c + 1) = e + 1
    BY <1>2, <1>4
  <2>2. seq[e + 1] + WindowSecs > now
    BY <1>1, <1>3, <2>1
  <2>3. e + 1 \in DOMAIN seq /\ i \in DOMAIN seq /\ e + 1 <= i
    BY <1>2, <1>4
  <2>4. seq[e + 1] <= seq[i] /\ seq[e + 1] \in Nat /\ seq[i] \in Nat
    BY <2>3, RateLimitAssumption DEF Ordered, Times
  <2>5. WindowSecs \in Nat /\ now \in Nat
    BY RateLimitAssumption DEF Times
  <2>6. \A x, y, w, m \in Nat : x <= y /\ x + w > m => y + w > m
    OBVIOUS
  <2>. HIDE DEF e
  <2>. QED  BY <2>2, <2>4, <2>5, <2>6, Zenon
<1>. HIDE DEF e
<1>8. KeepsFrom(cur, seq, e)
  BY <1>4, <1>5, Zenon DEF KeepsFrom, n
<1>. QED  BY <1>1, <1>4, <1>6, <1>7, <1>8, Zenon DEF cur, n

\* An admitted request keeps the history ordered and spaced.
LEMMA AppendHistory ==
  ASSUME NEW seq \in Seq(Times), NEW now \in Times, NEW e \in 0 .. Len(seq),
         Ordered(seq), Spaced(seq), \A i \in DOMAIN seq : seq[i] <= now,
         \A i \in 1 .. e : seq[i] + WindowSecs <= now,
         Len(seq) - e < MaxRequests
  PROVE  Ordered(Append(seq, now)) /\ Spaced(Append(seq, now))
<1>. DEFINE new == Append(seq, now)
            n == Len(seq)
<1>1. n \in Nat /\ DOMAIN seq = 1 .. n /\ DOMAIN new = 1 .. n + 1
  OBVIOUS
<1>2. new[n + 1] = now /\ \A i \in 1 .. n : new[i] = seq[i]
  OBVIOUS
<1>3. \A i \in 1 .. n : seq[i] \in Nat
  BY <1>1, RateLimitAssumption DEF Times
<1>4. now \in Nat /\ MaxRequests \in Nat /\ MaxRequests > 0 /\ WindowSecs \in Nat
  BY RateLimitAssumption DEF Times
<1>5. e \in 0 .. n /\ n - e < MaxRequests
  BY Zenon
<1>. HIDE DEF new, n
<1>6. Ordered(new)
  <2>. SUFFICES ASSUME NEW i \in 1 .. n + 1, NEW j \in 1 .. n + 1, i <= j
                PROVE  new[i] <= new[j]
    BY <1>1, Zenon DEF Ordered
  <2>1. CASE j \in 1 .. n
    <3>1. i \in 1 .. n
      BY <1>1, <2>1
    <3>. QED  BY <1>1, <1>2, <2>1, <3>1, Zenon DEF Ordered
  <2>2. CASE j = n + 1 /\ i \in 1 .. n
    BY <1>1, <1>2, <2>2, Zenon
  <2>3. CASE j = n + 1 /\ i = n + 1
    BY <1>2, <1>4, <2>3
  <2>. QED  BY <1>1, <2>1, <2>2, <2>3
<1>7. Spaced(new)
  <2>. SUFFICES ASSUME NEW i \in 1 .. n + 1, i + MaxRequests \in 1 .. n + 1
                PROVE  new[i + MaxRequests] >= new[i] + WindowSecs
    BY <1>1, Zenon DEF Spaced
  <2>1. CASE i + MaxRequests \in 1 .. n
    <3>1. i \in 1 .. n
      BY <1>1, <1>4, <2>1
    <3>. QED  BY <1>1, <1>2, <2>1, <3>1, Zenon DEF Spaced
  <2>2. CASE i + MaxRequests = n + 1
    <3>1. i \in 1 .. e /\ i \in 1 .. n
      BY <1>1, <1>4, <1>5, <2>2
    <3>2. new[i] = seq[i] /\ seq[i] + WindowSecs <= now /\ seq[i] \in Nat
      BY <1>2, <1>3, <3>1, Zenon
    <3>. QED  BY <1>2, <1>4, <2>2, <3>2, Zenon
  <2>. QED  BY <1>1, <2>1, <2>2
<1>. QED  BY <1>6, <1>7, Zenon DEF new

\* Nothing has been admitted.
LEMMA InitHistory == Init => HistoryInv
<1>. SUFFICES ASSUME Init PROVE HistoryInv
  BY Zenon
<1>1. IInv
  BY InitInv, Zenon
<1>2. <<>> \in Seq(Times) /\ DOMAIN <<>> = {}
  OBVIOUS
<1>3. ASSUME NEW key \in Keys PROVE KeyInv(key)
  <2>1. admitted[key] = <<>> /\ key \notin DOMAIN windows
    BY Zenon DEF Init
  <2>. QED  BY <1>2, <2>1, Zenon DEF KeyInv, Ordered, Spaced
<1>. QED  BY <1>1, <1>2, <1>3, Zenon DEF HistoryInv, Init

\* A step that admits nothing and evicts nothing keeps the history if no time
\* still to be decided gets older than it could be before.
LEMMA HistoryKept ==
  ASSUME HistoryInv, UNCHANGED <<windows, admitted>>, IInv',
         \A x \in Nat : Past(x) => Past(x)',
         \A t \in Threads : sampled'[t] # None => sampled'[t].now <= clock'
  PROVE  HistoryInv'
<1>1. ASSUME NEW key \in Keys PROVE KeyInv(key)'
  <2>1. KeyInv(key) /\ admitted[key] \in Seq(Times)
    BY Zenon DEF HistoryInv
  <2>2. \A i \in DOMAIN admitted[key] :
          admitted[key][i] \in Nat /\ admitted[key][i] + WindowSecs \in Nat
    BY <2>1, RateLimitAssumption DEF Times
  <2>3. \A i \in DOMAIN admitted[key] : Past(admitted[key][i])'
    BY <2>1, <2>2, Zenon DEF KeyInv
  <2>4. ASSUME key \in DOMAIN windows'
        PROVE  (\E d \in 0 .. Len(admitted[key]) :
                  /\ KeepsFrom(windows[key], admitted[key], d)
                  /\ \A i \in 1 .. d : Past(admitted[key][i] + WindowSecs))'
    <3>1. PICK d \in 0 .. Len(admitted[key]) :
            /\ KeepsFrom(windows[key], admitted[key], d)
            /\ \A i \in 1 .. d : Past(admitted[key][i] + WindowSecs)
      BY <2>1, <2>4, Zenon DEF KeyInv
    <3>2. \A i \in 1 .. d : i \in DOMAIN admitted[key]
      BY <2>1
    <3>3. \A i \in 1 .. d : Past(admitted[key][i] + WindowSecs)'
      BY <2>2, <3>1, <3>2, Zenon
    <3>. QED  BY <3>1, <3>3, Zenon
  <2>. QED  BY <2>1, <2>3, <2>4, Zenon DEF KeyInv
<1>. QED  BY <1>1, Zenon DEF HistoryInv

\* What a decision of the only thread knows: every admitted time is at most
\* the thread's, and so is every time another decision may still carry.
LEMMA DecideOne ==
  ASSUME OneThread, HistoryInv, NEW t \in Threads, sampled[t] # None,
         NEW admit, Decide(t, admit)
  PROVE  /\ sampled[t].key \in Keys /\ sampled[t].now \in Times
         /\ sampled[t].now <= clock
         /\ \A x \in Nat : Past(x) => x <= sampled[t].now
         /\ \A x \in Nat : x <= clock => Past(x)'
         /\ \A x \in Nat : x <= sampled[t].now => Past(x)'
         /\ \A u \in Threads : sampled'[u] = None
<1>1. sampled \in [Threads -> Sampled \cup {None}] /\ clock \in Times
  BY Zenon DEF HistoryInv, IInv, RateTypeOK
<1>2. /\ sampled[t].key \in Keys /\ sampled[t].now \in Times
      /\ sampled[t].now <= clock
  BY <1>1, Zenon DEF HistoryInv, Sampled
<1>3. \A u \in Threads : sampled'[u] = None
  BY <1>1, Zenon DEF OneThread, Decide
<1>4. \A x \in Nat : Past(x) => x <= sampled[t].now
  BY Zenon DEF Past
<1>5. \A x \in Nat : x <= clock => Past(x)'
  BY <1>3, Zenon DEF Past, Decide
<1>6. \A x \in Nat : x <= sampled[t].now => x <= clock
  BY <1>1, <1>2, RateLimitAssumption DEF Times
<1>. QED  BY <1>2, <1>3, <1>4, <1>5, <1>6, Zenon

\* A key the thread did not ask about keeps its history.
LEMMA OtherKey ==
  ASSUME OneThread, HistoryInv, NEW t \in Threads, sampled[t] # None,
         NEW admit, Decide(t, admit), NEW key \in Keys, key # sampled[t].key,
         key \in DOMAIN windows' <=> key \in DOMAIN windows,
         key \in DOMAIN windows => windows'[key] = windows[key]
  PROVE  KeyInv(key)'
<1>1. KeyInv(key) /\ admitted[key] \in Seq(Times) /\ clock \in Times
  BY Zenon DEF HistoryInv, IInv, RateTypeOK
<1>2. admitted'[key] = admitted[key]
  BY Zenon DEF HistoryInv, Decide
<1>3. \A x \in Nat : Past(x) => Past(x)'
  BY DecideOne, Zenon
<1>4. \A i \in DOMAIN admitted[key] :
        admitted[key][i] \in Nat /\ admitted[key][i] + WindowSecs \in Nat
  BY <1>1, RateLimitAssumption DEF Times
<1>5. \A i \in DOMAIN admitted[key] : Past(admitted[key][i])'
  BY <1>1, <1>2, <1>3, <1>4, Zenon DEF KeyInv
<1>6. ASSUME key \in DOMAIN windows'
      PROVE  (\E d \in 0 .. Len(admitted[key]) :
                /\ KeepsFrom(windows[key], admitted[key], d)
                /\ \A i \in 1 .. d : Past(admitted[key][i] + WindowSecs))'
  <2>1. PICK d \in 0 .. Len(admitted[key]) :
          /\ KeepsFrom(windows[key], admitted[key], d)
          /\ \A i \in 1 .. d : Past(admitted[key][i] + WindowSecs)
    BY <1>1, <1>6, Zenon DEF KeyInv
  <2>2. \A i \in 1 .. d : i \in DOMAIN admitted[key]
    BY <1>1
  <2>3. \A i \in 1 .. d : Past(admitted[key][i] + WindowSecs)'
    BY <1>2, <1>3, <1>4, <2>1, <2>2, Zenon
  <2>. QED  BY <1>2, <1>6, <2>1, <2>3, Zenon
<1>. QED  BY <1>1, <1>2, <1>5, <1>6, Zenon DEF KeyInv

\* The decision about a tracked key, with the number e of its requests that
\* have left the window when it is taken.
LEMMA KnownDecision ==
  ASSUME OneThread, HistoryInv, NEW t \in Threads, AdmitKnown(t)
  PROVE  LET key == sampled[t].key
             now == sampled[t].now
             entries == Current(windows[key], now)
             seq == admitted[key]
         IN  /\ seq \in Seq(Times) /\ entries \in Seq(Times)
             /\ \A i \in DOMAIN seq : seq[i] <= now
             /\ \E e \in 0 .. Len(seq) :
                  /\ KeepsFrom(entries, seq, e)
                  /\ \A i \in 1 .. e : seq[i] + WindowSecs <= now
                  /\ \A i \in (e + 1) .. Len(seq) : seq[i] + WindowSecs > now
<1>. DEFINE key == sampled[t].key
            now == sampled[t].now
            entries == Current(windows[key], now)
            seq == admitted[key]
<1>1. /\ key \in DOMAIN windows /\ sampled[t] # None
      /\ Decide(t, Len(entries) < MaxRequests)
  BY Zenon DEF AdmitKnown
<1>2. key \in Keys /\ now \in Times /\ \A x \in Nat : Past(x) => x <= now
  BY <1>1, DecideOne, Zenon
<1>3. seq \in Seq(Times) /\ windows[key] \in Seq(Times) /\ KeyInv(key)
  BY <1>1, <1>2, Zenon DEF HistoryInv, IInv, RateTypeOK
<1>4. \A i \in DOMAIN seq : seq[i] \in Nat /\ seq[i] + WindowSecs \in Nat
  BY <1>3, RateLimitAssumption DEF Times
<1>5. \A i \in DOMAIN seq : seq[i] <= now
  BY <1>2, <1>3, <1>4, Zenon DEF KeyInv
<1>6. PICK d \in 0 .. Len(seq) :
        /\ KeepsFrom(windows[key], seq, d)
        /\ \A i \in 1 .. d : Past(seq[i] + WindowSecs)
  BY <1>1, <1>3, Zenon DEF KeyInv
<1>. HIDE DEF key, now, seq
<1>7. \A i \in 1 .. d : seq[i] + WindowSecs <= now
  <2>1. \A i \in 1 .. d : i \in DOMAIN seq
    BY <1>3
  <2>. QED  BY <1>2, <1>4, <1>6, <2>1, Zenon
<1>8. Ordered(seq)
  BY <1>3, Zenon DEF KeyInv, seq
<1>9. /\ entries \in Seq(Times)
      /\ \E e \in 0 .. Len(seq) :
           /\ KeepsFrom(entries, seq, e)
           /\ \A i \in 1 .. e : seq[i] + WindowSecs <= now
           /\ \A i \in (e + 1) .. Len(seq) : seq[i] + WindowSecs > now
  BY <1>2, <1>3, <1>6, <1>7, <1>8, EvictionExact, Zenon
<1>. QED  BY <1>3, <1>5, <1>9, Zenon DEF key, now, seq

\* A key's part of the invariant, from what is kept of it after a step.
LEMMA KeyInvAfter ==
  ASSUME NEW key \in Keys, NEW seq \in Seq(Times), NEW kept, NEW e \in 0 .. Len(seq),
         admitted'[key] = seq, key \in DOMAIN windows', windows'[key] = kept,
         Ordered(seq), Spaced(seq), KeepsFrom(kept, seq, e),
         \A i \in DOMAIN seq : Past(seq[i])',
         \A i \in 1 .. e : Past(seq[i] + WindowSecs)'
  PROVE  KeyInv(key)'
<1>1. (\E d \in 0 .. Len(admitted[key]) :
         /\ KeepsFrom(windows[key], admitted[key], d)
         /\ \A i \in 1 .. d : Past(admitted[key][i] + WindowSecs))'
  BY Zenon
<1>. QED  BY <1>1, Zenon DEF KeyInv

\* A tracked key's request keeps the history, whether it is admitted or not.
LEMMA KnownHistory ==
  ASSUME OneThread, HistoryInv, NEW t \in Threads, AdmitKnown(t)
  PROVE  HistoryInv'
<1>0. PICK key, now, seq, entries, admit :
       /\ key = sampled[t].key /\ now = sampled[t].now /\ seq = admitted[key]
       /\ entries = Current(windows[key], now)
       /\ admit = (Len(entries) < MaxRequests)
  BY Zenon
<1>1. /\ key \in DOMAIN windows /\ sampled[t] # None /\ Decide(t, admit)
      /\ windows' = [windows EXCEPT ![key] =
                       IF admit THEN Append(entries, now) ELSE entries]
      /\ admitted' = IF admit THEN [admitted EXCEPT ![key] = Append(@, now)]
                              ELSE admitted
  BY <1>0, Zenon DEF AdmitKnown, Decide
<1>2. /\ key \in Keys /\ now \in Times
      /\ \A x \in Nat : x <= now => Past(x)'
      /\ \A u \in Threads : sampled'[u] = None
  BY <1>0, <1>1, DecideOne, Zenon
<1>3. /\ seq \in Seq(Times) /\ entries \in Seq(Times)
      /\ \A i \in DOMAIN seq : seq[i] <= now
  BY <1>0, KnownDecision, Zenon
<1>4. PICK e \in 0 .. Len(seq) :
        /\ KeepsFrom(entries, seq, e)
        /\ \A i \in 1 .. e : seq[i] + WindowSecs <= now
  BY <1>0, KnownDecision, Zenon
<1>5. Ordered(seq) /\ Spaced(seq)
  BY <1>0, <1>2, Zenon DEF HistoryInv, KeyInv
<1>6. IInv' /\ admitted \in [Keys -> Seq(Times)]
  BY KnownInv, Zenon DEF HistoryInv
<1>7. DOMAIN windows' = DOMAIN windows /\ admitted' \in [Keys -> Seq(Times)]
  <2>1. Append(seq, now) \in Seq(Times)
    BY <1>2, <1>3
  <2>. QED  BY <1>0, <1>1, <1>6, <2>1, Zenon
<1>8. \A k \in Keys \ {key} : KeyInv(k)'
  <2>. TAKE k \in Keys \ {key}
  <2>1. k \in DOMAIN windows => windows'[k] = windows[k]
    BY <1>1, Zenon
  <2>. QED  BY <1>0, <1>1, <1>7, <2>1, OtherKey, Zenon
<1>9. /\ now \in Nat /\ DOMAIN seq = 1 .. Len(seq) /\ Len(seq) \in Nat
      /\ \A i \in DOMAIN seq : seq[i] \in Nat /\ seq[i] + WindowSecs \in Nat
  BY <1>2, <1>3, RateLimitAssumption DEF Times
<1>10. /\ \A i \in DOMAIN seq : Past(seq[i])'
       /\ \A i \in 1 .. e : Past(seq[i] + WindowSecs)'
  <2>1. \A i \in DOMAIN seq : Past(seq[i])'
    BY <1>2, <1>3, <1>9, Zenon
  <2>2. \A i \in 1 .. e : i \in DOMAIN seq
    BY <1>9
  <2>3. \A i \in 1 .. e : Past(seq[i] + WindowSecs)'
    BY <1>2, <1>4, <1>9, <2>2, Zenon
  <2>. QED  BY <2>1, <2>3, Zenon
<1>11. CASE ~admit
  <2>1. admitted'[key] = seq /\ windows'[key] = entries /\ key \in DOMAIN windows'
    BY <1>0, <1>1, <1>7, <1>11, Zenon
  <2>2. KeyInv(key)'
    BY <1>2, <1>3, <1>4, <1>5, <1>10, <2>1, KeyInvAfter, Zenon
  <2>. QED  BY <1>2, <1>6, <1>7, <1>8, <2>2, Zenon DEF HistoryInv
<1>12. CASE admit
  <2>. DEFINE new == Append(seq, now)
              kept == Append(entries, now)
              n == Len(seq)
  <2>1. admitted'[key] = new /\ windows'[key] = kept /\ key \in DOMAIN windows'
    BY <1>0, <1>1, <1>2, <1>6, <1>7, <1>12, Zenon
  <2>2. /\ new \in Seq(Times) /\ Len(new) = n + 1 /\ DOMAIN new = 1 .. n + 1
        /\ new[n + 1] = now /\ \A i \in 1 .. n : new[i] = seq[i]
    BY <1>2, <1>3
  <2>3. /\ Len(entries) = n - e
        /\ \A i \in 1 .. n - e : entries[i] = seq[e + i]
    BY <1>4, Zenon DEF KeepsFrom
  <2>4. /\ Len(kept) = n - e + 1 /\ kept[n - e + 1] = now
        /\ \A i \in 1 .. n - e : kept[i] = entries[i]
    BY <1>2, <1>3, <2>3
  <2>5. Ordered(new) /\ Spaced(new)
    <3>1. Len(seq) - e < MaxRequests
      BY <1>0, <1>12, <2>3, Zenon
    <3>. QED  BY <1>2, <1>3, <1>4, <1>5, <3>1, AppendHistory, Zenon
  <2>. HIDE DEF new, kept
  <2>6. e \in 0 .. n + 1 /\ n \in Nat /\ e \in 0 .. n
    BY <1>9
  <2>7. KeepsFrom(kept, new, e)
    <3>1. Len(kept) = Len(new) - e /\ Len(new) - e = n - e + 1
      BY <2>2, <2>4, <2>6
    <3>2. ASSUME NEW i \in 1 .. n - e + 1 PROVE kept[i] = new[e + i]
      <4>1. CASE i \in 1 .. n - e
        <5>1. e + i \in 1 .. n
          BY <2>6, <4>1
        <5>. QED  BY <2>2, <2>3, <2>4, <4>1, <5>1, Zenon
      <4>2. CASE i = n - e + 1
        <5>1. e + i = n + 1
          BY <2>6, <4>2
        <5>. QED  BY <2>2, <2>4, <4>2, <5>1, Zenon
      <4>. QED  BY <2>6, <4>1, <4>2
    <3>. QED  BY <3>1, <3>2, Zenon DEF KeepsFrom
  <2>8. \A i \in 1 .. n + 1 : Past(new[i])'
    <3>1. Past(now)'
      BY <1>2, <1>9
    <3>2. \A i \in 1 .. n : Past(new[i])'
      BY <1>9, <1>10, <2>2, Zenon
    <3>3. \A i \in 1 .. n + 1 : i \in 1 .. n \/ i = n + 1
      BY <2>6
    <3>. QED  BY <2>2, <3>1, <3>2, <3>3, Zenon
  <2>9. \A i \in 1 .. e : Past(new[i] + WindowSecs)'
    <3>1. \A i \in 1 .. e : i \in 1 .. n
      BY <2>6
    <3>. QED  BY <1>10, <2>2, <3>1, Zenon
  <2>10. KeyInv(key)'
    <3>. HIDE DEF n
    <3>. QED  BY <1>2, <2>1, <2>2, <2>5, <2>6, <2>7, <2>8, <2>9, KeyInvAfter, Zenon
  <2>. QED  BY <1>2, <1>6, <1>7, <1>8, <2>10, Zenon DEF HistoryInv
<1>. QED  BY <1>0, <1>11, <1>12, Zenon

\* A key that gets a place starts its history with one request.
LEMMA NewHistory ==
  ASSUME OneThread, HistoryInv, NEW t \in Threads, AdmitNew(t)
  PROVE  HistoryInv'
<1>0. PICK key, now, room :
       /\ key = sampled[t].key /\ now = sampled[t].now
       /\ room = (Cardinality(DOMAIN windows) < MaxTrackedKeys)
  BY Zenon
<1>1. /\ key \notin DOMAIN windows /\ sampled[t] # None /\ Decide(t, room)
      /\ windows' = IF room
                    THEN [k \in DOMAIN windows \cup {key} |->
                            IF k = key THEN <<now>> ELSE windows[k]]
                    ELSE windows
      /\ admitted' = IF room THEN [admitted EXCEPT ![key] = Append(@, now)]
                             ELSE admitted
  BY <1>0, Zenon DEF AdmitNew, Decide
<1>2. /\ key \in Keys /\ now \in Times
      /\ \A x \in Nat : x <= now => Past(x)'
      /\ \A u \in Threads : sampled'[u] = None
  BY <1>0, <1>1, DecideOne, Zenon
<1>3. IInv' /\ admitted \in [Keys -> Seq(Times)] /\ admitted[key] = <<>>
  BY <1>1, <1>2, NewInv, Zenon DEF HistoryInv, KeyInv
<1>4. \A k \in Keys \ {key} : KeyInv(k)'
  <2>. TAKE k \in Keys \ {key}
  <2>1. /\ k \in DOMAIN windows' <=> k \in DOMAIN windows
        /\ k \in DOMAIN windows => windows'[k] = windows[k]
    BY <1>1, Zenon
  <2>. QED  BY <1>0, <1>1, <2>1, OtherKey, Zenon
<1>5. admitted' \in [Keys -> Seq(Times)] /\ KeyInv(key)'
  <2>1. CASE ~room
    <3>1. admitted' = admitted /\ windows' = windows
      BY <1>1, <2>1, Zenon
    <3>2. DOMAIN admitted'[key] = {}
      BY <1>3, <3>1
    <3>. QED  BY <1>1, <1>3, <3>1, <3>2, Zenon DEF KeyInv, Ordered, Spaced
  <2>2. CASE room
    <3>. DEFINE one == <<now>>
    <3>1. Append(<<>>, now) = one /\ one \in Seq(Times)
      BY <1>2
    <3>2. Len(one) = 1 /\ DOMAIN one = {1} /\ one[1] = now /\ now \in Nat
      BY <1>2, RateLimitAssumption DEF Times
    <3>3. admitted'[key] = one /\ windows'[key] = one /\ key \in DOMAIN windows'
      BY <1>1, <1>2, <1>3, <2>2, <3>1, Zenon
    <3>4. Append(admitted[key], now) = one
      BY <1>3, <3>1, Zenon
    <3>. HIDE DEF one
    <3>5. admitted' \in [Keys -> Seq(Times)]
      BY <1>1, <1>3, <2>2, <3>1, <3>4, Zenon
    <3>6. 1 + MaxRequests # 1
      BY RateLimitAssumption
    <3>7. Ordered(one) /\ Spaced(one)
      BY <3>2, <3>6 DEF Ordered, Spaced
    <3>8. KeepsFrom(one, one, 0) /\ 0 \in 0 .. Len(one)
      BY <3>2 DEF KeepsFrom
    <3>9. \A i \in DOMAIN one : Past(one[i])'
      BY <1>2, <3>2
    <3>10. \A i \in 1 .. 0 : Past(one[i] + WindowSecs)'
      OBVIOUS
    <3>11. KeyInv(key)'
      BY <1>2, <3>1, <3>3, <3>7, <3>8, <3>9, <3>10, KeyInvAfter, Zenon
    <3>. QED  BY <3>5, <3>11, Zenon
  <2>. QED  BY <1>0, <2>1, <2>2, Zenon
<1>. QED  BY <1>2, <1>3, <1>4, <1>5, Zenon DEF HistoryInv

\* With times in order every step keeps the history.
LEMMA StepHistory == SamplesInOrder /\ HistoryInv /\ [Next]_vars => HistoryInv'
<1>. SUFFICES ASSUME OneThread, ClockMayStepBack = FALSE, HistoryInv, [Next]_vars
              PROVE  HistoryInv'
  BY Zenon DEF SamplesInOrder
<1>1. IInv /\ IInv'
  BY StepInv, Zenon DEF HistoryInv
<1>2. /\ sampled \in [Threads -> Sampled \cup {None}] /\ clock \in Nat
      /\ \A t \in Threads : sampled[t] # None => sampled[t].now \in Nat
  BY <1>1, RateLimitAssumption DEF IInv, RateTypeOK, Sampled, Times
<1>3. ASSUME NEW t \in Threads, NEW key \in Keys, Sample(t, key)
      PROVE  HistoryInv'
  <2>1. /\ UNCHANGED <<windows, admitted, clock>>
        /\ \A u \in Threads :
             sampled'[u] = IF u = t THEN [key |-> key, now |-> clock] ELSE sampled[u]
    BY <1>2, <1>3, Zenon DEF Sample
  <2>2. \A x \in Nat : Past(x) => Past(x)'
    BY <2>1 DEF Past
  <2>3. \A u \in Threads : sampled'[u] # None => sampled'[u].now <= clock'
    BY <1>2, <2>1 DEF HistoryInv
  <2>. QED  BY <1>1, <2>1, <2>2, <2>3, HistoryKept, Zenon
<1>4. ASSUME Tick
      PROVE  HistoryInv'
  <2>1. UNCHANGED <<windows, admitted, sampled>> /\ clock' = clock + 1
    BY <1>4, Zenon DEF Tick
  <2>2. \A x \in Nat : x <= clock => x <= clock'
    BY <1>2, <2>1
  <2>3. \A x \in Nat : Past(x) => Past(x)'
    BY <2>1, <2>2, Zenon DEF Past
  <2>4. \A u \in Threads : sampled'[u] # None => sampled'[u].now <= clock'
    BY <1>2, <2>1, <2>2, Zenon DEF HistoryInv
  <2>. QED  BY <1>1, <2>1, <2>3, <2>4, HistoryKept, Zenon
<1>5. ASSUME UNCHANGED vars
      PROVE  HistoryInv'
  <2>1. UNCHANGED <<windows, admitted, sampled, clock>>
    BY <1>5, Zenon DEF vars
  <2>2. \A x \in Nat : Past(x) => Past(x)'
    BY <2>1, Zenon DEF Past
  <2>3. \A u \in Threads : sampled'[u] # None => sampled'[u].now <= clock'
    BY <2>1, Zenon DEF HistoryInv
  <2>. QED  BY <1>1, <2>1, <2>2, <2>3, HistoryKept, Zenon
<1>. QED  BY <1>3, <1>4, <1>5, KnownHistory, NewHistory, Zenon DEF Next

\* The number of places in an interval.
LEMMA IntervalSize ==
  ASSUME NEW b \in Nat, NEW c \in Nat, b <= c
  PROVE  Cardinality((b + 1) .. c) = c - b
<1>1. b + 1 \in Int /\ c \in Int /\ (IF b + 1 > c THEN 0 ELSE c - (b + 1) + 1) = c - b
  OBVIOUS
<1>. QED  BY <1>1, FS_Interval, Zenon

\* The times of an ordered history below a limit are its first ones.
LEMMA BelowIsPrefix ==
  ASSUME NEW seq \in Seq(Times), Ordered(seq), NEW limit \in Nat
  PROVE  \E b \in 0 .. Len(seq) : {i \in DOMAIN seq : seq[i] < limit} = 1 .. b
<1>. DEFINE S == {i \in DOMAIN seq : seq[i] < limit}
<1>1. Len(seq) \in Nat /\ DOMAIN seq = 1 .. Len(seq)
  OBVIOUS
<1>2. \A i \in DOMAIN seq : seq[i] \in Nat
  BY <1>1, RateLimitAssumption DEF Times
<1>3. ASSUME NEW i \in S, NEW j \in 1 .. i PROVE j \in S
  <2>1. i \in DOMAIN seq /\ j \in DOMAIN seq /\ j <= i
    BY <1>1
  <2>2. seq[j] <= seq[i] /\ seq[i] < limit
    BY <2>1, Zenon DEF Ordered
  <2>. QED  BY <1>2, <2>1, <2>2
<1>4. S \in SUBSET (1 .. Len(seq)) /\ \A i \in S : 1 .. i \subseteq S
  BY <1>1, <1>3, Zenon
<1>. HIDE DEF S
<1>5. Cardinality(S) \in 0 .. Len(seq) /\ S = 1 .. Cardinality(S)
  BY <1>1, <1>4, PrefixIsInterval, Zenon
<1>. QED  BY <1>5, Zenon DEF S

\* A spaced history has at most MaxRequests times in any window.
LEMMA SpacedIsBounded ==
  ASSUME NEW seq \in Seq(Times), Ordered(seq), Spaced(seq), NEW start \in Times
  PROVE  Cardinality({i \in DOMAIN seq :
                        start <= seq[i] /\ seq[i] < start + WindowSecs})
           <= MaxRequests
<1>. DEFINE S == {i \in DOMAIN seq : start <= seq[i] /\ seq[i] < start + WindowSecs}
<1>1. /\ start \in Nat /\ start + WindowSecs \in Nat /\ WindowSecs \in Nat
      /\ MaxRequests \in Nat /\ start <= start + WindowSecs
  BY RateLimitAssumption DEF Times
<1>2. /\ DOMAIN seq = 1 .. Len(seq) /\ Len(seq) \in Nat
      /\ \A i \in DOMAIN seq : seq[i] \in Nat
  BY RateLimitAssumption DEF Times
<1>3. PICK b \in 0 .. Len(seq) : {i \in DOMAIN seq : seq[i] < start} = 1 .. b
  BY <1>1, BelowIsPrefix, Zenon
<1>4. PICK c \in 0 .. Len(seq) :
        {i \in DOMAIN seq : seq[i] < start + WindowSecs} = 1 .. c
  BY <1>1, BelowIsPrefix, Zenon
<1>5. b \in Nat /\ c \in Nat /\ b <= Len(seq) /\ c <= Len(seq)
  BY <1>2
<1>6. \A i \in DOMAIN seq : /\ seq[i] < start <=> i <= b
                            /\ seq[i] < start + WindowSecs <=> i <= c
  <2>. TAKE i \in DOMAIN seq
  <2>1. i \in 1 .. b <=> i <= b
    BY <1>2, <1>5
  <2>2. i \in 1 .. c <=> i <= c
    BY <1>2, <1>5
  <2>. QED  BY <1>3, <1>4, <2>1, <2>2, Zenon
<1>7. S = (b + 1) .. c
  <2>1. \A i \in DOMAIN seq : start <= seq[i] <=> ~(seq[i] < start)
    BY <1>1, <1>2
  <2>2. \A i \in DOMAIN seq : i \in S <=> ~(i <= b) /\ i <= c
    BY <1>6, <2>1, Zenon
  <2>. HIDE DEF S
  <2>3. S \subseteq DOMAIN seq
    BY Zenon DEF S
  <2>4. \A i \in (b + 1) .. c : i \in DOMAIN seq /\ ~(i <= b) /\ i <= c
    BY <1>2, <1>5
  <2>5. \A i \in DOMAIN seq : ~(i <= b) /\ i <= c => i \in (b + 1) .. c
    BY <1>2, <1>5
  <2>. QED  BY <2>2, <2>3, <2>4, <2>5, Zenon
<1>. HIDE DEF S
<1>8. CASE c <= b
  <2>1. S = {}
    BY <1>5, <1>7, <1>8
  <2>2. Cardinality(S) = 0
    BY <2>1, FS_EmptySet, Zenon
  <2>3. 0 <= MaxRequests
    BY <1>1
  <2>. QED  BY <2>2, <2>3, Zenon DEF S
<1>9. CASE b < c
  <2>1. Cardinality(S) = c - b
    BY <1>5, <1>7, <1>9, IntervalSize
  <2>2. ASSUME c - b > MaxRequests PROVE FALSE
    <3>. DEFINE i == b + 1
                j == b + 1 + MaxRequests
    <3>1. i \in DOMAIN seq /\ j \in DOMAIN seq /\ ~(i <= b) /\ j <= c
      BY <1>1, <1>2, <1>5, <2>2
    <3>2. seq[j] >= seq[i] + WindowSecs
      BY <3>1, Zenon DEF Spaced
    <3>. HIDE DEF i, j
    <3>3. ~(seq[i] < start) /\ seq[j] < start + WindowSecs
      BY <1>6, <3>1, Zenon
    <3>4. \A x, y, w, m \in Nat : ~(y >= x + w /\ ~(x < m) /\ y < m + w)
      OBVIOUS
    <3>5. seq[i] \in Nat /\ seq[j] \in Nat
      BY <1>2, <3>1, Zenon
    <3>. QED  BY <1>1, <3>2, <3>3, <3>4, <3>5, Zenon
  <2>3. c - b <= MaxRequests
    BY <1>1, <1>5, <2>2
  <2>. QED  BY <2>1, <2>3, Zenon DEF S
<1>. QED  BY <1>5, <1>8, <1>9

\* CW-SECURITY-002: when times come in order, no rolling window of any length
\* holds more than MaxRequests admitted requests of one key.  The deque need
\* only keep a suffix of the history because what it forgot is a window older
\* than any request still to come.
THEOREM RateIsBounded == SamplesInOrder => (Spec => []RateBounded)
<1>1. HistoryInv => RateBounded
  <2>. SUFFICES ASSUME HistoryInv, NEW key \in Keys, NEW start \in Times
                PROVE  Cardinality(AdmittedWithin(key, start)) <= MaxRequests
    BY Zenon DEF RateBounded
  <2>1. admitted[key] \in Seq(Times) /\ Ordered(admitted[key]) /\ Spaced(admitted[key])
    BY Zenon DEF HistoryInv, KeyInv
  <2>. QED  BY <2>1, SpacedIsBounded, Zenon DEF AdmittedWithin
<1>. SUFFICES ASSUME SamplesInOrder PROVE Spec => []RateBounded
  BY Zenon
<1>2. HistoryInv /\ [Next]_vars => HistoryInv'
  BY StepHistory, Zenon
<1>. QED  BY <1>1, <1>2, InitHistory, PTL DEF Spec

\* A thread's sample is used up by its own decision alone.
LEMMA DecidedBy ==
  ASSUME IInv, [Next]_vars, NEW t \in Threads,
         sampled[t] # None, sampled'[t] = None
  PROVE  AdmitKnown(t) \/ AdmitNew(t)
<1>1. sampled \in [Threads -> Sampled \cup {None}]
  BY Zenon DEF IInv, RateTypeOK
<1>2. ASSUME NEW u \in Threads, NEW key \in Keys, Sample(u, key) PROVE FALSE
  <2>1. u # t /\ sampled'[t] = sampled[t]
    BY <1>1, <1>2, Zenon DEF Sample
  <2>. QED  BY <2>1, Zenon
<1>3. ASSUME NEW u \in Threads, AdmitKnown(u) PROVE u = t
  BY <1>1, <1>3, Zenon DEF AdmitKnown, Decide
<1>4. ASSUME NEW u \in Threads, AdmitNew(u) PROVE u = t
  BY <1>1, <1>4, Zenon DEF AdmitNew, Decide
<1>5. ~Tick /\ ~(UNCHANGED vars)
  BY Zenon DEF Tick, vars
<1>. QED  BY <1>2, <1>3, <1>4, <1>5, Zenon DEF Next

\* When times come in order, a tracked key is turned away exactly when the
\* window that ends now holds MaxRequests of its requests: the while loop of
\* admit() forgets a request neither too early nor too late.
THEOREM BudgetIsExact == SamplesInOrder => (Spec => BudgetExact)
<1>. DEFINE Exact(t) ==
       sampled[t] # None /\ sampled'[t] = None =>
         LET key == sampled[t].key
             now == sampled[t].now
             recent == {i \in DOMAIN admitted[key] :
                          admitted[key][i] + WindowSecs > now}
         IN  key \in DOMAIN windows =>
               (admitted'[key] # admitted[key] <=> Cardinality(recent) < MaxRequests)
<1>1. ASSUME OneThread, HistoryInv, [Next]_vars, NEW t \in Threads
      PROVE  Exact(t)
  <2>0. PICK key, now, seq, entries :
          /\ key = sampled[t].key /\ now = sampled[t].now /\ seq = admitted[key]
          /\ entries = Current(windows[key], now)
    BY Zenon
  <2>. DEFINE recent == {i \in DOMAIN seq : seq[i] + WindowSecs > now}
  <2>. SUFFICES ASSUME sampled[t] # None, sampled'[t] = None, key \in DOMAIN windows
                PROVE  admitted'[key] # seq <=> Cardinality(recent) < MaxRequests
    BY <2>0, Zenon
  <2>1. AdmitKnown(t)
    BY <1>1, <2>0, DecidedBy, Zenon DEF HistoryInv, AdmitNew
  <2>2. /\ seq \in Seq(Times) /\ entries \in Seq(Times)
        /\ \E e \in 0 .. Len(seq) :
             /\ KeepsFrom(entries, seq, e)
             /\ \A i \in 1 .. e : seq[i] + WindowSecs <= now
             /\ \A i \in (e + 1) .. Len(seq) : seq[i] + WindowSecs > now
    BY <1>1, <2>0, <2>1, KnownDecision, Zenon
  <2>3. PICK e \in 0 .. Len(seq) :
          /\ KeepsFrom(entries, seq, e)
          /\ \A i \in 1 .. e : seq[i] + WindowSecs <= now
          /\ \A i \in (e + 1) .. Len(seq) : seq[i] + WindowSecs > now
    BY <2>2, Zenon
  <2>4. Decide(t, Len(entries) < MaxRequests) /\ key \in Keys /\ now \in Times
    BY <1>1, <2>0, <2>1, DecideOne, Zenon DEF AdmitKnown
  <2>5. /\ Len(seq) \in Nat /\ DOMAIN seq = 1 .. Len(seq) /\ now \in Nat
        /\ \A i \in DOMAIN seq : seq[i] + WindowSecs \in Nat
    BY <2>2, <2>4, RateLimitAssumption DEF Times
  <2>6. recent = (e + 1) .. Len(seq)
    <3>1. \A i \in DOMAIN seq : i \in 1 .. e \/ i \in (e + 1) .. Len(seq)
      BY <2>5
    <3>2. \A i \in 1 .. e : i \in DOMAIN seq /\ ~(seq[i] + WindowSecs > now)
      BY <2>3, <2>5
    <3>3. \A i \in (e + 1) .. Len(seq) : i \in DOMAIN seq /\ seq[i] + WindowSecs > now
      BY <2>3, <2>5
    <3>. QED  BY <3>1, <3>2, <3>3, Zenon
  <2>. HIDE DEF recent
  <2>7. Cardinality(recent) = Len(entries)
    <3>1. Cardinality((e + 1) .. Len(seq)) = Len(seq) - e
      BY <2>5, IntervalSize
    <3>2. Len(entries) = Len(seq) - e
      BY <2>3, Zenon DEF KeepsFrom
    <3>. QED  BY <2>6, <3>1, <3>2, Zenon
  <2>8. Append(seq, now) # seq
    <3>1. Len(Append(seq, now)) = Len(seq) + 1
      BY <2>2, <2>4
    <3>2. \A m \in Nat : m + 1 # m
      OBVIOUS
    <3>. QED  BY <2>5, <3>1, <3>2, Zenon
  <2>9. admitted'[key] = IF Len(entries) < MaxRequests THEN Append(seq, now) ELSE seq
    BY <1>1, <2>0, <2>4, Zenon DEF Decide, HistoryInv
  <2>. QED  BY <2>7, <2>8, <2>9, Zenon
<1>. SUFFICES ASSUME SamplesInOrder PROVE Spec => BudgetExact
  BY Zenon
<1>2. HistoryInv /\ [Next]_vars => HistoryInv'
  BY StepHistory, Zenon
<1>3. HistoryInv /\ [Next]_vars => [\A t \in Threads : Exact(t)]_vars
  BY <1>1, Zenon DEF SamplesInOrder
<1>. QED  BY <1>2, <1>3, InitHistory, PTL DEF Spec, BudgetExact

-----------------------------------------------------------------------------

\* The owners of the connection permit in each phase.
Owners(p) == CASE p = "closed" -> {}
               [] p \in {"handshake", "http"} -> {"service"}
               [] p = "upgrading" -> {"service", "session"}
               [] p = "session" -> {"session"}

ClonesMatch == \A c \in Conns : clones[c] = Owners(phase[c])

MutualExclusion ==
  /\ \A t, u \in Tasks : task[t] = "locked" /\ task[u] = "locked" => t = u
  /\ poisoned => \A t \in Tasks : task[t] # "locked"

PermitsInv == /\ PermitsTypeOK
        /\ ClonesMatch
        /\ ConnectionsCounted
        /\ CommandsCounted
        /\ MutualExclusion

-----------------------------------------------------------------------------

\* Counting with one element more.
LEMMA AddOne ==
  ASSUME NEW S, IsFiniteSet(S), NEW x, x \notin S
  PROVE  Cardinality(S \cup {x}) = Cardinality(S) + 1
  BY FS_AddElement, Zenon

\* Counting with one element less.
LEMMA DropOne ==
  ASSUME NEW S, IsFiniteSet(S), NEW x \in S
  PROVE  Cardinality(S \ {x}) = Cardinality(S) - 1
  BY FS_RemoveElement, Zenon

\* The sets that are counted are finite.
LEMMA FiniteCounts ==
  /\ IsFiniteSet(Open) /\ Cardinality(Open) \in Nat
  /\ IsFiniteSet(Sessions) /\ Cardinality(Sessions) \in Nat
  /\ IsFiniteSet(Commands) /\ Cardinality(Commands) \in Nat
<1>1. IsFiniteSet(Open) /\ IsFiniteSet(Sessions)
  <2>1. Open \subseteq Conns /\ Sessions \subseteq Conns
    BY Zenon DEF Open, Sessions
  <2>. QED  BY <2>1, FS_Subset, PermitsAssumption, Zenon
<1>2. IsFiniteSet(Commands)
  <2>1. Commands \subseteq Tasks
    BY Zenon DEF Commands
  <2>. QED  BY <2>1, FS_Subset, PermitsAssumption, Zenon
<1>. QED  BY <1>1, <1>2, FS_CardinalityType, Zenon

\* Initially every permit is in its semaphore.
LEMMA PermitsInvInit == PermitsInit => PermitsInv
<1>. SUFFICES ASSUME PermitsInit PROVE PermitsInv
  BY Zenon
<1>1. Open = {} /\ Sessions = {} /\ Commands = {}
  BY Zenon DEF PermitsInit, Open, Sessions, Commands, Running
<1>2. ConnectionsCounted /\ CommandsCounted
  BY <1>1, FS_EmptySet, PermitsAssumption DEF PermitsInit, ConnectionsCounted, CommandsCounted
<1>3. PermitsTypeOK
  BY PermitsAssumption, Zenon DEF PermitsInit, PermitsTypeOK, Phases, Running, Finished
<1>4. ClonesMatch
  BY Zenon DEF PermitsInit, ClonesMatch, Owners
<1>5. MutualExclusion
  BY Zenon DEF PermitsInit, MutualExclusion
<1>. QED  BY <1>2, <1>3, <1>4, <1>5, Zenon DEF PermitsInv

-----------------------------------------------------------------------------
(* How the counts follow a change of one phase or of one task.             *)

\* Opening and closing a connection.
LEMMA PhaseCounts ==
  ASSUME PermitsTypeOK, NEW c \in Conns, NEW p \in Phases,
         phase' = [phase EXCEPT ![c] = p]
  PROVE  /\ phase[c] = "closed" /\ p # "closed" =>
              Cardinality(Open') = Cardinality(Open) + 1
         /\ phase[c] # "closed" /\ p # "closed" => Open' = Open
         /\ phase[c] # "closed" /\ p = "closed" =>
              Cardinality(Open') = Cardinality(Open) - 1
         /\ c \notin Sessions /\ p \in {"upgrading", "session"} =>
              Cardinality(Sessions') = Cardinality(Sessions) + 1
         /\ c \in Sessions /\ p \in {"upgrading", "session"} =>
              Sessions' = Sessions
         /\ c \notin Sessions /\ p \notin {"upgrading", "session"} =>
              Sessions' = Sessions
         /\ c \in Sessions /\ p \notin {"upgrading", "session"} =>
              Cardinality(Sessions') = Cardinality(Sessions) - 1
<1>1. /\ phase[c] = "closed" => c \notin Open
      /\ phase[c] # "closed" => c \in Open
      /\ Open' = IF p = "closed" THEN Open \ {c} ELSE Open \cup {c}
      /\ Sessions' = IF p \in {"upgrading", "session"}
                     THEN Sessions \cup {c} ELSE Sessions \ {c}
  BY Zenon DEF PermitsTypeOK, Open, Sessions
<1>2. phase[c] # "closed" /\ p # "closed" => Open' = Open
  BY <1>1, Zenon
<1>3. /\ c \in Sessions => Sessions \cup {c} = Sessions
      /\ c \notin Sessions => Sessions \ {c} = Sessions
  BY Zenon
<1>. QED  BY <1>1, <1>2, <1>3, FiniteCounts, AddOne, DropOne, Zenon

\* Starting and finishing a task, and a task that takes the mutex.
LEMMA TaskCounts ==
  ASSUME PermitsTypeOK, NEW t \in Tasks, NEW s,
         task' = [task EXCEPT ![t] = s]
  PROVE  /\ task[t] \notin Running /\ s \in Running =>
              Cardinality(Commands') = Cardinality(Commands) + 1
         /\ (task[t] \in Running <=> s \in Running) => Commands' = Commands
         /\ task[t] \in Running /\ s \notin Running =>
              Cardinality(Commands') = Cardinality(Commands) - 1
<1>1. /\ task[t] \in Running <=> t \in Commands
      /\ Commands' = IF s \in Running THEN Commands \cup {t} ELSE Commands \ {t}
  BY Zenon DEF PermitsTypeOK, Commands
<1>2. (task[t] \in Running <=> s \in Running) => Commands' = Commands
  BY <1>1, Zenon
<1>. QED  BY <1>1, <1>2, FiniteCounts, AddOne, DropOne, Zenon

\* What a step leaves alone stays counted.
LEMMA Untouched ==
  ASSUME PermitsInv
  PROVE  /\ UNCHANGED connVars => ClonesMatch' /\ ConnectionsCounted'
         /\ UNCHANGED <<taskVars, poisoned>> => CommandsCounted' /\ MutualExclusion'
<1>1. UNCHANGED connVars => ClonesMatch'
  BY Zenon DEF PermitsInv, connVars, ClonesMatch
<1>2. ASSUME UNCHANGED connVars PROVE ConnectionsCounted'
  <2>1. Open' = Open /\ Sessions' = Sessions
    BY <1>2, Zenon DEF connVars, Open, Sessions
  <2>. QED  BY <1>2, <2>1, Zenon DEF PermitsInv, connVars, ConnectionsCounted
<1>3. ASSUME UNCHANGED <<taskVars, poisoned>> PROVE CommandsCounted'
  <2>1. Commands' = Commands
    BY <1>3, Zenon DEF taskVars, Commands
  <2>. QED  BY <1>3, <2>1, Zenon DEF PermitsInv, taskVars, CommandsCounted
<1>4. UNCHANGED <<taskVars, poisoned>> => MutualExclusion'
  BY DEF PermitsInv, taskVars, MutualExclusion
<1>. QED  BY <1>1, <1>2, <1>3, <1>4, Zenon

\* A new command takes a permit.
LEMMA SpawnInv ==
  ASSUME PermitsInv, NEW c \in Conns, NEW t \in Tasks,
         Spawn(c, t), UNCHANGED <<poisoned, connVars>>
  PROVE  PermitsInv'
<1>. USE DEF PermitsInv
<1>1. PermitsTypeOK'
  BY DEF Spawn, PermitsTypeOK, connVars, Running, Finished
<1>2. CommandsCounted'
  <2>1. "none" \notin Running /\ "queued" \in Running
    BY Zenon DEF Running
  <2>2. Cardinality(Commands') = Cardinality(Commands) + 1
    BY <2>1, TaskCounts, Zenon DEF Spawn
  <2>. QED  BY <2>2, FiniteCounts DEF Spawn, CommandsCounted, PermitsTypeOK
<1>3. MutualExclusion'
  BY Zenon DEF Spawn, MutualExclusion, PermitsTypeOK
<1>. QED  BY <1>1, <1>2, <1>3, Untouched, Zenon

\* A task that ends returns the permit it took, whoever waits for it.
LEMMA FinishInv ==
  ASSUME PermitsInv, NEW t \in Tasks, task[t] \in Running, NEW result \in Finished,
         Finish(t, result), poisoned' \in BOOLEAN,
         poisoned' # poisoned => task[t] = "locked"
  PROVE  PermitsInv'
<1>. USE DEF PermitsInv
<1>1. PermitsTypeOK'
  BY DEF Finish, PermitsTypeOK, connVars, Running, Finished
<1>2. CommandsCounted'
  <2>. DEFINE s == IF owner[t] = Nobody THEN "none" ELSE result
  <2>1. s \notin Running
    BY Zenon DEF Running, Finished
  <2>2. task' = [task EXCEPT ![t] = s]
    BY Zenon DEF Finish
  <2>3. Cardinality(Commands') = Cardinality(Commands) - 1
    BY <2>1, <2>2, TaskCounts, Zenon
  <2>. QED  BY <2>3, FiniteCounts DEF Finish, CommandsCounted, PermitsTypeOK
<1>3. MutualExclusion'
  <2>1. \A u \in Tasks : task'[u] = "locked" => u # t /\ task[u] = "locked"
    BY Zenon DEF Finish, PermitsTypeOK, Finished
  <2>. QED  BY <2>1, Zenon DEF MutualExclusion, PermitsTypeOK
<1>. QED  BY <1>1, <1>2, <1>3, Untouched, Zenon DEF Finish

\* Collecting a result, and dropping the request that waits for one, move no
\* permit.
LEMMA DetachInv ==
  ASSUME PermitsInv, NEW c \in Conns, Detach(c), UNCHANGED poisoned
  PROVE  /\ task' \in [Tasks -> {"none"} \cup Running \cup Finished]
         /\ owner' \in [Tasks -> Conns \cup {Nobody}]
         /\ CommandsCounted' /\ MutualExclusion'
<1>. USE DEF PermitsInv
<1>1. /\ task' \in [Tasks -> {"none"} \cup Running \cup Finished]
      /\ owner' \in [Tasks -> Conns \cup {Nobody}]
  BY Zenon DEF Detach, PermitsTypeOK
<1>2. Commands' = Commands
  BY Zenon DEF Detach, Commands, Running, Finished, PermitsTypeOK
<1>3. MutualExclusion'
  <2>1. \A u \in Tasks : task'[u] = "locked" => task[u] = "locked"
    BY Zenon DEF Detach, PermitsTypeOK
  <2>. QED  BY <2>1, Zenon DEF MutualExclusion
<1>. QED  BY <1>1, <1>2, <1>3, Zenon DEF CommandsCounted, Detach

\* A finished task that is collected has given its permit back before.
LEMMA CollectInv ==
  ASSUME PermitsInv, NEW t \in Tasks, task[t] \in Finished,
         Collect(t), UNCHANGED <<poisoned, connVars>>
  PROVE  PermitsInv'
<1>. USE DEF PermitsInv
<1>1. PermitsTypeOK'
  BY Zenon DEF Collect, PermitsTypeOK, connVars
<1>2. CommandsCounted'
  <2>1. "none" \notin Running /\ task[t] \notin Running
    BY Zenon DEF Running, Finished
  <2>2. Commands' = Commands
    BY <2>1, TaskCounts, Zenon DEF Collect
  <2>. QED  BY <2>2, Zenon DEF CommandsCounted, Collect
<1>3. MutualExclusion'
  <2>1. \A u \in Tasks : task'[u] = "locked" => task[u] = "locked"
    BY Zenon DEF Collect, PermitsTypeOK
  <2>. QED  BY <2>1, Zenon DEF MutualExclusion
<1>. QED  BY <1>1, <1>2, <1>3, Untouched, Zenon

-----------------------------------------------------------------------------
(* The connection side.                                                    *)

\* The phase changes and the clones follow it; the permits that come free are
\* the ones whose last owner went.
LEMMA CloseInv ==
  ASSUME PermitsInv, NEW c \in Conns, Close(c) \/ SessionEnd(c)
  PROVE  PermitsInv'
<1>. USE DEF PermitsInv
<1>0. /\ phase' = [phase EXCEPT ![c] = "closed"]
      /\ Detach(c) /\ UNCHANGED <<gone, poisoned>>
      /\ phase[c] # "closed"
  BY Zenon DEF Close, SessionEnd, To
<1>1. clones' = [clones EXCEPT ![c] = {}] /\ connections' = connections + 1
  <2>1. clones[c] = Owners(phase[c])
    BY Zenon DEF ClonesMatch
  <2>2. CASE Close(c)
    BY <2>1, <2>2, Zenon DEF Close, Drop, Owners
  <2>3. CASE SessionEnd(c)
    BY <2>1, <2>3, Zenon DEF SessionEnd, Drop, Owners
  <2>. QED  BY <2>2, <2>3, Zenon
<1>2. sessions' = IF c \in Sessions THEN sessions + 1 ELSE sessions
  BY Zenon DEF Close, SessionEnd, Sessions
<1>3. ConnectionsCounted'
  <2>1. "closed" \in Phases
    BY Zenon DEF Phases
  <2>2. /\ Cardinality(Open') = Cardinality(Open) - 1
        /\ c \in Sessions => Cardinality(Sessions') = Cardinality(Sessions) - 1
        /\ c \notin Sessions => Sessions' = Sessions
    BY <1>0, <2>1, PhaseCounts, Zenon
  <2>. QED  BY <1>1, <1>2, <2>2, FiniteCounts DEF ConnectionsCounted, PermitsTypeOK
<1>4. ClonesMatch'
  BY <1>0, <1>1, Zenon DEF ClonesMatch, Owners, PermitsTypeOK
<1>5. PermitsTypeOK'
  BY <1>0, <1>1, <1>2, DetachInv DEF PermitsTypeOK, Phases, Detach
<1>. QED  BY <1>0, <1>3, <1>4, <1>5, DetachInv, Zenon

\* Accepting a connection takes a permit for it and opens it.
LEMMA AcceptInv ==
  ASSUME PermitsInv, NEW c \in Conns, Accept(c)
  PROVE  PermitsInv'
<1>. USE DEF PermitsInv
<1>1. PermitsTypeOK'
  BY DEF Accept, To, PermitsTypeOK, Phases, taskVars
<1>2. ClonesMatch'
  BY Zenon DEF Accept, To, ClonesMatch, Owners, PermitsTypeOK
<1>3. ConnectionsCounted'
  <2>1. c \notin Sessions /\ "handshake" \in Phases
    BY Zenon DEF Accept, Sessions, Phases
  <2>2. Cardinality(Open') = Cardinality(Open) + 1 /\ Sessions' = Sessions
    BY <2>1, PhaseCounts, Zenon DEF Accept, To
  <2>. QED  BY <2>2, FiniteCounts DEF Accept, ConnectionsCounted, PermitsTypeOK
<1>. QED  BY <1>1, <1>2, <1>3, Untouched, Zenon DEF Accept

\* The handshake moves no permit.
LEMMA HandshakenInv ==
  ASSUME PermitsInv, NEW c \in Conns, Handshaken(c)
  PROVE  PermitsInv'
<1>. USE DEF PermitsInv
<1>1. PermitsTypeOK'
  BY Zenon DEF Handshaken, To, PermitsTypeOK, Phases, taskVars
<1>2. ClonesMatch'
  BY Zenon DEF Handshaken, To, ClonesMatch, Owners, PermitsTypeOK
<1>3. ConnectionsCounted'
  <2>1. c \notin Sessions /\ "http" \in Phases
    BY Zenon DEF Handshaken, Sessions, Phases
  <2>2. Open' = Open /\ Sessions' = Sessions
    BY <2>1, PhaseCounts, Zenon DEF Handshaken, To
  <2>. QED  BY <2>2, Zenon DEF Handshaken, ConnectionsCounted
<1>. QED  BY <1>1, <1>2, <1>3, Untouched, Zenon DEF Handshaken

\* An upgrade takes a session permit and clones the permit of the connection.
LEMMA UpgradeInv ==
  ASSUME PermitsInv, NEW c \in Conns, Upgrade(c)
  PROVE  PermitsInv'
<1>. USE DEF PermitsInv
<1>1. PermitsTypeOK'
  BY DEF Upgrade, To, PermitsTypeOK, Phases, taskVars
<1>2. ClonesMatch'
  BY Zenon DEF Upgrade, To, ClonesMatch, Owners, PermitsTypeOK
<1>3. ConnectionsCounted'
  <2>1. c \notin Sessions /\ "upgrading" \in Phases
    BY Zenon DEF Upgrade, Sessions, Phases
  <2>2. Open' = Open /\ Cardinality(Sessions') = Cardinality(Sessions) + 1
    BY <2>1, PhaseCounts, Zenon DEF Upgrade, To
  <2>. QED  BY <2>2, FiniteCounts DEF Upgrade, ConnectionsCounted, PermitsTypeOK
<1>. QED  BY <1>1, <1>2, <1>3, Untouched, Zenon DEF Upgrade

\* When the service lets go of an upgraded connection, the session keeps its permit.
LEMMA UpgradedInv ==
  ASSUME PermitsInv, NEW c \in Conns, Upgraded(c)
  PROVE  PermitsInv'
<1>. USE DEF PermitsInv
<1>1. clones' = [clones EXCEPT ![c] = {"session"}] /\ UNCHANGED connections
  <2>1. clones[c] = {"service", "session"}
    BY Zenon DEF Upgraded, ClonesMatch, Owners
  <2>2. /\ {"service", "session"} \ {"service"} = {"session"}
        /\ ~({"service", "session"} \subseteq {"service"})
    BY Zenon
  <2>. QED  BY <2>1, <2>2, Zenon DEF Upgraded, Drop
<1>2. PermitsTypeOK'
  BY <1>1, Zenon DEF Upgraded, To, PermitsTypeOK, Phases, taskVars
<1>3. ClonesMatch'
  BY <1>1, Zenon DEF Upgraded, To, ClonesMatch, Owners, PermitsTypeOK
<1>4. ConnectionsCounted'
  <2>1. c \in Sessions /\ "session" \in Phases
    BY Zenon DEF Upgraded, Sessions, Phases
  <2>2. Open' = Open /\ Sessions' = Sessions
    BY <2>1, PhaseCounts, Zenon DEF Upgraded, To
  <2>. QED  BY <1>1, <2>2, Zenon DEF Upgraded, ConnectionsCounted
<1>. QED  BY <1>2, <1>3, <1>4, Untouched, Zenon DEF Upgraded

-----------------------------------------------------------------------------

\* Every step of the daemon keeps the invariant.
LEMMA PermitsInvStep == PermitsInv /\ [PermitsNext]_permitVars => PermitsInv'
<1>. SUFFICES ASSUME PermitsInv, [PermitsNext]_permitVars PROVE PermitsInv'
  BY Zenon
<1>1. ASSUME NEW c \in Conns, NEW t \in Tasks, Post(c, t) \/ SessionFrame(c, t)
      PROVE  PermitsInv'
  BY <1>1, SpawnInv, Zenon DEF Post, SessionFrame
<1>2. ASSUME NEW t \in Tasks, Respond(t) \/ SessionReply(t)
      PROVE  PermitsInv'
  BY <1>2, CollectInv, Zenon DEF Respond, SessionReply, Finished
<1>3. ASSUME NEW t \in Tasks, Reject(t) \/ LockPoisoned(t) \/ Unlock(t) \/ Panic(t)
      PROVE  PermitsInv'
  <2>1. PICK result \in Finished : Finish(t, result)
    BY <1>3, Zenon DEF Reject, LockPoisoned, Unlock, Panic, Finished
  <2>2. /\ task[t] \in Running /\ poisoned' \in BOOLEAN
        /\ poisoned' # poisoned => task[t] = "locked"
    BY <1>3, Zenon DEF Reject, LockPoisoned, Unlock, Panic, Running, PermitsInv, PermitsTypeOK
  <2>. QED  BY <2>1, <2>2, FinishInv, Zenon
<1>4. ASSUME NEW t \in Tasks, RequestTimeout(t)
      PROVE  PermitsInv'
  <2>1. PermitsTypeOK'
    BY <1>4, Zenon DEF RequestTimeout, PermitsInv, PermitsTypeOK, connVars
  <2>2. CommandsCounted' /\ MutualExclusion'
    BY <1>4, Zenon DEF RequestTimeout, PermitsInv, CommandsCounted, Commands, MutualExclusion
  <2>. QED  BY <1>4, <2>1, <2>2, Untouched, Zenon DEF RequestTimeout, PermitsInv
<1>5. ASSUME NEW t \in Tasks, Lock(t)
      PROVE  PermitsInv'
  <2>1. PermitsTypeOK'
    BY <1>5, Zenon DEF Lock, PermitsInv, PermitsTypeOK, connVars, Running
  <2>2. CommandsCounted'
    <3>1. task[t] \in Running /\ "locked" \in Running
      BY <1>5, Zenon DEF Lock, Running
    <3>2. Commands' = Commands
      BY <1>5, <3>1, TaskCounts, Zenon DEF Lock, PermitsInv
    <3>. QED  BY <1>5, <3>2, Zenon DEF Lock, PermitsInv, CommandsCounted
  <2>3. MutualExclusion'
    BY <1>5, Zenon DEF Lock, MutexFree, PermitsInv, MutualExclusion, PermitsTypeOK
  <2>. QED  BY <1>5, <2>1, <2>2, <2>3, Untouched, Zenon DEF Lock, PermitsInv
<1>6. ASSUME NEW c \in Conns, Vanish(c)
      PROVE  PermitsInv'
  <2>1. PermitsTypeOK'
    BY <1>6, Zenon DEF Vanish, PermitsInv, PermitsTypeOK, taskVars
  <2>2. ClonesMatch' /\ ConnectionsCounted'
    BY <1>6, Zenon DEF Vanish, PermitsInv, ClonesMatch, ConnectionsCounted, Open, Sessions
  <2>. QED  BY <1>6, <2>1, <2>2, Untouched, Zenon DEF Vanish, PermitsInv
<1>7. CASE UNCHANGED permitVars
  BY <1>7, Untouched, Zenon DEF permitVars, connVars, taskVars, PermitsInv, PermitsTypeOK
<1>. QED
  BY <1>1, <1>2, <1>3, <1>4, <1>5, <1>6, <1>7,
     AcceptInv, HandshakenInv, CloseInv, UpgradeInv, UpgradedInv, Zenon DEF PermitsNext

\* The invariant holds of every behaviour.
LEMMA Invariance == PermitsSpec => []PermitsInv
<1>. QED  BY PermitsInvInit, PermitsInvStep, PTL DEF PermitsSpec

\* ConnectionLimit::accept and upgrade_websocket never exceed their limits and
\* never lose a permit: the semaphores and the open connections add up.
THEOREM ConnectionsSafe == PermitsSpec => []ConnectionsCounted
<1>1. PermitsInv => ConnectionsCounted
  BY Zenon DEF PermitsInv
<1>. QED  BY Invariance, <1>1, PTL

\* exchange() and exchange_blob() never run more than MaxCommands blocking tasks,
\* whatever happens to the requests that wait for them.
THEOREM CommandsSafe == PermitsSpec => []CommandsCounted
<1>1. PermitsInv => CommandsCounted
  BY Zenon DEF PermitsInv
<1>. QED  BY Invariance, <1>1, PTL

\* lock() fails for good after a panic: the database is never used again.
THEOREM PoisonSafe == PermitsSpec => PoisonIsFinal
<1>1. ASSUME PermitsInv, [PermitsNext]_permitVars
      PROVE  [poisoned => poisoned' /\ \A t \in Tasks : task'[t] # "locked"]_permitVars
  <2>1. PermitsInv'
    BY <1>1, PermitsInvStep, Zenon
  <2>2. poisoned /\ ~UNCHANGED permitVars => poisoned'
    BY <1>1, Zenon DEF PermitsNext, Accept, Handshaken, Close, Vanish, Post, Respond,
       RequestTimeout, Upgrade, Upgraded, SessionFrame, SessionReply, SessionEnd,
       Reject, Lock, LockPoisoned, Unlock, Panic
  <2>. QED  BY <2>1, <2>2, Zenon DEF PermitsInv, MutualExclusion
<1>. QED  BY Invariance, <1>1, PTL DEF PermitsSpec, PoisonIsFinal
=============================================================================
