------------------------------ MODULE RateLimit ------------------------------
(***************************************************************************)
(* The daemon's per-credential rate limiter:                               *)
(* apps/cofferwired/src/rate_limit.rs, driven as RelayService::exchange    *)
(* drives it.  A blocking thread samples relay_time() and calls admit()    *)
(* later, so the times admit() sees need not be in order.                  *)
(***************************************************************************)
EXTENDS Naturals, Sequences, FiniteSets

CONSTANTS
  Keys,             \* principals or capabilities
  Threads,          \* blocking threads
  WindowSecs, MaxRequests, MaxTrackedKeys,
  MaxTime,          \* bound on the clock
  ClockMayStepBack, \* whether the system clock may be set back
  None

ASSUME RateLimitAssumption ==
  /\ WindowSecs \in Nat \ {0} /\ MaxRequests \in Nat \ {0}
  /\ MaxTrackedKeys \in Nat /\ MaxTime \in Nat
  /\ ClockMayStepBack \in BOOLEAN
  /\ None \notin [key : Keys, now : 0 .. MaxTime]

VARIABLES
  windows,    \* the HashMap: a VecDeque of times for each tracked key
  clock,
  sampled,    \* the key and relay time a thread is about to ask about
  admitted    \* history: the times of each key's admitted requests, in order

vars == <<windows, clock, sampled, admitted>>

Times == 0 .. MaxTime

Init ==
  /\ windows = [key \in {} |-> <<>>]
  /\ clock = 0
  /\ sampled = [t \in Threads |-> None]
  /\ admitted = [key \in Keys |-> <<>>]

Sample(t, key) ==
  /\ sampled[t] = None
  /\ sampled' = [sampled EXCEPT ![t] = [key |-> key, now |-> clock]]
  /\ UNCHANGED <<windows, clock, admitted>>

\* pop_front while the oldest entry has left the window.
CurrentLate(entries, now) ==   \* variant: lets an entry go one second late
  LET old == {i \in DOMAIN entries :
                \A j \in 1 .. i : entries[j] + WindowSecs < now}
  IN  SubSeq(entries, Cardinality(old) + 1, Len(entries))
Current(entries, now) ==
  LET old == {i \in DOMAIN entries :
                \A j \in 1 .. i : entries[j] + WindowSecs <= now}
  IN  SubSeq(entries, Cardinality(old) + 1, Len(entries))

\* admit() answers; the thread goes on to the exchange or fails as overloaded.
Decide(t, admit) ==
  LET key == sampled[t].key
      now == sampled[t].now
  IN  /\ admitted' = IF admit
                     THEN [admitted EXCEPT ![key] = Append(@, now)]
                     ELSE admitted
      /\ sampled' = [sampled EXCEPT ![t] = None]
      /\ UNCHANGED clock

AdmitKnownOver(t) ==   \* variant: off by one
  LET key == sampled[t].key
      now == sampled[t].now
      entries == Current(windows[key], now)
      admit == Len(entries) <= MaxRequests
  IN  /\ sampled[t] # None
      /\ key \in DOMAIN windows
      /\ windows' = [windows EXCEPT ![key] =
                       IF admit THEN Append(entries, now) ELSE entries]
      /\ Decide(t, admit)

AdmitKnown(t) ==
  LET key == sampled[t].key
      now == sampled[t].now
      entries == Current(windows[key], now)
      admit == Len(entries) < MaxRequests
  IN  /\ sampled[t] # None
      /\ key \in DOMAIN windows
      /\ windows' = [windows EXCEPT ![key] =
                       IF admit THEN Append(entries, now) ELSE entries]
      /\ Decide(t, admit)

AdmitNewUnbounded(t) ==   \* variant: tracks every key
  LET key == sampled[t].key
  IN  /\ sampled[t] # None
      /\ key \notin DOMAIN windows
      /\ windows' = [k \in DOMAIN windows \cup {key} |->
                       IF k = key THEN <<sampled[t].now>> ELSE windows[k]]
      /\ Decide(t, TRUE)

\* A key that is not tracked: there is room for it, or it is turned away.
AdmitNew(t) ==
  LET key == sampled[t].key
      room == Cardinality(DOMAIN windows) < MaxTrackedKeys
  IN  /\ sampled[t] # None
      /\ key \notin DOMAIN windows
      /\ windows' = IF room
                    THEN [k \in DOMAIN windows \cup {key} |->
                            IF k = key THEN <<sampled[t].now>> ELSE windows[k]]
                    ELSE windows
      /\ Decide(t, room)

\* relay_time() reads SystemTime, which moves on or is set back.
Tick ==
  /\ clock' \in {at \in Times :
                   at = clock + 1 \/ (ClockMayStepBack /\ at < clock)}
  /\ UNCHANGED <<windows, sampled, admitted>>

Next ==
  \/ \E t \in Threads, key \in Keys : Sample(t, key)
  \/ \E t \in Threads : AdmitKnown(t)
  \/ \E t \in Threads : AdmitNew(t)
  \/ Tick

Spec == Init /\ [][Next]_vars

-----------------------------------------------------------------------------
(* What the limiter promises.                                              *)

\* The requests of a key admitted at relay times of one window.
AdmittedWithin(key, start) ==
  {i \in DOMAIN admitted[key] : /\ start <= admitted[key][i]
                                /\ admitted[key][i] < start + WindowSecs}

\* CW-SECURITY-002, the doc comment of RateLimiter: no rolling window holds
\* more than MaxRequests admitted requests of one key.
RateBounded ==
  \A key \in Keys, start \in Times :
    Cardinality(AdmittedWithin(key, start)) <= MaxRequests

\* Memory is bounded whatever the order of the sampled times: tracked keys by
\* MaxTrackedKeys (CW-SECURITY-003) and what is kept of each by MaxRequests.
MemoryBounded ==
  /\ Cardinality(DOMAIN windows) <= MaxTrackedKeys
  /\ \A key \in DOMAIN windows : Len(windows[key]) <= MaxRequests

\* With times in order a tracked key is turned away exactly when its budget
\* for the window that ends now is used up: eviction neither forgets a request
\* too early nor keeps one too long.
BudgetExact ==
  [][\A t \in Threads :
       sampled[t] # None /\ sampled'[t] = None =>
         LET key == sampled[t].key
             now == sampled[t].now
             recent == {i \in DOMAIN admitted[key] :
                          admitted[key][i] + WindowSecs > now}
         IN  key \in DOMAIN windows =>
               (admitted'[key] # admitted[key]
                  <=> Cardinality(recent) < MaxRequests)]_vars
=============================================================================
