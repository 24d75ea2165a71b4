-------------------------- MODULE WaitForResultProofs --------------------------
(* Proofs about the synchronisation primitive, for any number of callers and   *)
(* calls and any configuration.                                                *)
EXTENDS WaitForResult, TLAPS

-------------------------------------------------------------------------------
(* The breaker.                                                                *)

\* Why OpenIsJustified holds: the breaker's own counter never runs ahead of the
\* failures in a row, because half-opening sets it back to Threshold - 1 only
\* from the open state, which those failures justified.
BreakerInv ==
    /\ failures \in Nat
    /\ streak \in Nat
    /\ failures <= streak
    /\ OpenIsJustified

\* The initial breaker is closed and has counted nothing.
LEMMA InitBreaker == Init => BreakerInv
BY WaitAssumption DEF Init, BreakerInv, OpenIsJustified

\* Each way a step treats the breaker keeps BreakerInv.
LEMMA BreakerOps ==
    ASSUME BreakerInv,
           \/ RecordSuccess \/ RecordFailure \/ HalfOpen \/ UNCHANGED breakerVars
           \/ /\ openFor \in 1 .. ResetAfter /\ openFor' = openFor - 1
              /\ UNCHANGED <<failures, streak>>
    PROVE  BreakerInv'
<1>. Threshold \in Nat \ {0} /\ ResetAfter \in Nat \ {0}
    BY WaitAssumption
<1>1. CASE RecordSuccess
    BY <1>1 DEF RecordSuccess, BreakerInv, OpenIsJustified
<1>2. CASE RecordFailure
    <2>1. failures' \in Nat /\ streak' \in Nat /\ failures' <= streak'
        BY <1>2 DEF RecordFailure, BreakerInv
    <2>2. CASE failures + 1 >= Threshold
        BY <1>2, <2>1, <2>2 DEF RecordFailure, BreakerInv, OpenIsJustified
    <2>3. CASE ~(failures + 1 >= Threshold)
        <3>1. openFor' = openFor /\ streak' = streak + 1 /\ streak \in Nat
            BY <1>2, <2>3 DEF RecordFailure, BreakerInv
        <3>. QED
            BY <2>1, <3>1 DEF BreakerInv, OpenIsJustified, Closed
    <2>. QED
        BY <2>2, <2>3
<1>3. CASE HalfOpen
    BY <1>3 DEF HalfOpen, BreakerInv, OpenIsJustified, Closed
<1>4. CASE UNCHANGED breakerVars
    BY <1>4 DEF breakerVars, BreakerInv, OpenIsJustified
<1>5. CASE /\ openFor \in 1 .. ResetAfter /\ openFor' = openFor - 1
           /\ UNCHANGED <<failures, streak>>
    BY <1>5 DEF BreakerInv, OpenIsJustified, Closed
<1>. QED
    BY <1>1, <1>2, <1>3, <1>4, <1>5

\* Every step treats the breaker in one of those ways.
LEMMA NextBreaker == BreakerInv /\ [Next]_vars => BreakerInv'
<1>. SUFFICES ASSUME BreakerInv, [Next]_vars PROVE BreakerInv'
    OBVIOUS
<1>1. ASSUME NEW c \in Callers,
             Submit(c) \/ Top(c) \/ Poll(c) \/ Wake(c) \/ Cancel(c) \/ RunJob(c) \/ EndJob(c)
      PROVE  UNCHANGED breakerVars
    BY <1>1 DEF Submit, Top, Poll, Wake, Cancel, RunJob, EndJob, breakerVars
<1>2. ASSUME NEW c \in Callers, Enter(c)
      PROVE  UNCHANGED breakerVars \/ HalfOpen
    BY <1>2 DEF Enter
<1>3. ASSUME NEW c \in Callers, PollRaises(c)
      PROVE  RecordFailure
    BY <1>3 DEF PollRaises
<1>4. ASSUME NEW c \in Callers, Fetch(c)
      PROVE  RecordSuccess
    BY <1>4 DEF Fetch
<1>5. ASSUME NEW c \in Callers, FetchTransient(c)
      PROVE  RecordFailure \/ UNCHANGED breakerVars
    BY <1>5 DEF FetchTransient
<1>6. CASE Tick
    <2>1. CASE openFor \in 1 .. ResetAfter
        BY <1>6, <2>1, BreakerOps DEF Tick
    <2>2. CASE openFor \notin 1 .. ResetAfter
        BY <1>6, <2>2, BreakerOps DEF Tick, breakerVars
    <2>. QED
        BY <2>1, <2>2
<1>7. CASE UNCHANGED vars
    BY <1>7, BreakerOps DEF vars
<1>. QED
    BY <1>1, <1>2, <1>3, <1>4, <1>5, <1>6, <1>7, BreakerOps DEF Next, Step

\* CircuitBreaker for any threshold, reset time and callers: it is open only
\* after failure_threshold failures in a row, although half-opening rewrites the
\* counter under callers that entered earlier.
THEOREM BreakerIsJustified == Spec => []OpenIsJustified
<1>1. Init => BreakerInv
    BY InitBreaker
<1>2. BreakerInv /\ [Next]_vars => BreakerInv'
    BY NextBreaker
<1>3. BreakerInv => OpenIsJustified
    BY DEF BreakerInv
<1>. QED
    BY <1>1, <1>2, <1>3, PTL DEF Spec

-------------------------------------------------------------------------------
(* The callers.                                                                *)

\* What the place of a caller in the loop says of its job.
JobInv ==
    \A c \in Callers :
        /\ job[c] = "none" => pc[c] = "new"
        /\ pc[c] = "fetch" => job[c] \in {"completed", "failed", "transient"}
        /\ pc[c] = "result" => job[c] = "completed"
        /\ pc[c] = "bad_run" => job[c] = "failed"
        /\ pc[c] \in {"timeout", "cancelled"} => job[c] \in Ended
        /\ job[c] = "cancelled" => pc[c] \in {"timeout", "cancelled"}

\* What it says of its time and its retries: past the deadline check at most
\* Timeout has gone by, and a sleep adds at most Longest to that.
TimeInv ==
    \A c \in Callers :
        /\ pc[c] # "sleep" => asleep[c] = 0
        /\ pc[c] \in {"new", "submitted"} => elapsed[c] = 0
        /\ pc[c] \in {"poll", "fetch"} => elapsed[c] <= Timeout
        /\ elapsed[c] + asleep[c] <= Timeout + Longest
        /\ pc[c] \notin Done => retries[c] <= MaxRetries

CallerInv == TypeOK /\ JobInv /\ TimeInv

\* The capped backoff stays between the initial and the longest interval.
LEMMA BackoffRange ==
    ASSUME NEW i \in Initial .. Longest
    PROVE  Backoff(i) \in Initial .. Longest
<1>. /\ Initial \in Nat \ {0} /\ Longest \in Nat \ {0} /\ Factor \in Nat \ {0}
     /\ Initial <= Longest
    BY WaitAssumption
<1>1. i * Factor \in Nat /\ i * Factor >= i
    <2>1. PICK k \in Nat : Factor = k + 1
        <3>1. Factor - 1 \in Nat /\ Factor = (Factor - 1) + 1
            OBVIOUS
        <3>. QED
            BY <3>1
    <2>2. i \in Nat /\ i * k \in Nat /\ i * (k + 1) = i * k + i
        BY <2>1
    <2>. QED
        BY <2>1, <2>2
<1>. DEFINE f == i * Factor
<1>2. f \in Nat /\ f >= i
    BY <1>1
<1>. HIDE DEF f
<1>3. \E x \in {f, Longest} : \A y \in {f, Longest} : x <= y
    <2>1. CASE f <= Longest
        BY <1>2, <2>1
    <2>2. CASE ~(f <= Longest)
        BY <1>2, <2>2
    <2>. QED
        BY <2>1, <2>2
<1>4. Min({f, Longest}) \in {f, Longest} /\ Min({f, Longest}) <= Longest
    BY <1>3 DEF Min
<1>5. Backoff(i) = Min({f, Longest})
    BY DEF Backoff, f
<1>. QED
    BY <1>2, <1>4, <1>5

\* A new caller has done nothing, and no time has passed.
LEMMA InitCaller == Init => CallerInv
<1>. SUFFICES ASSUME Init PROVE CallerInv
    OBVIOUS
<1>. /\ MaxCalls \in Nat /\ Initial \in Nat \ {0} /\ Longest \in Nat \ {0}
     /\ Initial <= Longest /\ Timeout \in Nat \ {0} /\ MaxRetries \in Nat \ {0}
     /\ ResetAfter \in Nat \ {0}
    BY WaitAssumption
<1>1. TypeOK
    BY DEF Init, TypeOK, Closed
<1>2. JobInv
    BY DEF Init, JobInv
<1>3. TimeInv
    BY DEF Init, TimeInv
<1>. QED
    BY <1>1, <1>2, <1>3 DEF CallerInv

\* The breaker's operations keep its types.
LEMMA BreakerTypes ==
    ASSUME TypeOK, RecordSuccess \/ RecordFailure \/ HalfOpen \/ UNCHANGED breakerVars
    PROVE  failures' \in Nat /\ openFor' \in 0 .. Closed /\ streak' \in Nat
<1>. Threshold \in Nat \ {0} /\ ResetAfter \in Nat \ {0}
    BY WaitAssumption
<1>. QED
    BY DEF TypeOK, RecordSuccess, RecordFailure, HalfOpen, breakerVars, Closed

\* Going to sleep is allowed after a deadline check.
LEMMA SleepKeeps ==
    ASSUME CallerInv, NEW c \in Callers, pc[c] \in {"poll", "fetch"}, Sleep(c)
    PROVE  /\ pc' = [pc EXCEPT ![c] = "sleep"]
           /\ interval' \in [Callers -> Initial .. Longest]
           /\ asleep' = [asleep EXCEPT ![c] = interval[c]]
           /\ interval[c] \in 0 .. Longest
           /\ asleep' \in [Callers -> 0 .. Longest]
           /\ elapsed[c] + interval[c] <= Timeout + Longest
<1>. /\ Initial \in Nat \ {0} /\ Longest \in Nat \ {0} /\ Initial <= Longest
     /\ Timeout \in Nat \ {0}
    BY WaitAssumption
<1>1. /\ interval[c] \in Initial .. Longest /\ elapsed[c] \in Nat
      /\ interval \in [Callers -> Initial .. Longest] /\ asleep \in [Callers -> 0 .. Longest]
    BY DEF CallerInv, TypeOK
<1>2. /\ pc' = [pc EXCEPT ![c] = "sleep"]
      /\ asleep' = [asleep EXCEPT ![c] = interval[c]]
      /\ interval' = [interval EXCEPT ![c] = Backoff(interval[c])]
    BY DEF Sleep, Goto
<1>3. Backoff(interval[c]) \in Initial .. Longest
    BY <1>1, BackoffRange
<1>4. elapsed[c] <= Timeout
    BY DEF CallerInv, TimeInv
<1>5. interval' \in [Callers -> Initial .. Longest]
    BY <1>1, <1>2, <1>3
<1>6. interval[c] \in 0 .. Longest
    BY <1>1
<1>7. asleep' \in [Callers -> 0 .. Longest]
    BY <1>1, <1>2, <1>6
<1>. QED
    BY <1>1, <1>2, <1>4, <1>5, <1>6, <1>7

\* A step that changes only its own caller's values, and keeps the parts of the
\* invariant that speak of that caller, keeps all of it.
LEMMA OneCaller ==
    ASSUME CallerInv, TypeOK', NEW c \in Callers,
           \A v \in Callers : v # c =>
              /\ job'[v] = job[v] /\ pc'[v] = pc[v] /\ asleep'[v] = asleep[v]
              /\ elapsed'[v] = elapsed[v] /\ retries'[v] = retries[v],
           /\ job'[c] = "none" => pc'[c] = "new"
           /\ pc'[c] = "fetch" => job'[c] \in {"completed", "failed", "transient"}
           /\ pc'[c] = "result" => job'[c] = "completed"
           /\ pc'[c] = "bad_run" => job'[c] = "failed"
           /\ pc'[c] \in {"timeout", "cancelled"} => job'[c] \in Ended
           /\ job'[c] = "cancelled" => pc'[c] \in {"timeout", "cancelled"},
           /\ pc'[c] # "sleep" => asleep'[c] = 0
           /\ pc'[c] \in {"new", "submitted"} => elapsed'[c] = 0
           /\ pc'[c] \in {"poll", "fetch"} => elapsed'[c] <= Timeout
           /\ elapsed'[c] + asleep'[c] <= Timeout + Longest
           /\ pc'[c] \notin Done => retries'[c] <= MaxRetries
    PROVE  CallerInv'
<1>1. JobInv'
    BY DEF CallerInv, JobInv
<1>2. TimeInv'
    BY DEF CallerInv, TimeInv
<1>. QED
    BY <1>1, <1>2 DEF CallerInv

\* Every step keeps the callers' invariant.
LEMMA NextCaller == CallerInv /\ [Next]_vars => CallerInv'
<1>. SUFFICES ASSUME CallerInv, [Next]_vars PROVE CallerInv'
    OBVIOUS
<1>. /\ MaxCalls \in Nat /\ Initial \in Nat \ {0} /\ Longest \in Nat \ {0}
     /\ Initial <= Longest /\ Timeout \in Nat \ {0} /\ MaxRetries \in Nat \ {0}
     /\ ResetAfter \in Nat \ {0}
    BY WaitAssumption
<1>0. TypeOK /\ JobInv /\ TimeInv
    BY DEF CallerInv
<1>1. ASSUME NEW c \in Callers, Submit(c)
      PROVE  CallerInv'
    <2>8. TypeOK'
        BY <1>0, <1>1 DEF Submit, TypeOK, Done, Returned, Raised, Ended, Goto, breakerVars, callerVars
    <2>. QED
        BY <1>0, <1>1, <2>8, OneCaller DEF Submit, TypeOK, JobInv, TimeInv, Done, Returned, Raised, Ended, Goto
<1>2. ASSUME NEW c \in Callers, Enter(c)
      PROVE  CallerInv'
    <2>1. failures' \in Nat /\ openFor' \in 0 .. Closed /\ streak' \in Nat
        BY <1>0, <1>2, BreakerTypes DEF Enter
    <2>2. /\ pc[c] = "submitted"
          /\ UNCHANGED <<job, interval, asleep, elapsed, retries, cancelled, calls>>
        BY <1>2 DEF Enter
    <2>3. PICK where \in {"top", "unavailable"} : pc' = [pc EXCEPT ![c] = where]
        BY <1>2 DEF Enter, Goto
    <2>4. TypeOK'
        BY <1>0, <2>1, <2>2, <2>3 DEF TypeOK, Done, Returned, Raised
    <2>5. pc'[c] = where /\ \A v \in Callers : v # c => pc'[v] = pc[v]
        BY <1>0, <2>3 DEF TypeOK
    <2>. QED
        BY <1>0, <2>2, <2>4, <2>5, OneCaller DEF TypeOK, JobInv, TimeInv, Done, Returned, Raised, Ended
<1>3. ASSUME NEW c \in Callers, Top(c)
      PROVE  CallerInv'
    <2>1. /\ pc[c] = "top" /\ job[c] \in {"queued", "running"} \cup Ended
          /\ UNCHANGED <<interval, asleep, elapsed, retries, cancelled, breakerVars, calls>>
        BY <1>0, <1>3 DEF Top, TypeOK, JobInv
    <2>2. CASE cancelled[c] \/ elapsed[c] > Timeout
        <3>1. /\ job' = [job EXCEPT ![c] = Cancelled(job[c])]
              /\ \E where \in {"cancelled", "timeout"} : pc' = [pc EXCEPT ![c] = where]
            BY <1>3, <2>2 DEF Top, Goto
        <3>2. Cancelled(job[c]) \in Ended
            BY <2>1 DEF Cancelled, Ended
        <3>3. TypeOK'
            BY <1>0, <2>1, <3>1, <3>2 DEF TypeOK, breakerVars, Done, Returned, Raised
        <3>4. /\ job'[c] \in Ended /\ pc'[c] \in {"cancelled", "timeout"}
              /\ \A v \in Callers : v # c => pc'[v] = pc[v] /\ job'[v] = job[v]
            BY <1>0, <3>1, <3>2 DEF TypeOK
        <3>. QED
            BY <1>0, <2>1, <3>3, <3>4, OneCaller DEF TypeOK, JobInv, TimeInv, Done, Returned, Raised, Ended
    <2>3. CASE ~(cancelled[c] \/ elapsed[c] > Timeout)
        <3>1. pc' = [pc EXCEPT ![c] = "poll"] /\ UNCHANGED job
            BY <1>3, <2>3 DEF Top, Goto
        <3>2. elapsed[c] <= Timeout
            BY <1>0, <2>3 DEF TypeOK
        <3>3. TypeOK'
            BY <1>0, <2>1, <3>1 DEF TypeOK, breakerVars
        <3>. QED
            BY <1>0, <2>1, <3>1, <3>2, <3>3, OneCaller DEF TypeOK, JobInv, TimeInv, Done, Returned, Raised, Ended
    <2>. QED
        BY <2>2, <2>3
<1>4. ASSUME NEW c \in Callers, Wake(c)
      PROVE  CallerInv'
    <2>8. TypeOK'
        BY <1>0, <1>4 DEF Wake, TypeOK, Done, Returned, Raised, Ended, Goto, breakerVars, callerVars
    <2>. QED
        BY <1>0, <1>4, <2>8, OneCaller DEF Wake, TypeOK, JobInv, TimeInv, Done, Returned, Raised, Ended, Goto
<1>5. ASSUME NEW c \in Callers, Cancel(c)
      PROVE  CallerInv'
    <2>8. TypeOK'
        BY <1>0, <1>5 DEF Cancel, TypeOK, Done, Returned, Raised, Ended, Goto, breakerVars, callerVars
    <2>. QED
        BY <1>0, <1>5, <2>8, OneCaller DEF Cancel, TypeOK, JobInv, TimeInv, Done, Returned, Raised, Ended, Goto, callerVars
<1>6. ASSUME NEW c \in Callers, RunJob(c)
      PROVE  CallerInv'
    <2>8. TypeOK'
        BY <1>0, <1>6 DEF RunJob, TypeOK, Done, Returned, Raised, Ended, Goto, breakerVars, callerVars
    <2>. QED
        BY <1>0, <1>6, <2>8, OneCaller DEF RunJob, TypeOK, JobInv, TimeInv, Done, Returned, Raised, Ended, Goto, callerVars
<1>7. ASSUME NEW c \in Callers, EndJob(c)
      PROVE  CallerInv'
    <2>8. TypeOK'
        BY <1>0, <1>7 DEF EndJob, TypeOK, Done, Returned, Raised, Ended, Goto, breakerVars, callerVars
    <2>. QED
        BY <1>0, <1>7, <2>8, OneCaller DEF EndJob, TypeOK, JobInv, TimeInv, Done, Returned, Raised, Ended, Goto, callerVars
<1>8. ASSUME NEW c \in Callers, PollRaises(c)
      PROVE  CallerInv'
    <2>1. failures' \in Nat /\ openFor' \in 0 .. Closed /\ streak' \in Nat
        BY <1>0, <1>8, BreakerTypes DEF PollRaises
    <2>8. TypeOK'
        BY <1>0, <1>8, <2>1 DEF PollRaises, TypeOK, Done, Returned, Raised, Ended, Goto, breakerVars, callerVars
    <2>. QED
        BY <1>0, <1>8, <2>8, OneCaller DEF PollRaises, TypeOK, JobInv, TimeInv, Done, Returned, Raised, Ended, Goto
<1>9. ASSUME NEW c \in Callers, Fetch(c)
      PROVE  CallerInv'
    <2>1. failures' \in Nat /\ openFor' \in 0 .. Closed /\ streak' \in Nat
        BY <1>0, <1>9, BreakerTypes DEF Fetch
    <2>8. TypeOK'
        BY <1>0, <1>9, <2>1 DEF Fetch, Outcome, TypeOK, Done, Returned, Raised, Ended, Goto, breakerVars, callerVars
    <2>. QED
        BY <1>0, <1>9, <2>8, OneCaller DEF Fetch, Outcome, TypeOK, JobInv, TimeInv, Done, Returned, Raised, Ended, Goto
<1>10. ASSUME NEW c \in Callers, Poll(c)
       PROVE  CallerInv'
    <2>1. CASE Sleep(c) /\ job[c] \in {"queued", "running"}
        <3>1. pc[c] = "poll" /\ UNCHANGED <<job, elapsed, retries, cancelled, breakerVars, calls>>
            BY <1>10 DEF Poll
        <3>2. /\ pc' = [pc EXCEPT ![c] = "sleep"]
              /\ interval' \in [Callers -> Initial .. Longest]
              /\ asleep' = [asleep EXCEPT ![c] = interval[c]]
              /\ interval[c] \in 0 .. Longest
              /\ asleep' \in [Callers -> 0 .. Longest]
              /\ elapsed[c] + interval[c] <= Timeout + Longest
            BY <2>1, <3>1, SleepKeeps
        <3>3. TypeOK'
            BY <1>0, <3>1, <3>2 DEF TypeOK, breakerVars
        <3>. QED
            BY <1>0, <2>1, <3>1, <3>2, <3>3, OneCaller DEF TypeOK, TimeInv, Done, Returned, Raised
    <2>2. CASE job[c] \in {"completed", "failed", "transient", "cancelled"}
        <3>1. /\ pc[c] = "poll"
              /\ UNCHANGED <<job, interval, asleep, elapsed, retries, cancelled, breakerVars, calls>>
              /\ pc' = [pc EXCEPT ![c] = IF job[c] = "cancelled" THEN "cancelled" ELSE "fetch"]
            BY <1>10, <2>2 DEF Poll, Goto
        <3>2. TypeOK'
            BY <1>0, <3>1 DEF TypeOK, Done, Returned, Raised, Ended, Goto, breakerVars, callerVars
        <3>. QED
            BY <1>0, <2>2, <3>1, <3>2, OneCaller DEF TypeOK, JobInv, TimeInv, Done, Returned, Raised, Ended, Goto
    <2>. QED
        BY <1>10, <2>1, <2>2 DEF Poll
<1>11. ASSUME NEW c \in Callers, FetchTransient(c)
       PROVE  CallerInv'
    <2>1. /\ pc[c] = "fetch" /\ job[c] \in {"completed", "transient"}
          /\ retries' = [retries EXCEPT ![c] = retries[c] + 1]
          /\ retries[c] \in 0 .. MaxRetries
          /\ UNCHANGED <<job, elapsed, cancelled, calls>>
        BY <1>0, <1>11 DEF FetchTransient, TypeOK, TimeInv, Done, Returned, Raised
    <2>2. retries' \in [Callers -> 0 .. MaxRetries + 1]
        BY <1>0, <2>1 DEF TypeOK
    <2>3. CASE OutOfRetries(retries[c] + 1)
        <3>1. /\ RecordFailure /\ pc' = [pc EXCEPT ![c] = "error"]
              /\ UNCHANGED <<interval, asleep>>
            BY <1>11, <2>3 DEF FetchTransient, Goto
        <3>2. failures' \in Nat /\ openFor' \in 0 .. Closed /\ streak' \in Nat
            BY <1>0, <3>1, BreakerTypes
        <3>3. TypeOK'
            BY <1>0, <2>1, <2>2, <3>1, <3>2 DEF TypeOK, Done, Returned, Raised
        <3>. QED
            BY <1>0, <2>1, <3>1, <3>3, OneCaller DEF TypeOK, TimeInv, Done, Returned, Raised
    <2>4. CASE ~OutOfRetries(retries[c] + 1)
        <3>1. Sleep(c) /\ UNCHANGED breakerVars
            BY <1>11, <2>4 DEF FetchTransient
        <3>2. /\ pc' = [pc EXCEPT ![c] = "sleep"]
              /\ interval' \in [Callers -> Initial .. Longest]
              /\ asleep' = [asleep EXCEPT ![c] = interval[c]]
              /\ interval[c] \in 0 .. Longest
              /\ asleep' \in [Callers -> 0 .. Longest]
              /\ elapsed[c] + interval[c] <= Timeout + Longest
            BY <2>1, <3>1, SleepKeeps
        <3>3. TypeOK'
            BY <1>0, <2>1, <2>2, <3>1, <3>2 DEF TypeOK, breakerVars
        <3>4. retries'[c] <= MaxRetries
            BY <1>0, <2>1, <2>4 DEF OutOfRetries, TypeOK
        <3>. QED
            BY <1>0, <2>1, <3>2, <3>3, <3>4, OneCaller DEF TypeOK, TimeInv, Done, Returned, Raised
    <2>. QED
        BY <2>3, <2>4
<1>12. CASE Tick
    <2>1. UNCHANGED <<job, pc, interval, retries, cancelled, failures, streak, calls>>
        BY <1>12 DEF Tick
    <2>2. ASSUME NEW c \in Callers
          PROVE  /\ asleep'[c] \in 0 .. Longest /\ elapsed'[c] \in Nat
                 /\ pc[c] # "sleep" => asleep'[c] = 0 /\ elapsed'[c] = elapsed[c]
                 /\ elapsed'[c] + asleep'[c] <= Timeout + Longest
        <3>1. /\ asleep[c] \in 0 .. Longest /\ elapsed[c] \in Nat
              /\ elapsed[c] + asleep[c] <= Timeout + Longest
              /\ pc[c] # "sleep" => asleep[c] = 0
            BY <1>0 DEF TypeOK, TimeInv
        <3>2. /\ asleep'[c] = IF asleep[c] = 0 THEN 0 ELSE asleep[c] - 1
              /\ elapsed'[c] = IF Waiting(c) THEN elapsed[c] + 1 ELSE elapsed[c]
              /\ pc[c] \in {"new"} \cup Done \/ asleep[c] > 0
            BY <1>12 DEF Tick
        <3>3. CASE pc[c] = "sleep"
            <4>1. asleep[c] > 0
                BY <3>2, <3>3 DEF Done, Returned, Raised
            <4>. QED
                BY <3>1, <3>2, <3>3, <4>1
        <3>4. CASE pc[c] # "sleep"
            <4>1. ~Waiting(c)
                BY <3>1, <3>2, <3>4 DEF Waiting, Done, Returned, Raised
            <4>. QED
                BY <3>1, <3>2, <3>4, <4>1
        <3>. QED
            BY <3>3, <3>4
    <2>3. asleep' \in [Callers -> 0 .. Longest] /\ elapsed' \in [Callers -> Nat]
        <3>1. /\ asleep' = [c \in Callers |-> IF asleep[c] = 0 THEN 0 ELSE asleep[c] - 1]
              /\ elapsed' = [c \in Callers |-> IF Waiting(c) THEN elapsed[c] + 1 ELSE elapsed[c]]
            BY <1>12 DEF Tick
        <3>2. \A c \in Callers : asleep'[c] \in 0 .. Longest /\ elapsed'[c] \in Nat
            BY <2>2
        <3>. QED
            BY <3>1, <3>2
    <2>4. openFor' \in 0 .. Closed
        BY <1>0, <1>12 DEF Tick, TypeOK, Closed
    <2>5. TypeOK'
        BY <1>0, <2>1, <2>3, <2>4 DEF TypeOK
    <2>6. JobInv'
        BY <1>0, <2>1 DEF JobInv
    <2>7. TimeInv'
        BY <1>0, <2>1, <2>2 DEF TimeInv
    <2>. QED
        BY <2>5, <2>6, <2>7 DEF CallerInv
<1>13. CASE UNCHANGED vars
    BY <1>13 DEF vars, callerVars, breakerVars, CallerInv, TypeOK, JobInv, TimeInv, Done
<1>. QED
    BY <1>1, <1>2, <1>3, <1>4, <1>5, <1>6, <1>7, <1>8, <1>9, <1>10, <1>11, <1>12, <1>13
       DEF Next, Step

-------------------------------------------------------------------------------
\* What is known of the callers stays known, in every state.
LEMMA CallersKeep == Spec => []CallerInv
BY InitCaller, NextCaller, PTL DEF Spec

\* The state of callers, jobs and breaker keeps its types, for any polling
\* configuration and threshold.
THEOREM WaitTypeCorrect == Spec => []TypeOK
<1>1. CallerInv => TypeOK
    BY DEF CallerInv
<1>. QED
    BY <1>1, CallersKeep, PTL

\* wait_for_result for any intervals, backoff, retry limit and timeout: a call
\* lasts at most one longest sleep beyond its timeout.
THEOREM WaitsAreBounded == Spec => []WaitBounded
<1>1. CallerInv => WaitBounded
    <2>. SUFFICES ASSUME CallerInv, NEW c \in Callers PROVE elapsed[c] <= Timeout + Longest
        BY DEF WaitBounded
    <2>1. elapsed[c] \in Nat /\ asleep[c] \in Nat /\ Timeout \in Nat /\ Longest \in Nat
        BY WaitAssumption DEF CallerInv, TypeOK
    <2>2. elapsed[c] + asleep[c] <= Timeout + Longest
        BY DEF CallerInv, TimeInv
    <2>. QED
        BY <2>1, <2>2
<1>. QED
    BY <1>1, CallersKeep, PTL

\* Whatever the backend's jobs do, a wait that gave up or was cancelled leaves an
\* ended job behind, and that job never comes back to life.
THEOREM AbandonedJobsEnd == Spec => []AbandonedJobsStop
<1>1. CallerInv => AbandonedJobsStop
    BY DEF CallerInv, JobInv, AbandonedJobsStop
<1>. QED
    BY <1>1, CallersKeep, PTL

\* A call returns a result only of a completed job and reports a failed run only
\* of a failed one, and no job that was cancelled is returned as either.
THEOREM ReturnsAreReal == Spec => []ResultsAreReal
<1>1. CallerInv => ResultsAreReal
    BY DEF CallerInv, JobInv, ResultsAreReal
<1>. QED
    BY <1>1, CallersKeep, PTL
===============================================================================
