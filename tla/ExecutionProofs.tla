---------------------------- MODULE ExecutionProofs ----------------------------
(* Proofs about Execution, for any experiments, requests, molecules, optimizer *)
(* steps, threads and failing simulations: that the executor is given back, in *)
(* which the circuits play no part, that a phase estimation answers the phase  *)
(* of its request, for any number of counting qubits, and that a search leaves *)
(* the histogram that the rotation predicts, for any number of qubits.         *)
EXTENDS Execution, TLAPS, WellFoundedInduction, FiniteSetTheorems, SequenceTheorems

IsJob(r) ==
    r = [owner |-> r.owner, loop |-> r.loop, circuit |-> r.circuit,
         status |-> r.status, counts |-> r.counts]

Types ==
    /\ running \in Experiments \cup {Nobody}
    /\ request = [e \in Experiments |-> request[e]]
    /\ answer = [e \in Experiments |-> answer[e]]
    /\ stage \in {"idle", "wait", "thread", "cost", "term", "drain"}
    /\ \E S : jobs \in Seq(S)
    /\ \A j \in DOMAIN jobs : IsJob(jobs[j])
    /\ executor \in Seq(Nat)

\* A job is a probe's or that of an experiment that was taken.
Owned(e) == e = Calibration \/ (e \in Experiments /\ request[e] # Nothing)

\* The worker is idle or has taken what it works for.  Whoever waits for a job
\* waits for one of its own, on the loop of its kind.
TurnInv ==
    /\ running = Nobody <=> stage = "idle"
    /\ running # Nobody => request[running] # Nothing
    /\ \A j \in DOMAIN jobs : Owned(jobs[j].owner)
    /\ Waiting => /\ handle \in DOMAIN jobs
                  /\ Job.owner = running
                  /\ Job.loop = IF stage = "wait" THEN "worker" ELSE "cost"
    /\ probe # NoProbe => probe \in DOMAIN jobs /\ jobs[probe].owner = Calibration

\* A job that has not begun is waited for: only what runs is given up.
QueueInv ==
    \A j \in DOMAIN jobs : jobs[j].status = "queued" => (Waiting /\ j = handle) \/ j = probe

\* A place in the executor is the VQE loop's or that of one running simulation,
\* which is the one the task waits for, a probe's, or that of an experiment that
\* the worker left.
PlacesInv ==
    /\ \A k, l \in DOMAIN executor : executor[k] = executor[l] => k = l
    /\ \A k \in DOMAIN executor : executor[k] # VqeLoop =>
          /\ executor[k] \in DOMAIN jobs
          /\ jobs[executor[k]].status = "running"
          /\ jobs[executor[k]].loop = "worker"
          /\ jobs[executor[k]].owner = running => stage = "wait" /\ executor[k] = handle

IInv == Types /\ TurnInv /\ QueueInv /\ PlacesInv /\ ExecutorAccounted

--------------------------------------------------------------------------------
(* Jobs and places.                                                            *)

\* A sequence of some set is a function on its places.
LEMMA SequenceOf ==
    ASSUME NEW s, \E S : s \in Seq(S)
    PROVE  Len(s) \in Nat /\ DOMAIN s = 1 .. Len(s)
OBVIOUS

\* Appending keeps what is there.
LEMMA Appended ==
    ASSUME NEW s, \E S : s \in Seq(S), NEW e
    PROVE  /\ \E S : Append(s, e) \in Seq(S)
           /\ Len(Append(s, e)) = Len(s) + 1
           /\ DOMAIN Append(s, e) = 1 .. Len(s) + 1
           /\ \A i \in 1 .. Len(s) : Append(s, e)[i] = s[i]
           /\ Append(s, e)[Len(s) + 1] = e
<1>1. PICK S : s \in Seq(S)
  OBVIOUS
<1>2. s \in Seq(S \cup {e})
  BY <1>1
<1>3. Append(s, e) \in Seq(S \cup {e})
  BY <1>2
<1>4. \E T : Append(s, e) \in Seq(T)
  BY <1>3
<1> QED
  BY <1>2, <1>3, <1>4

\* The least of one number is that number.
LEMMA MinOfOne ==
    ASSUME NEW k \in Nat
    PROVE  Min({k}) = k
  BY DEF Min

\* One sequence after the other.
LEMMA Joined ==
    ASSUME NEW a \in Seq(Nat), NEW b \in Seq(Nat)
    PROVE  /\ a \o b \in Seq(Nat)
           /\ Len(a \o b) = Len(a) + Len(b)
           /\ \A k \in 1 .. Len(a) + Len(b) :
                 (a \o b)[k] = IF k <= Len(a) THEN a[k] ELSE b[k - Len(a)]
OBVIOUS

\* Work that leaves the executor leaves its one place in it.
LEMMA Removed ==
    ASSUME NEW s \in Seq(Nat), NEW x \in Nat,
           \A k, l \in DOMAIN s : s[k] = s[l] => k = l
    PROVE  /\ RemoveFirst(s, x) \in Seq(Nat)
           /\ \A l \in DOMAIN RemoveFirst(s, x) :
                 /\ RemoveFirst(s, x)[l] # x
                 /\ \E k \in DOMAIN s : RemoveFirst(s, x)[l] = s[k]
           /\ \A k, l \in DOMAIN RemoveFirst(s, x) :
                 RemoveFirst(s, x)[k] = RemoveFirst(s, x)[l] => k = l
<1>1. CASE ~ \E i \in 1 .. Len(s) : s[i] = x
  <2>1. RemoveFirst(s, x) = s
    BY <1>1 DEF RemoveFirst
  <2>2. \A l \in DOMAIN s : s[l] # x
    BY <1>1
  <2> QED
    BY <2>1, <2>2
<1>2. CASE \E i \in 1 .. Len(s) : s[i] = x
  <2>1. PICK i \in 1 .. Len(s) : s[i] = x
    BY <1>2
  <2>2. {k \in 1 .. Len(s) : s[k] = x} = {i}
    BY <2>1
  <2>3. SelectInSeq(s, LAMBDA v : v = x) = i
    BY <2>2, MinOfOne DEF SelectInSeq
  <2>4. RemoveFirst(s, x) = RemoveAt(s, i)
    BY <1>2, <2>3 DEF RemoveFirst
  <2>5. PICK t : t = RemoveAt(s, i)
    OBVIOUS
  <2>6. /\ t \in Seq(Nat) /\ Len(t) = Len(s) - 1
        /\ \A k \in 1 .. Len(s) - 1 : t[k] = s[IF k < i THEN k ELSE k + 1]
    <3>1. PICK before : before = SubSeq(s, 1, i - 1)
      OBVIOUS
    <3>2. before \in Seq(Nat) /\ Len(before) = i - 1 /\ \A k \in 1 .. i - 1 : before[k] = s[k]
      BY <3>1
    <3>3. PICK after : after = SubSeq(s, i + 1, Len(s))
      OBVIOUS
    <3>4. after \in Seq(Nat) /\ Len(after) = Len(s) - i
          /\ \A k \in 1 .. Len(s) - i : after[k] = s[i + k]
      BY <3>3
    <3>5. t = before \o after
      BY <2>5, <3>1, <3>3 DEF RemoveAt
    <3>8. /\ t \in Seq(Nat) /\ Len(t) = Len(before) + Len(after)
          /\ \A k \in 1 .. Len(before) + Len(after) :
                t[k] = IF k <= Len(before) THEN before[k] ELSE after[k - Len(before)]
      BY <3>2, <3>4, <3>5, Joined
    <3>9. Len(s) \in Nat /\ i \in Int
      OBVIOUS
    <3>6. t \in Seq(Nat) /\ Len(t) = Len(s) - 1
      BY <3>2, <3>4, <3>8, <3>9
    <3>7. ASSUME NEW k \in 1 .. Len(s) - 1
          PROVE  t[k] = s[IF k < i THEN k ELSE k + 1]
      <4>3. k \in 1 .. Len(before) + Len(after) /\ Len(before) = i - 1 /\ k \in Int
        BY <3>2, <3>4, <3>9
      <4>4. t[k] = IF k <= i - 1 THEN before[k] ELSE after[k - (i - 1)]
        BY <3>8, <4>3
      <4>1. CASE k < i
        <5>1. k \in 1 .. i - 1 /\ k <= i - 1
          BY <3>9, <4>1
        <5> QED
          BY <3>2, <4>1, <4>4, <5>1
      <4>2. CASE ~(k < i)
        <5>1. k - (i - 1) \in 1 .. Len(s) - i /\ ~(k <= i - 1) /\ i + (k - (i - 1)) = k + 1
          BY <3>9, <4>2
        <5>2. after[k - (i - 1)] = s[k + 1]
          BY <3>4, <5>1
        <5> QED
          BY <4>2, <4>4, <5>1, <5>2
      <4> QED
        BY <4>1, <4>2
    <3> QED
      BY <3>6, <3>7
  <2>7. DOMAIN t = 1 .. Len(s) - 1 /\ DOMAIN s = 1 .. Len(s)
    BY <2>6
  <2>8. ASSUME NEW k \in DOMAIN t
        PROVE  t[k] # x /\ \E m \in DOMAIN s : t[k] = s[m]
    <3> DEFINE m == IF k < i THEN k ELSE k + 1
    <3>1. m \in 1 .. Len(s) /\ m # i
      BY <2>7
    <3> QED
      BY <2>1, <2>6, <2>7, <3>1
  <2>9. ASSUME NEW k \in DOMAIN t, NEW l \in DOMAIN t, t[k] = t[l]
        PROVE  k = l
    <3> DEFINE m(n) == IF n < i THEN n ELSE n + 1
    <3>0. k \in 1 .. Len(s) - 1 /\ l \in 1 .. Len(s) - 1
      BY <2>7
    <3>3. m(k) \in DOMAIN s /\ m(l) \in DOMAIN s
      BY <2>7, <3>0
    <3>4. t[k] = s[m(k)] /\ t[l] = s[m(l)]
      BY <2>6, <3>0
    <3>1. m(k) \in DOMAIN s /\ m(l) \in DOMAIN s /\ s[m(k)] = s[m(l)]
      BY <2>9, <3>3, <3>4
    <3>2. m(k) = m(l)
      BY <3>1
    <3> QED
      BY <2>7, <3>2
  <2> QED
    BY <2>4, <2>5, <2>6, <2>8, <2>9
<1> QED
  BY <1>1, <1>2

--------------------------------------------------------------------------------
(* The steps, by what they do to the turn, the jobs and the executor.          *)

\* What the invariant says of one place of the executor.
Held(x) ==
    x # VqeLoop =>
        /\ x \in DOMAIN jobs
        /\ jobs[x].status = "running"
        /\ jobs[x].loop = "worker"
        /\ jobs[x].owner = running => stage = "wait" /\ x = handle

Accounted(x) ==
    IF x = VqeLoop THEN stage \in {"thread", "cost", "term", "drain"}
    ELSE \/ stage = "wait" /\ x = handle
         \/ x = probe
         \/ x \in abandoned /\ (jobs[x].owner = Calibration \/ answer[jobs[x].owner] = Failed)

\* The first state.
LEMMA ExecInit == Init => IInv
<1> SUFFICES ASSUME Init PROVE IInv
  OBVIOUS
<1>1. jobs = <<>> /\ executor = <<>> /\ stage = "idle" /\ running = Nobody /\ probe = NoProbe
  BY DEF Init
<1>2. Types
  BY <1>1 DEF Init, Types
<1>3. TurnInv /\ QueueInv
  BY <1>1 DEF TurnInv, QueueInv, Waiting
<1>4. PlacesInv /\ ExecutorAccounted
  BY <1>1 DEF PlacesInv, ExecutorAccounted
<1> QED
  BY <1>2, <1>3, <1>4 DEF IInv

\* Jobs are numbered from 1.
LEMMA JobNumbers ==
    ASSUME IInv
    PROVE  /\ DOMAIN jobs = 1 .. Len(jobs)
           /\ Len(jobs) \in Nat
           /\ \A j \in DOMAIN jobs : j \in Nat /\ j # VqeLoop /\ j # NoProbe
<1>1. DOMAIN jobs = 1 .. Len(jobs) /\ Len(jobs) \in Nat
  BY SequenceOf DEF IInv, Types
<1> QED
  BY <1>1 DEF VqeLoop, NoProbe

\* Neither the worker's experiment nor "no experiment" is the calibration loop.
LEMMA OwnersDiffer ==
    ASSUME IInv
    PROVE  /\ running # Calibration /\ Nobody # Calibration
           /\ \A e \in Experiments : e # Calibration /\ e # Nobody
           /\ \A j \in DOMAIN jobs : jobs[j].owner # Nobody
BY ExecutionAssumption DEF IInv, Types, TurnInv, Owned

\* The places, by what the invariant says of each of them.
LEMMA PlacesOf ==
    ASSUME IInv, NEW k \in DOMAIN executor
    PROVE  executor[k] \in Nat /\ Held(executor[k]) /\ Accounted(executor[k])
<1>1. executor \in Seq(Nat)
  BY DEF IInv, Types
<1>2. Held(executor[k])
  BY DEF IInv, PlacesInv, Held
<1>3. Accounted(executor[k])
  BY DEF IInv, ExecutorAccounted, Accounted
<1> QED
  BY <1>1, <1>2, <1>3

\* It says enough.
LEMMA PlacesMake ==
    ASSUME \A k, l \in DOMAIN executor' : executor'[k] = executor'[l] => k = l,
           \A k \in DOMAIN executor' : Held(executor[k])' /\ Accounted(executor[k])'
    PROVE  PlacesInv' /\ ExecutorAccounted'
<1>1. PlacesInv'
  BY DEF PlacesInv, Held
<1>2. ExecutorAccounted'
  BY DEF ExecutorAccounted, Accounted
<1> QED
  BY <1>1, <1>2

\* The worker answers: a simulation of the experiment that still has a place was
\* given up and answered "failed", and the VQE loop has left.
LEMMA AnswerKeeps ==
    ASSUME IInv, NEW a, Answer(running, a), running # Nobody,
           UNCHANGED <<request, jobs, handle, probe>>,
           Waiting => Job.status # "queued",
           executor' \in Seq(Nat),
           \A k, l \in DOMAIN executor' : executor'[k] = executor'[l] => k = l,
           \A l \in DOMAIN executor' :
              executor'[l] # VqeLoop /\ \E k \in DOMAIN executor : executor'[l] = executor[k],
           \/ a = Failed /\ abandoned' = abandoned \cup {handle}
           \/ /\ \A k \in DOMAIN executor : executor[k] # VqeLoop => jobs[executor[k]].owner # running
              /\ UNCHANGED abandoned
    PROVE  IInv'
<1>1. Types /\ TurnInv /\ QueueInv /\ PlacesInv /\ ExecutorAccounted
  BY DEF IInv
<1>2. /\ running \in Experiments /\ running' = Nobody /\ stage' = "idle"
      /\ answer' = [answer EXCEPT ![running] = a]
  BY <1>1 DEF Types, Answer
<1>3. \A e \in Experiments : answer'[e] = IF e = running THEN a ELSE answer[e]
  BY <1>1, <1>2 DEF Types
<1>4. Types'
  <2>1. answer' = [e \in Experiments |-> answer'[e]]
    BY <1>1, <1>2 DEF Types
  <2> QED
    BY <1>1, <1>2, <2>1 DEF Types
<1>5. TurnInv' /\ QueueInv'
  <2>1. TurnInv'
    BY <1>1, <1>2 DEF TurnInv, Owned, Waiting
  <2>2. QueueInv'
    BY <1>1, <1>2 DEF QueueInv, Waiting, Job
  <2> QED
    BY <2>1, <2>2
<1>6. ASSUME NEW l \in DOMAIN executor'
      PROVE  Held(executor[l])' /\ Accounted(executor[l])'
  <2>1. PICK k \in DOMAIN executor : executor'[l] = executor[k] /\ executor[k] # VqeLoop
    OBVIOUS
  <2>2. PICK x : x = executor[k] /\ x # VqeLoop /\ Held(x) /\ Accounted(x)
    BY <2>1, PlacesOf
  <2>3. /\ x \in DOMAIN jobs /\ jobs[x].status = "running" /\ jobs[x].loop = "worker"
        /\ jobs[x].owner = running => stage = "wait" /\ x = handle
        /\ jobs[x].owner # Nobody /\ Owned(jobs[x].owner)
    BY <1>1, <2>2, OwnersDiffer DEF Held, TurnInv
  <2>4. \/ x = probe
        \/ /\ x \in abandoned'
           /\ jobs[x].owner = Calibration \/ answer'[jobs[x].owner] = Failed
    <3>1. CASE jobs[x].owner = running
      BY <1>2, <1>3, <2>1, <2>2, <2>3, <3>1
    <3>2. CASE jobs[x].owner # running
      <4>1. ~(stage = "wait" /\ x = handle)
        BY <1>1, <3>2 DEF TurnInv, Waiting, Job
      <4>2. \/ x = probe
            \/ /\ x \in abandoned
               /\ jobs[x].owner = Calibration \/ answer[jobs[x].owner] = Failed
        BY <2>2, <4>1 DEF Accounted
      <4>3. jobs[x].owner # Calibration => answer'[jobs[x].owner] = answer[jobs[x].owner]
        BY <1>3, <2>3, <3>2 DEF Owned
      <4> QED
        BY <4>2, <4>3
    <3> QED
      BY <3>1, <3>2
  <2> QED
    BY <1>2, <2>1, <2>2, <2>3, <2>4 DEF Held, Accounted
<1> QED
  BY <1>4, <1>5, <1>6, PlacesMake DEF IInv

\* The places do not change, nor what the invariant says of each of them.
LEMMA SamePlaces ==
    ASSUME IInv, UNCHANGED executor,
           \A x \in Nat : Held(x) /\ Accounted(x) => Held(x)' /\ Accounted(x)'
    PROVE  PlacesInv' /\ ExecutorAccounted'
<1>1. \A k \in DOMAIN executor' : Held(executor[k])' /\ Accounted(executor[k])'
  BY PlacesOf
<1>2. \A k, l \in DOMAIN executor' : executor'[k] = executor'[l] => k = l
  BY DEF IInv, PlacesInv
<1> QED
  BY <1>1, <1>2, PlacesMake

\* A new job is queued.
LEMMA SubmitKeeps ==
    ASSUME IInv, NEW e, NEW loop, NEW circuit, Submit(e, loop, circuit)
    PROVE  /\ \E S : jobs' \in Seq(S)
           /\ Len(jobs') = Len(jobs) + 1
           /\ DOMAIN jobs' = 1 .. Len(jobs) + 1
           /\ DOMAIN jobs = 1 .. Len(jobs)
           /\ Len(jobs) \in Nat
           /\ \A j \in DOMAIN jobs : jobs'[j] = jobs[j]
           /\ \A j \in DOMAIN jobs' : IsJob(jobs'[j])
           /\ jobs'[Len(jobs) + 1].owner = e
           /\ jobs'[Len(jobs) + 1].loop = loop
           /\ jobs'[Len(jobs) + 1].circuit = circuit
           /\ jobs'[Len(jobs) + 1].counts = None
<1>1. (\E S : jobs \in Seq(S)) /\ \A j \in DOMAIN jobs : IsJob(jobs[j])
  BY DEF IInv, Types
<1>2. PICK r : r = [owner |-> e, loop |-> loop, circuit |-> circuit,
                    status |-> "queued", counts |-> None]
  OBVIOUS
<1>3. jobs' = Append(jobs, r)
  BY <1>2 DEF Submit
<1>4. IsJob(r) /\ r.owner = e /\ r.loop = loop /\ r.circuit = circuit /\ r.counts = None
  BY <1>2 DEF IsJob
<1>5. /\ \E S : jobs' \in Seq(S)
      /\ Len(jobs') = Len(jobs) + 1
      /\ DOMAIN jobs' = 1 .. Len(jobs) + 1
      /\ \A j \in 1 .. Len(jobs) : jobs'[j] = jobs[j]
      /\ jobs'[Len(jobs) + 1] = r
  <2>1. \E S : Append(jobs, r) \in Seq(S)
    BY <1>1, Appended
  <2>2. Len(Append(jobs, r)) = Len(jobs) + 1
    BY <1>1, Appended
  <2>3. DOMAIN Append(jobs, r) = 1 .. Len(jobs) + 1
    BY <1>1, Appended
  <2>4. \A j \in 1 .. Len(jobs) : Append(jobs, r)[j] = jobs[j]
    BY <1>1, Appended
  <2>5. Append(jobs, r)[Len(jobs) + 1] = r
    BY <1>1, Appended
  <2> QED
    BY <1>3, <2>1, <2>2, <2>3, <2>4, <2>5
<1>6. DOMAIN jobs = 1 .. Len(jobs) /\ Len(jobs) \in Nat
  BY <1>1, SequenceOf
<1>7. \A j \in DOMAIN jobs' : j \in DOMAIN jobs \/ j = Len(jobs) + 1
  BY <1>5, <1>6
<1>8. \A j \in DOMAIN jobs' : IsJob(jobs'[j])
  BY <1>1, <1>4, <1>5, <1>6, <1>7
<1> QED
  BY <1>4, <1>5, <1>6, <1>8

\* A new job disturbs no place: it has none yet, and the others keep theirs.
LEMMA SubmitLeavesPlaces ==
    ASSUME IInv, NEW e, NEW loop, NEW circuit, Submit(e, loop, circuit),
           UNCHANGED <<answer, executor, abandoned>>,
           \A x \in DOMAIN jobs : jobs[x].owner = running' => jobs[x].owner = running,
           stage = "wait" => UNCHANGED <<stage, handle>>,
           probe # NoProbe => UNCHANGED probe,
           stage \in {"thread", "cost", "term", "drain"} =>
               stage' \in {"thread", "cost", "term", "drain"}
    PROVE  PlacesInv' /\ ExecutorAccounted'
<1>1. ASSUME NEW x \in Nat, Held(x), Accounted(x)
      PROVE  Held(x)' /\ Accounted(x)'
  <2>1. CASE x = VqeLoop
    BY <1>1, <2>1 DEF Held, Accounted
  <2>2. CASE x # VqeLoop
    <3>1. /\ DOMAIN jobs' = 1 .. Len(jobs) + 1
          /\ DOMAIN jobs = 1 .. Len(jobs)
          /\ Len(jobs) \in Nat
          /\ \A j \in DOMAIN jobs : jobs'[j] = jobs[j]
      BY SubmitKeeps
    <3>2. x \in DOMAIN jobs /\ x \in DOMAIN jobs' /\ jobs'[x] = jobs[x]
      BY <1>1, <2>2, <3>1 DEF Held
    <3>3. x # NoProbe
      BY <2>2 DEF NoProbe, VqeLoop
    <3>4. Held(x)'
      BY <1>1, <2>2, <3>2 DEF Held
    <3>5. Accounted(x)'
      BY <1>1, <2>2, <3>2, <3>3 DEF Accounted
    <3> QED
      BY <3>4, <3>5
  <2> QED
    BY <2>1, <2>2
<1> QED
  BY <1>1, SamePlaces

\* A cost call goes on, with the next circuit or without one.
LEMMA EvaluateDoes ==
    ASSUME NEW params, NEW k, NEW total, Evaluate(params, k, total)
    PROVE  \/ /\ stage' = "term" /\ handle' = Len(jobs) + 1
              /\ \E circuit : Submit(running, "cost", circuit)
           \/ stage' = "cost" /\ UNCHANGED <<jobs, handle>>
  BY DEF Evaluate

\* Either way the invariant holds after it.
LEMMA EvaluateKeeps ==
    ASSUME IInv, NEW params, NEW k, NEW total, Evaluate(params, k, total),
           stage \in {"thread", "cost", "term"}, Waiting => Job.status # "queued",
           UNCHANGED <<running, request, answer, probe, executor, abandoned>>
    PROVE  IInv'
<1>1. Types /\ TurnInv /\ QueueInv
  BY DEF IInv
<1>2. running \in Experiments /\ request[running] # Nothing /\ running # Nobody
  BY <1>1 DEF Types, TurnInv
<1>3. CASE stage' = "cost" /\ UNCHANGED <<jobs, handle>>
  <2>1. Types'
    BY <1>1, <1>3 DEF Types
  <2>2. TurnInv'
    BY <1>1, <1>2, <1>3 DEF TurnInv, Owned, Waiting
  <2>3. QueueInv'
    BY <1>1, <1>3 DEF QueueInv, Waiting, Job
  <2>4. \A x \in Nat : Held(x) /\ Accounted(x) => Held(x)' /\ Accounted(x)'
    BY <1>3 DEF Held, Accounted
  <2>5. PlacesInv' /\ ExecutorAccounted'
    BY <2>4, SamePlaces
  <2> QED
    BY <2>1, <2>2, <2>3, <2>5 DEF IInv
<1>4. CASE /\ stage' = "term" /\ handle' = Len(jobs) + 1
           /\ \E circuit : Submit(running, "cost", circuit)
  <2>1. PICK circuit : Submit(running, "cost", circuit)
    BY <1>4
  <2>2. /\ \E S : jobs' \in Seq(S)
        /\ DOMAIN jobs' = 1 .. Len(jobs) + 1
        /\ DOMAIN jobs = 1 .. Len(jobs)
        /\ Len(jobs) \in Nat
        /\ \A j \in DOMAIN jobs : jobs'[j] = jobs[j]
        /\ \A j \in DOMAIN jobs' : IsJob(jobs'[j])
        /\ jobs'[Len(jobs) + 1].owner = running
        /\ jobs'[Len(jobs) + 1].loop = "cost"
    BY <2>1, SubmitKeeps
  <2>3. Types'
    BY <1>1, <1>4, <2>2 DEF Types
  <2>4. /\ \A j \in DOMAIN jobs' : j \in DOMAIN jobs \/ j = Len(jobs) + 1
        /\ DOMAIN jobs \subseteq DOMAIN jobs'
        /\ handle' \in DOMAIN jobs'
    BY <1>4, <2>2
  <2>5. TurnInv'
    <3>1. \A j \in DOMAIN jobs' : Owned(jobs[j].owner)'
      BY <1>1, <1>2, <2>2, <2>4 DEF TurnInv, Owned
    <3> QED
      BY <1>1, <1>2, <1>4, <2>2, <2>4, <3>1 DEF TurnInv, Waiting, Job
  <2>6. QueueInv'
    BY <1>1, <1>4, <2>2, <2>4 DEF QueueInv, Waiting, Job
  <2>7. stage # "wait"
    OBVIOUS
  <2>8. PlacesInv' /\ ExecutorAccounted'
    BY <1>4, <2>1, <2>7, SubmitLeavesPlaces
  <2> QED
    BY <2>3, <2>5, <2>6, <2>8 DEF IInv
<1> QED
  BY <1>3, <1>4, EvaluateDoes

\* The VQE loop ends.
LEMMA ReturnKeeps ==
    ASSUME IInv, NEW a, Return(a), running # Nobody, stage # "wait",
           Waiting => Job.status # "queued",
           UNCHANGED <<request, jobs, handle, probe, abandoned>>
    PROVE  IInv'
<1>1. executor \in Seq(Nat) /\ VqeLoop \in Nat
      /\ \A k, l \in DOMAIN executor : executor[k] = executor[l] => k = l
  BY DEF IInv, Types, PlacesInv, VqeLoop
<1>2. executor' = RemoveFirst(executor, VqeLoop) /\ Answer(running, a)
  BY DEF Return
<1>3. executor' \in Seq(Nat)
  BY <1>1, <1>2, Removed
<1>4. \A l \in DOMAIN executor' :
         executor'[l] # VqeLoop /\ \E k \in DOMAIN executor : executor'[l] = executor[k]
  BY <1>1, <1>2, Removed
<1>5. \A k, l \in DOMAIN executor' : executor'[k] = executor'[l] => k = l
  BY <1>1, <1>2, Removed
<1>6. \A k \in DOMAIN executor : executor[k] # VqeLoop => jobs[executor[k]].owner # running
  BY DEF IInv, PlacesInv
<1> QED
  BY <1>2, <1>3, <1>4, <1>5, <1>6, AnswerKeeps

\* A job changes its status and its counts.
LEMMA JobChanges ==
    ASSUME IInv, NEW j \in DOMAIN jobs, NEW r, IsJob(r),
           r.owner = jobs[j].owner, r.loop = jobs[j].loop,
           jobs' = [jobs EXCEPT ![j] = r]
    PROVE  /\ \E S : jobs' \in Seq(S)
           /\ Len(jobs') = Len(jobs)
           /\ DOMAIN jobs' = DOMAIN jobs
           /\ \A i \in DOMAIN jobs : jobs'[i] = IF i = j THEN r ELSE jobs[i]
           /\ \A i \in DOMAIN jobs : IsJob(jobs'[i])
           /\ \A i \in DOMAIN jobs : jobs'[i].owner = jobs[i].owner /\ jobs'[i].loop = jobs[i].loop
<1>1. (\E S : jobs \in Seq(S)) /\ \A i \in DOMAIN jobs : IsJob(jobs[i])
  BY DEF IInv, Types
<1>2. PICK S : jobs \in Seq(S)
  BY <1>1
<1>3. jobs \in Seq(S \cup {r})
  BY <1>2
<1>4. jobs' \in Seq(S \cup {r})
  BY <1>3
<1>5. \E T : jobs' \in Seq(T)
  BY <1>4
<1>6. Len(jobs') = Len(jobs) /\ DOMAIN jobs' = DOMAIN jobs
  BY <1>3
<1>7. \A i \in DOMAIN jobs : jobs'[i] = IF i = j THEN r ELSE jobs[i]
  BY <1>3
<1>8. \A i \in DOMAIN jobs : IsJob(jobs'[i])
  BY <1>1, <1>7
<1>9. \A i \in DOMAIN jobs : jobs'[i].owner = jobs[i].owner /\ jobs'[i].loop = jobs[i].loop
  BY <1>7
<1> QED
  BY <1>5, <1>6, <1>7, <1>8, <1>9

\* A change that starts or ends a job leaves the turn as it is, and no job is
\* queued that was not.
LEMMA TurnStays ==
    ASSUME IInv, NEW j \in DOMAIN jobs, NEW r, IsJob(r), r.status # "queued",
           r.owner = jobs[j].owner, r.loop = jobs[j].loop,
           jobs' = [jobs EXCEPT ![j] = r],
           UNCHANGED <<running, request, answer, stage, handle, probe, abandoned>>
    PROVE  TurnInv' /\ QueueInv'
<1>1. /\ DOMAIN jobs' = DOMAIN jobs
      /\ \A i \in DOMAIN jobs : jobs'[i] = IF i = j THEN r ELSE jobs[i]
      /\ \A i \in DOMAIN jobs : jobs'[i].owner = jobs[i].owner /\ jobs'[i].loop = jobs[i].loop
  BY JobChanges
<1>2. TurnInv /\ QueueInv
  BY DEF IInv
<1>3. TurnInv'
  <2>1. \A i \in DOMAIN jobs' : Owned(jobs[i].owner)'
    BY <1>1, <1>2 DEF TurnInv, Owned
  <2> QED
    BY <1>1, <1>2, <2>1 DEF TurnInv, Waiting, Job
<1>4. QueueInv'
  BY <1>1, <1>2 DEF QueueInv, Waiting
<1> QED
  BY <1>3, <1>4

\* A job begins; with the loop of the worker it takes a place.
LEMMA StartKeeps ==
    ASSUME IInv, NEW j \in DOMAIN jobs, StartJob(j)
    PROVE  IInv'
<1>1. Types /\ TurnInv /\ QueueInv /\ PlacesInv /\ ExecutorAccounted
  BY DEF IInv
<1>2. jobs[j].status = "queued" /\ j \in Nat /\ j # VqeLoop
  BY JobNumbers DEF StartJob
<1>3. PICK r : r = [jobs[j] EXCEPT !.status = "running"]
  OBVIOUS
<1>4. IsJob(jobs[j])
  BY <1>1 DEF Types
<1>5. IsJob(r) /\ r.owner = jobs[j].owner /\ r.loop = jobs[j].loop /\ r.status = "running"
  BY <1>3, <1>4 DEF IsJob
<1>6. jobs' = [jobs EXCEPT ![j] = r]
  BY <1>3 DEF StartJob
<1>7. UNCHANGED <<running, request, answer, stage, handle, probe, abandoned>>
  BY DEF StartJob, task
<1>8. \E S : jobs' \in Seq(S)
  BY <1>5, <1>6, JobChanges
<1>9. DOMAIN jobs' = DOMAIN jobs
  BY <1>5, <1>6, JobChanges
<1>10. \A i \in DOMAIN jobs : jobs'[i] = IF i = j THEN r ELSE jobs[i]
  BY <1>5, <1>6, JobChanges
<1>11. \A i \in DOMAIN jobs : IsJob(jobs'[i])
  BY <1>5, <1>6, JobChanges
<1>12. TurnInv' /\ QueueInv'
  BY <1>5, <1>6, <1>7, TurnStays
<1>13. ASSUME NEW x \in Nat, Held(x), Accounted(x)
       PROVE  Held(x)' /\ Accounted(x)'
  <2>1. CASE x = VqeLoop
    BY <1>7, <1>13, <2>1 DEF Held, Accounted
  <2>2. CASE x # VqeLoop
    <3>1. x \in DOMAIN jobs /\ x # j
      BY <1>2, <1>13, <2>2 DEF Held
    <3>2. jobs'[x] = jobs[x]
      BY <1>10, <3>1
    <3>3. Held(x)'
      BY <1>7, <1>9, <1>13, <2>2, <3>1, <3>2 DEF Held
    <3>4. Accounted(x)'
      BY <1>7, <1>13, <2>2, <3>2 DEF Accounted
    <3> QED
      BY <3>3, <3>4
  <2> QED
    BY <2>1, <2>2
<1>14. CASE jobs[j].loop = "worker"
  <2>1. executor' = Append(executor, j) /\ executor \in Seq(Nat)
    BY <1>1, <1>14 DEF StartJob, Types
  <2>2. /\ executor' \in Seq(Nat) /\ DOMAIN executor = 1 .. Len(executor)
        /\ DOMAIN executor' = 1 .. Len(executor) + 1
        /\ Len(executor) \in Nat
        /\ \A k \in DOMAIN executor : executor'[k] = executor[k]
        /\ executor'[Len(executor) + 1] = j
    BY <1>2, <2>1
  <2>3. \A k \in DOMAIN executor' : k \in DOMAIN executor \/ k = Len(executor) + 1
    BY <2>2
  <2>4. Types'
    BY <1>1, <1>7, <1>8, <1>9, <1>11, <2>2 DEF Types
  <2>5. \/ stage = "wait" /\ j = handle
        \/ j = probe /\ jobs[j].owner # running
    <3>1. CASE Waiting /\ j = handle
      BY <1>1, <1>14, <3>1 DEF TurnInv, Waiting, Job
    <3>2. CASE j = probe
      BY <1>1, <3>2, JobNumbers, OwnersDiffer DEF TurnInv
    <3> QED
      BY <1>1, <1>2, <3>1, <3>2 DEF QueueInv
  <2>6. \A k \in DOMAIN executor : executor[k] # j
    BY <1>1, <1>2 DEF PlacesInv
  <2>7. \A k, l \in DOMAIN executor' : executor'[k] = executor'[l] => k = l
    BY <1>1, <2>2, <2>3, <2>6 DEF PlacesInv
  <2>8. ASSUME NEW k \in DOMAIN executor'
        PROVE  Held(executor[k])' /\ Accounted(executor[k])'
    <3>1. CASE k \in DOMAIN executor
      <4>1. executor[k] \in Nat /\ Held(executor[k]) /\ Accounted(executor[k])
        BY <3>1, PlacesOf
      <4> QED
        BY <1>13, <2>2, <3>1, <4>1
    <3>2. CASE k = Len(executor) + 1
      <4>1. executor'[k] = j
        BY <2>2, <3>2
      <4>2. jobs'[j] = r /\ r.loop = "worker"
        BY <1>5, <1>10, <1>14
      <4>3. Held(j)'
        BY <1>5, <1>7, <1>9, <2>5, <4>2 DEF Held
      <4>4. Accounted(j)'
        BY <1>2, <1>7, <2>5 DEF Accounted
      <4> QED
        BY <4>1, <4>3, <4>4 DEF Held, Accounted
    <3> QED
      BY <2>3, <3>1, <3>2
  <2> QED
    BY <1>12, <2>4, <2>7, <2>8, PlacesMake DEF IInv
<1>15. CASE jobs[j].loop # "worker"
  <2>1. UNCHANGED executor
    BY <1>15 DEF StartJob
  <2>2. Types'
    BY <1>1, <1>7, <1>8, <1>9, <1>11, <2>1 DEF Types
  <2>3. PlacesInv' /\ ExecutorAccounted'
    BY <1>13, <2>1, SamePlaces
  <2> QED
    BY <1>12, <2>2, <2>3 DEF IInv
<1> QED
  BY <1>14, <1>15

\* A simulation ends, and with it its place, if it had one.
LEMMA EndKeeps ==
    ASSUME IInv, NEW j \in DOMAIN jobs, NEW ok \in BOOLEAN, EndJob(j, ok)
    PROVE  IInv'
<1>1. Types /\ TurnInv /\ PlacesInv /\ ExecutorAccounted
  BY DEF IInv
<1>2. j \in Nat
  BY JobNumbers
<1>3. PICK r : r = [jobs[j] EXCEPT !.status = IF ok THEN "completed" ELSE "failed",
                                   !.counts = IF ok THEN Simulate(jobs[j].circuit) ELSE None]
  OBVIOUS
<1>4. IsJob(jobs[j])
  BY <1>1 DEF Types
<1>5. IsJob(r) /\ r.owner = jobs[j].owner /\ r.loop = jobs[j].loop /\ r.status # "queued"
  BY <1>3, <1>4 DEF IsJob
<1>6. jobs' = [jobs EXCEPT ![j] = r]
  BY <1>3 DEF EndJob
<1>7. UNCHANGED <<running, request, answer, stage, handle, probe, abandoned>>
      /\ executor' = RemoveFirst(executor, j)
  BY DEF EndJob, task
<1>9. \E S : jobs' \in Seq(S)
  BY <1>5, <1>6, JobChanges
<1>10. DOMAIN jobs' = DOMAIN jobs
  BY <1>5, <1>6, JobChanges
<1>11. \A i \in DOMAIN jobs : jobs'[i] = IF i = j THEN r ELSE jobs[i]
  BY <1>5, <1>6, JobChanges
<1>12. \A i \in DOMAIN jobs : IsJob(jobs'[i])
  BY <1>5, <1>6, JobChanges
<1>13. TurnInv' /\ QueueInv'
  BY <1>5, <1>6, <1>7, TurnStays
<1>15. executor \in Seq(Nat) /\ \A k, l \in DOMAIN executor : executor[k] = executor[l] => k = l
  BY <1>1 DEF Types, PlacesInv
<1>16. executor' \in Seq(Nat)
  BY <1>2, <1>7, <1>15, Removed
<1>17. \A l \in DOMAIN executor' :
          executor'[l] # j /\ \E k \in DOMAIN executor : executor'[l] = executor[k]
  BY <1>2, <1>7, <1>15, Removed
<1>18. \A k, l \in DOMAIN executor' : executor'[k] = executor'[l] => k = l
  BY <1>2, <1>7, <1>15, Removed
<1>19. Types'
  BY <1>1, <1>7, <1>9, <1>10, <1>12, <1>16 DEF Types
<1>21. ASSUME NEW l \in DOMAIN executor'
       PROVE  Held(executor[l])' /\ Accounted(executor[l])'
  <2>1. PICK k \in DOMAIN executor : executor'[l] = executor[k] /\ executor[k] # j
    BY <1>17
  <2>2. Held(executor[k]) /\ Accounted(executor[k])
    BY PlacesOf
  <2>3. CASE executor[k] = VqeLoop
    BY <1>7, <2>1, <2>2, <2>3 DEF Held, Accounted
  <2>4. CASE executor[k] # VqeLoop
    <3>1. executor[k] \in DOMAIN jobs /\ jobs'[executor[k]] = jobs[executor[k]]
      BY <1>11, <2>1, <2>2, <2>4 DEF Held
    <3>2. Held(executor[l])'
      BY <1>7, <1>10, <2>1, <2>2, <2>4, <3>1 DEF Held
    <3>3. Accounted(executor[l])'
      BY <1>7, <2>1, <2>2, <2>4, <3>1 DEF Accounted
    <3> QED
      BY <3>2, <3>3
  <2> QED
    BY <2>3, <2>4
<1> QED
  BY <1>13, <1>18, <1>19, <1>21, PlacesMake DEF IInv

\* The calibration loop submits, and goes on to wait for it.
LEMMA ProbeStarts ==
    ASSUME IInv, StartProbe
    PROVE  IInv'
<1>1. Types /\ TurnInv /\ QueueInv
  BY DEF IInv
<1>2. /\ Submit(Calibration, "worker", GateCircuit(2, BellCircuit))
      /\ probe = NoProbe /\ probe' = Len(jobs) + 1
      /\ UNCHANGED <<running, request, answer, stage, handle, executor, abandoned>>
  BY DEF StartProbe, task
<1>3. /\ \E S : jobs' \in Seq(S)
      /\ DOMAIN jobs' = 1 .. Len(jobs) + 1
      /\ DOMAIN jobs = 1 .. Len(jobs)
      /\ Len(jobs) \in Nat
      /\ \A j \in DOMAIN jobs : jobs'[j] = jobs[j]
      /\ \A j \in DOMAIN jobs' : IsJob(jobs'[j])
      /\ jobs'[Len(jobs) + 1].owner = Calibration
  BY <1>2, SubmitKeeps
<1>4. /\ \A j \in DOMAIN jobs' : j \in DOMAIN jobs \/ j = Len(jobs) + 1
      /\ DOMAIN jobs \subseteq DOMAIN jobs'
      /\ probe' \in DOMAIN jobs'
  BY <1>2, <1>3
<1>5. Types'
  BY <1>1, <1>2, <1>3 DEF Types
<1>6. TurnInv'
  <2>1. \A j \in DOMAIN jobs' : Owned(jobs[j].owner)'
    BY <1>1, <1>2, <1>3, <1>4 DEF TurnInv, Owned
  <2>2. Waiting => handle \in DOMAIN jobs
    BY <1>1 DEF TurnInv
  <2> QED
    BY <1>1, <1>2, <1>3, <1>4, <2>1, <2>2 DEF TurnInv, Waiting, Job
<1>7. QueueInv'
  <2>1. ASSUME NEW j \in DOMAIN jobs, jobs[j].status = "queued"
        PROVE  Waiting /\ j = handle
    BY <1>1, <1>2, <2>1, JobNumbers DEF QueueInv
  <2> QED
    BY <1>2, <1>3, <1>4, <2>1 DEF QueueInv, Waiting
<1>8. PlacesInv' /\ ExecutorAccounted'
  BY <1>2, SubmitLeavesPlaces
<1> QED
  BY <1>5, <1>6, <1>7, <1>8 DEF IInv

\* It reads its result, or gives the job up while it runs.
LEMMA ProbeEnds ==
    ASSUME IInv, PollProbe \/ TimeoutProbe
    PROVE  IInv'
<1>1. Types /\ TurnInv /\ QueueInv /\ PlacesInv
  BY DEF IInv
<1>2. /\ probe # NoProbe /\ probe' = NoProbe /\ jobs[probe].status # "queued"
      /\ UNCHANGED <<running, request, answer, stage, handle, jobs, executor>>
  BY DEF PollProbe, TimeoutProbe, Finished, task
<1>3. jobs[probe].status = "running" => abandoned' = abandoned \cup {probe}
  BY DEF PollProbe, TimeoutProbe, Finished
<1>4. abandoned \subseteq abandoned'
  BY DEF PollProbe, TimeoutProbe
<1>5. Types'
  BY <1>1, <1>2 DEF Types
<1>6. TurnInv'
  BY <1>1, <1>2 DEF TurnInv, Owned, Waiting, Job
<1>7. QueueInv'
  BY <1>1, <1>2 DEF QueueInv, Waiting
<1>8. ASSUME NEW x \in Nat, Held(x), Accounted(x)
      PROVE  Held(x)' /\ Accounted(x)'
  <2>1. Held(x)'
    BY <1>2, <1>8 DEF Held
  <2>2. Accounted(x)'
    <3>1. CASE x = VqeLoop
      BY <1>2, <1>8, <3>1 DEF Accounted
    <3>2. CASE x # VqeLoop /\ x = probe
      BY <1>1, <1>2, <1>3, <1>8, <3>2 DEF Held, Accounted, TurnInv
    <3>3. CASE x # VqeLoop /\ x # probe
      BY <1>2, <1>4, <1>8, <3>3 DEF Accounted
    <3> QED
      BY <3>1, <3>2, <3>3
  <2> QED
    BY <2>1, <2>2
<1>9. PlacesInv' /\ ExecutorAccounted'
  BY <1>2, <1>8, SamePlaces
<1> QED
  BY <1>5, <1>6, <1>7, <1>9 DEF IInv

\* A task starts with a job, with an answer, or with the VQE loop.
LEMMA TakeDoes ==
    ASSUME NEW e, NEW r, RunGrover(e, r) \/ RunSat(e, r) \/ RunQpe(e, r) \/ RunVqe(e, r)
    PROVE  \/ (\E circuit : Launch(e, circuit)) /\ UNCHANGED executor
           \/ (\E a : Answer(e, a)) /\ UNCHANGED <<jobs, handle, executor>>
           \/ RunVqe(e, r)
<1>1. CASE RunGrover(e, r)
  BY <1>1 DEF RunGrover
<1>2. CASE RunSat(e, r)
  BY <1>2 DEF RunSat
<1>3. CASE RunQpe(e, r)
  BY <1>3 DEF RunQpe
<1> QED
  BY <1>1, <1>2, <1>3

\* A task is taken by a worker that is idle: no place is its experiment's.
LEMMA TakeKeeps ==
    ASSUME IInv, NEW e \in Experiments, NEW r \in Requests[e], ExecuteTask(e, r)
    PROVE  IInv'
<1>1. Types /\ TurnInv /\ QueueInv /\ PlacesInv /\ ExecutorAccounted
  BY DEF IInv
<1>2. /\ running = Nobody /\ stage = "idle" /\ request[e] = Nothing /\ r # Nothing
      /\ request' = [request EXCEPT ![e] = r] /\ e # Nobody /\ e # Calibration
      /\ UNCHANGED <<probe, abandoned>>
  BY <1>1, ExecutionAssumption, OwnersDiffer DEF ExecuteTask, TurnInv
<1>3. \A x \in Experiments : request'[x] = IF x = e THEN r ELSE request[x]
  BY <1>1, <1>2 DEF Types
<1>4. request' = [x \in Experiments |-> request'[x]]
  BY <1>1, <1>2 DEF Types
<1>5. \A j \in DOMAIN jobs :
         /\ jobs[j].owner # e /\ Owned(jobs[j].owner)
         /\ jobs[j].owner # Calibration => request'[jobs[j].owner] # Nothing
  BY <1>1, <1>2, <1>3 DEF TurnInv, Owned
<1>6. DOMAIN jobs = 1 .. Len(jobs) /\ Len(jobs) \in Nat
  BY JobNumbers
<1>7. \A j \in DOMAIN jobs : jobs[j].status = "queued" => j = probe
  BY <1>1, <1>2 DEF QueueInv, Waiting
<1>8. ASSUME NEW circuit, Launch(e, circuit), UNCHANGED executor
      PROVE  IInv'
  <2>1. /\ Submit(e, "worker", circuit) /\ running' = e /\ stage' = "wait" /\ UNCHANGED answer
        /\ handle' = Len(jobs) + 1
    BY <1>8 DEF Launch
  <2>2. /\ \E S : jobs' \in Seq(S)
        /\ DOMAIN jobs' = 1 .. Len(jobs) + 1
        /\ \A j \in DOMAIN jobs : jobs'[j] = jobs[j]
        /\ \A j \in DOMAIN jobs' : IsJob(jobs'[j])
        /\ jobs'[Len(jobs) + 1].owner = e
        /\ jobs'[Len(jobs) + 1].loop = "worker"
    BY <2>1, SubmitKeeps
  <2>3. /\ \A j \in DOMAIN jobs' : j \in DOMAIN jobs \/ j = Len(jobs) + 1
        /\ DOMAIN jobs \subseteq DOMAIN jobs'
        /\ handle' \in DOMAIN jobs'
    BY <1>6, <2>1, <2>2
  <2>4. Types'
    BY <1>1, <1>4, <1>8, <2>1, <2>2 DEF Types
  <2>5. \A j \in DOMAIN jobs' : Owned(jobs[j].owner)'
    BY <1>2, <1>3, <1>5, <2>2, <2>3 DEF Owned
  <2>6. TurnInv'
    BY <1>1, <1>2, <1>3, <2>1, <2>2, <2>3, <2>5 DEF TurnInv, Waiting, Job
  <2>7. QueueInv'
    BY <1>2, <1>7, <2>1, <2>2, <2>3 DEF QueueInv, Waiting
  <2>8. PlacesInv' /\ ExecutorAccounted'
    BY <1>2, <1>5, <1>8, <2>1, SubmitLeavesPlaces
  <2> QED
    BY <2>4, <2>6, <2>7, <2>8 DEF IInv
<1>9. ASSUME NEW a, Answer(e, a), UNCHANGED <<jobs, handle, executor>>
      PROVE  IInv'
  <2>1. running' = Nobody /\ stage' = "idle" /\ answer' = [answer EXCEPT ![e] = a]
    BY <1>9 DEF Answer
  <2>2. \A x \in Experiments : answer'[x] = IF x = e THEN a ELSE answer[x]
    BY <1>1, <2>1 DEF Types
  <2>3. answer' = [x \in Experiments |-> answer'[x]]
    BY <1>1, <2>1 DEF Types
  <2>4. Types'
    BY <1>1, <1>4, <1>9, <2>1, <2>3 DEF Types
  <2>5. TurnInv'
    BY <1>1, <1>2, <1>5, <1>9, <2>1 DEF TurnInv, Owned, Waiting
  <2>6. QueueInv'
    BY <1>2, <1>7, <1>9 DEF QueueInv
  <2>7. ASSUME NEW x \in Nat, Held(x), Accounted(x)
        PROVE  Held(x)' /\ Accounted(x)'
    <3>1. x # VqeLoop
      BY <1>2, <2>7 DEF Accounted
    <3>2. x \in DOMAIN jobs
      BY <2>7, <3>1 DEF Held
    <3>3. Held(x)'
      BY <1>2, <1>9, <2>1, <2>7, <3>2, OwnersDiffer DEF Held
    <3>4. jobs[x].owner # Calibration => answer'[jobs[x].owner] = answer[jobs[x].owner]
      BY <1>5, <2>2, <3>2 DEF Owned
    <3>5. Accounted(x)'
      BY <1>2, <1>9, <2>7, <3>1, <3>4 DEF Accounted
    <3> QED
      BY <3>3, <3>5
  <2>8. PlacesInv' /\ ExecutorAccounted'
    BY <1>9, <2>7, SamePlaces
  <2> QED
    BY <2>4, <2>5, <2>6, <2>8 DEF IInv
<1>10. ASSUME RunVqe(e, r)
       PROVE  IInv'
  <2>1. /\ running' = e /\ stage' = "thread" /\ executor' = Append(executor, VqeLoop)
        /\ UNCHANGED <<answer, jobs, handle>>
    BY <1>10 DEF RunVqe
  <2>2. executor \in Seq(Nat) /\ VqeLoop \in Nat
    BY <1>1 DEF Types, VqeLoop
  <2>3. /\ executor' \in Seq(Nat) /\ DOMAIN executor = 1 .. Len(executor)
        /\ DOMAIN executor' = 1 .. Len(executor) + 1
        /\ Len(executor) \in Nat
        /\ \A k \in DOMAIN executor : executor'[k] = executor[k]
        /\ executor'[Len(executor) + 1] = VqeLoop
    BY <2>1, <2>2
  <2>4. \A k \in DOMAIN executor' : k \in DOMAIN executor \/ k = Len(executor) + 1
    BY <2>3
  <2>5. Types'
    BY <1>1, <1>4, <2>1, <2>3 DEF Types
  <2>6. TurnInv'
    BY <1>1, <1>2, <1>3, <1>5, <2>1 DEF TurnInv, Owned, Waiting
  <2>7. QueueInv'
    BY <1>2, <1>7, <2>1 DEF QueueInv
  <2>8. \A k \in DOMAIN executor : Held(executor[k]) /\ Accounted(executor[k]) /\ executor[k] # VqeLoop
    BY <1>2, PlacesOf DEF Accounted
  <2>9. \A k, l \in DOMAIN executor' : executor'[k] = executor'[l] => k = l
    BY <1>1, <2>3, <2>4, <2>8 DEF PlacesInv
  <2>10. ASSUME NEW k \in DOMAIN executor'
         PROVE  Held(executor[k])' /\ Accounted(executor[k])'
    <3>1. CASE k \in DOMAIN executor
      <4>1. executor'[k] = executor[k] /\ Held(executor[k]) /\ Accounted(executor[k])
            /\ executor[k] # VqeLoop
        BY <2>3, <2>8, <3>1
      <4>2. executor[k] \in DOMAIN jobs
        BY <4>1 DEF Held
      <4>3. Held(executor[k])'
        BY <1>5, <2>1, <4>1, <4>2 DEF Held
      <4>4. Accounted(executor[k])'
        BY <1>2, <2>1, <4>1 DEF Accounted
      <4> QED
        BY <4>3, <4>4
    <3>2. CASE k = Len(executor) + 1
      BY <2>1, <2>3, <3>2 DEF Held, Accounted
    <3> QED
      BY <2>4, <3>1, <3>2
  <2> QED
    BY <2>5, <2>6, <2>7, <2>9, <2>10, PlacesMake DEF IInv
<1>11. \/ (\E circuit : Launch(e, circuit)) /\ UNCHANGED executor
       \/ (\E a : Answer(e, a)) /\ UNCHANGED <<jobs, handle, executor>>
       \/ RunVqe(e, r)
  BY TakeDoes DEF ExecuteTask
<1> QED
  BY <1>8, <1>9, <1>10, <1>11

\* The worker answers what it waited for, or gives it up.
LEMMA WaitEnds ==
    ASSUME IInv, Poll \/ Timeout
    PROVE  IInv'
<1>1. Types /\ TurnInv /\ PlacesInv /\ ExecutorAccounted
  BY DEF IInv
<1>2. /\ stage = "wait" /\ running # Nobody /\ Job.status # "queued"
      /\ UNCHANGED <<request, jobs, handle, probe, executor>>
  BY <1>1 DEF Poll, Timeout, TurnInv, Finished, Job
<1>3. executor' \in Seq(Nat) /\ \A k, l \in DOMAIN executor' : executor'[k] = executor'[l] => k = l
  BY <1>1, <1>2 DEF Types, PlacesInv
<1>4. \A l \in DOMAIN executor' :
         executor'[l] # VqeLoop /\ \E k \in DOMAIN executor : executor'[l] = executor[k]
  BY <1>1, <1>2 DEF ExecutorAccounted
<1>5. CASE Poll
  <2>1. PICK a : Answer(running, a)
    BY <1>5 DEF Poll
  <2>2. Job.status # "running" /\ UNCHANGED abandoned
    BY <1>5 DEF Poll, Finished, Job
  <2>3. \A k \in DOMAIN executor : executor[k] # VqeLoop => jobs[executor[k]].owner # running
    BY <1>1, <2>2 DEF PlacesInv, Job
  <2> QED
    BY <1>2, <1>3, <1>4, <2>1, <2>2, <2>3, AnswerKeeps
<1>6. CASE Timeout
  <2>1. Answer(running, Failed) /\ abandoned' = abandoned \cup {handle}
    BY <1>6 DEF Timeout
  <2> QED
    BY <1>2, <1>3, <1>4, <2>1, AnswerKeeps
<1> QED
  BY <1>5, <1>6

\* A term is given up; the loop stays where it is.
LEMMA TermIsGivenUp ==
    ASSUME IInv, TimeoutTerm
    PROVE  IInv'
<1>1. Types /\ TurnInv /\ QueueInv
  BY DEF IInv
<1>2. /\ stage = "term" /\ stage' = "drain" /\ Job.status # "queued"
      /\ UNCHANGED <<running, request, answer, jobs, handle, probe, executor, abandoned>>
  BY DEF TimeoutTerm
<1>3. Types'
  BY <1>1, <1>2 DEF Types
<1>4. TurnInv'
  BY <1>1, <1>2 DEF TurnInv, Owned, Waiting
<1>5. QueueInv'
  BY <1>1, <1>2 DEF QueueInv, Waiting, Job
<1>6. \A x \in Nat : Held(x) /\ Accounted(x) => Held(x)' /\ Accounted(x)'
  BY <1>2 DEF Held, Accounted
<1>7. PlacesInv' /\ ExecutorAccounted'
  BY <1>2, <1>6, SamePlaces
<1> QED
  BY <1>3, <1>4, <1>5, <1>7 DEF IInv

\* Every step.
LEMMA ExecStep == IInv /\ [Next]_vars => IInv'
<1> SUFFICES ASSUME IInv, [Next]_vars PROVE IInv'
  OBVIOUS
<1>1. stage \in {"thread", "cost", "term", "drain"} => running # Nobody /\ stage # "wait"
  BY DEF IInv, TurnInv
<1>2. ASSUME NEW e \in Experiments, NEW r \in Requests[e], ExecuteTask(e, r) PROVE IInv'
  BY <1>2, TakeKeeps
<1>3. ASSUME NEW j \in DOMAIN jobs, StartJob(j) PROVE IInv'
  BY <1>3, StartKeeps
<1>4. CASE Simulation
  BY <1>4, EndKeeps DEF Simulation
<1>5. CASE Poll \/ Timeout
  BY <1>5, WaitEnds
<1>6. CASE StartVqe
  <2>1. stage = "thread" /\ ~Waiting /\ UNCHANGED <<request, probe, abandoned>>
    BY <1>6 DEF StartVqe, Waiting
  <2>2. \/ /\ \E params, k, total : Evaluate(params, k, total)
           /\ UNCHANGED <<running, answer, executor>>
        \/ Return(Failed) /\ UNCHANGED <<jobs, handle>>
    BY <1>6 DEF StartVqe
  <2> QED
    BY <1>1, <2>1, <2>2, EvaluateKeeps, ReturnKeeps
<1>7. CASE NextCost
  <2>1. stage = "cost" /\ ~Waiting /\ UNCHANGED <<running, request, answer, probe, executor, abandoned>>
    BY <1>7 DEF NextCost, Waiting
  <2>2. \E params, k, total : Evaluate(params, k, total)
    BY <1>7 DEF NextCost
  <2> QED
    BY <2>1, <2>2, EvaluateKeeps
<1>8. CASE PollTerm
  <2>1. stage = "term" /\ Job.status # "queued" /\ UNCHANGED <<request, probe, abandoned>>
    BY <1>8 DEF PollTerm, Finished, Job
  <2>2. \/ /\ \E params, k, total : Evaluate(params, k, total)
           /\ UNCHANGED <<running, answer, executor>>
        \/ Return(Failed) /\ UNCHANGED <<jobs, handle>>
    BY <1>8 DEF PollTerm
  <2> QED
    BY <1>1, <2>1, <2>2, EvaluateKeeps, ReturnKeeps
<1>9. CASE TimeoutTerm
  BY <1>9, TermIsGivenUp
<1>10. CASE Drain
  <2>1. /\ stage = "drain" /\ ~Waiting /\ Return(Failed)
        /\ UNCHANGED <<request, jobs, handle, probe, abandoned>>
    BY <1>10 DEF Drain, Waiting
  <2> QED
    BY <1>1, <2>1, ReturnKeeps
<1>11. CASE Finish
  <2>1. /\ stage = "cost" /\ ~Waiting /\ UNCHANGED <<request, jobs, handle, probe, abandoned>>
        /\ \E a : Return(a)
    BY <1>11 DEF Finish, Waiting
  <2> QED
    BY <1>1, <2>1, ReturnKeeps
<1>12. CASE StartProbe \/ PollProbe \/ TimeoutProbe
  BY <1>12, ProbeStarts, ProbeEnds
<1>13. CASE UNCHANGED vars
  <2>1. UNCHANGED <<running, request, answer, stage, jobs, handle, probe, executor, abandoned>>
    BY <1>13 DEF vars, task
  <2>2. Types' /\ TurnInv' /\ QueueInv' /\ PlacesInv' /\ ExecutorAccounted'
    BY <2>1 DEF IInv, Types, TurnInv, Owned, QueueInv, PlacesInv, ExecutorAccounted, Waiting, Job
  <2> QED
    BY <2>2 DEF IInv
<1> QED
  BY <1>2, <1>3, <1>4, <1>5, <1>6, <1>7, <1>8, <1>9, <1>10, <1>11, <1>12, <1>13 DEF Next

\* aer_backend.py:73-99 with run_experiment.py:55-71 and calibration.py:98-107, for
\* any requests, threads, probes and failing simulations: the executor holds the
\* VQE loop that runs, the job the task waits for, the job the calibration loop
\* waits for, and simulations whose callers gave them up.
THEOREM ExecutorIsGivenBack == Spec => []ExecutorAccounted
<1>1. IInv => ExecutorAccounted
  BY DEF IInv
<1> QED
  BY <1>1, ExecInit, ExecStep, PTL DEF Spec

--------------------------------------------------------------------------------
(* Phase estimation.                                                           *)

\* A set of numbers that holds 0 and every successor holds them all: a least one
\* outside it would have a predecessor inside.
LEMMA NumberInduction ==
    ASSUME NEW S \in SUBSET Nat, 0 \in S, \A n \in S : n + 1 \in S
    PROVE  S = Nat
<1>1. ASSUME S # Nat PROVE FALSE
  <2> DEFINE T == Nat \ S
  <2>1. T # {} /\ T \subseteq Nat
    BY <1>1
  <2>2. IsWellFoundedOn(OpToRel(<, Nat), Nat)
    BY NatLessThanWellFounded
  <2> HIDE DEF T
  <2>3. PICK x \in T : \A y \in T : ~(<<y, x>> \in OpToRel(<, Nat))
    BY <2>1, <2>2, WFMin
  <2>4. \A y \in T : ~(y < x)
    BY <2>1, <2>3 DEF OpToRel
  <2>5. x \in Nat /\ x \notin S
    BY <2>1 DEF T
  <2>6. x # 0
    BY <2>5
  <2>7. x - 1 \in Nat /\ x - 1 < x
    BY <2>5, <2>6
  <2>8. x - 1 \in S
    BY <2>4, <2>7 DEF T
  <2>9. (x - 1) + 1 \in S
    BY <2>8
  <2> QED
    BY <2>5, <2>9
<1> QED
  BY <1>1

--------------------------------------------------------------------------------
(* Recursive functions.                                                        *)

\* A register, and each gate applied to what the gates before it left.
IsRun(f, t, reg, gates, n) ==
    /\ f[0] = reg
    /\ \A k \in 1 .. n : f[k] = Apply(t, f[k - 1], gates[k])

\* A value is handed on as it is.
LEMMA HandedOn ==
    ASSUME NEW t, NEW v, NEW g
    PROVE  With(v, LAMBDA r : Apply(t, r, g)) = Apply(t, v, g)
  BY DEF With

\* Gates, which its recursive equation defines, is the end of a run.
LEMMA GatesRun ==
    ASSUME NEW t, NEW reg, NEW gates, Len(gates) \in Nat
    PROVE  \E f : IsRun(f, t, reg, gates, Len(gates)) /\ Gates(t, reg, gates) = f[Len(gates)]
<1> DEFINE N == Len(gates)
           Eq(f, n) == f = [i \in 0 .. n |->
               IF i = 0 THEN reg ELSE Apply(t, f[i - 1], gates[i])]
           S == {n \in Nat : \E f : Eq(f, n)}
<1>1. 0 \in S
  <2>1. Eq([i \in 0 .. 0 |-> reg], 0)
    OBVIOUS
  <2> QED
    BY <2>1
<1>2. ASSUME NEW n \in S PROVE n + 1 \in S
  <2>1. PICK f : Eq(f, n)
    OBVIOUS
  <2> DEFINE g == [i \in 0 .. n + 1 |-> IF i = n + 1 THEN Apply(t, f[n], gates[n + 1]) ELSE f[i]]
  <2>2. \A i \in 0 .. n : g[i] = f[i]
    OBVIOUS
  <2>3. g[n + 1] = Apply(t, g[n], gates[n + 1])
    BY <2>2
  <2>4. \A i \in 0 .. n + 1 : g[i] = IF i = 0 THEN reg ELSE Apply(t, g[i - 1], gates[i])
    <3>1. TAKE i \in 0 .. n + 1
    <3>2. CASE i = n + 1
      BY <2>3, <3>2
    <3>3. CASE i # n + 1
      <4>1. i \in 0 .. n /\ (i # 0 => i - 1 \in 0 .. n)
        BY <3>3
      <4>2. f[i] = IF i = 0 THEN reg ELSE Apply(t, f[i - 1], gates[i])
        BY <2>1, <4>1
      <4> QED
        BY <2>2, <4>1, <4>2
    <3> QED
      BY <3>2, <3>3
  <2>5. g = [i \in 0 .. n + 1 |-> g[i]]
    OBVIOUS
  <2> HIDE DEF g
  <2>6. Eq(g, n + 1)
    BY <2>4, <2>5
  <2>7. n + 1 \in Nat
    OBVIOUS
  <2> HIDE DEF Eq
  <2> QED
    BY <2>6, <2>7
<1>3. S \in SUBSET Nat
  OBVIOUS
<1>4. N \in S
  <2> HIDE DEF S
  <2> QED
    BY <1>1, <1>2, <1>3, NumberInduction
<1>5. PICK f : Eq(f, N)
  BY <1>4
<1> DEFINE W(s) == [i \in 0 .. N |->
        IF i = 0 THEN reg ELSE With(s[i - 1], LAMBDA r : Apply(t, r, gates[i]))]
<1>6. \A s : W(s) = [i \in 0 .. N |-> IF i = 0 THEN reg ELSE Apply(t, s[i - 1], gates[i])]
  BY HandedOn
<1>7. f = W(f)
  BY <1>5, <1>6
<1> DEFINE state == CHOOSE s : s = W(s)
<1>8. state = W(state)
  BY <1>7
<1>9. Gates(t, reg, gates) = state[N]
  BY DEF Gates
<1>10. \A i \in 0 .. N : state[i] = IF i = 0 THEN reg ELSE Apply(t, state[i - 1], gates[i])
  <2> HIDE DEF state, W
  <2>1. state = [i \in 0 .. N |-> IF i = 0 THEN reg ELSE Apply(t, state[i - 1], gates[i])]
    BY <1>6, <1>8
  <2> QED
    BY <2>1
<1>11. IsRun(state, t, reg, gates, N)
  <2> HIDE DEF state
  <2> QED
    BY <1>10 DEF IsRun
<1> QED
  BY <1>9, <1>11

\* There is one run: a register for each gate that follows from the one before
\* ends with what the gates do.
LEMMA GatesReach ==
    ASSUME NEW t, NEW reg, NEW gates, Len(gates) \in Nat,
           NEW f, IsRun(f, t, reg, gates, Len(gates))
    PROVE  Gates(t, reg, gates) = f[Len(gates)]
<1>1. PICK g : IsRun(g, t, reg, gates, Len(gates)) /\ Gates(t, reg, gates) = g[Len(gates)]
  BY GatesRun
<1> DEFINE S == {n \in Nat : n <= Len(gates) => f[n] = g[n]}
<1>2. 0 \in S
  BY <1>1 DEF IsRun
<1>3. ASSUME NEW n \in S PROVE n + 1 \in S
  <2>1. CASE n + 1 <= Len(gates)
    <3>1. f[n] = g[n] /\ n + 1 \in 1 .. Len(gates) /\ (n + 1) - 1 = n
      BY <2>1
    <3> QED
      BY <1>1, <3>1 DEF IsRun
  <2> QED
    BY <2>1
<1>4. S \in SUBSET Nat
  OBVIOUS
<1>5. Len(gates) \in S
  <2> HIDE DEF S
  <2> QED
    BY <1>2, <1>3, <1>4, NumberInduction
<1> QED
  BY <1>1, <1>5

\* Gates one sequence after the other.
LEMMA GatesSplit ==
    ASSUME NEW t, NEW reg, NEW G, NEW a \in Seq(G), NEW b \in Seq(G)
    PROVE  Gates(t, reg, a \o b) = Gates(t, Gates(t, reg, a), b)
<1>1. PICK f : IsRun(f, t, reg, a, Len(a)) /\ Gates(t, reg, a) = f[Len(a)]
  BY GatesRun
<1>2. PICK g : IsRun(g, t, f[Len(a)], b, Len(b)) /\ Gates(t, f[Len(a)], b) = g[Len(b)]
  BY GatesRun
<1>3. PICK c : c = a \o b
  OBVIOUS
<1>4. /\ c \in Seq(G) /\ Len(c) = Len(a) + Len(b) /\ Len(a) \in Nat /\ Len(b) \in Nat
      /\ \A k \in 1 .. Len(a) + Len(b) : c[k] = IF k <= Len(a) THEN a[k] ELSE b[k - Len(a)]
  BY <1>3
<1> DEFINE h == [k \in 0 .. Len(a) + Len(b) |-> IF k <= Len(a) THEN f[k] ELSE g[k - Len(a)]]
<1>5. h[0] = reg
  BY <1>1, <1>4 DEF IsRun
<1>6. ASSUME NEW k \in 1 .. Len(a) + Len(b)
      PROVE  h[k] = Apply(t, h[k - 1], c[k])
  <2>1. CASE k <= Len(a)
    <3>1. k \in 1 .. Len(a) /\ k - 1 \in 0 .. Len(a)
      BY <1>4, <2>1
    <3>2. h[k] = f[k] /\ h[k - 1] = f[k - 1]
      BY <1>4, <3>1
    <3>3. c[k] = a[k]
      BY <1>4, <3>1
    <3>4. f[k] = Apply(t, f[k - 1], a[k])
      BY <1>1, <3>1 DEF IsRun
    <3> HIDE DEF h
    <3> QED
      BY <3>2, <3>3, <3>4
  <2>2. CASE k = Len(a) + 1
    <3>1. h[k - 1] = f[Len(a)] /\ h[k] = g[1] /\ c[k] = b[1] /\ 1 \in 1 .. Len(b)
      BY <1>4, <2>2
    <3>2. g[1] = Apply(t, g[1 - 1], b[1]) /\ g[0] = f[Len(a)]
      BY <1>2, <3>1 DEF IsRun
    <3> QED
      BY <3>1, <3>2
  <2>3. CASE k > Len(a) + 1
    <3>1. PICK l \in 1 .. Len(b) : l = k - Len(a)
      BY <1>4, <2>3
    <3>2. h[k - 1] = g[l - 1] /\ h[k] = g[l] /\ c[k] = b[l]
      BY <1>4, <2>3, <3>1
    <3> QED
      BY <1>2, <3>2 DEF IsRun
  <2> QED
    BY <1>4, <2>1, <2>2, <2>3
<1>7. h[Len(c)] = g[Len(b)]
  <2>1. CASE Len(b) = 0
    BY <1>2, <1>4, <2>1 DEF IsRun
  <2>2. CASE Len(b) # 0
    BY <1>4, <2>2
  <2> QED
    BY <2>1, <2>2
<1> HIDE DEF h
<1>8. IsRun(h, t, reg, c, Len(c))
  BY <1>4, <1>5, <1>6 DEF IsRun
<1>10. Len(c) \in Nat
  BY <1>4
<1>9. Gates(t, reg, c) = h[Len(c)]
  BY <1>8, <1>10, GatesReach
<1> QED
  BY <1>1, <1>2, <1>3, <1>7, <1>9

\* FlattenSeq, which its recursive equation defines, joins one sequence after the
\* other.
LEMMA FlattenJoins ==
    ASSUME NEW T, NEW s \in Seq(Seq(T)), Len(s) # 0
    PROVE  \E f : /\ f[1] = s[1]
                  /\ \A i \in 1 .. Len(s) : i # 1 => f[i] = f[i - 1] \o s[i]
                  /\ \A i \in 1 .. Len(s) : f[i] \in Seq(T)
                  /\ FlattenSeq(s) = f[Len(s)]
<1> DEFINE N == Len(s)
           W(f, n) == [i \in 1 .. n |-> IF i = 1 THEN s[i] ELSE f[i - 1] \o s[i]]
           Eq(f, n) == f = W(f, n)
           S == {n \in Nat : \E f : Eq(f, n)}
<1>1. 0 \in S
  <2>1. Eq([i \in 1 .. 0 |-> s], 0)
    OBVIOUS
  <2> QED
    BY <2>1
<1>2. ASSUME NEW n \in S PROVE n + 1 \in S
  <2>1. PICK f : Eq(f, n)
    OBVIOUS
  <2> DEFINE g == [i \in 1 .. n + 1 |->
                      IF i # n + 1 THEN f[i] ELSE IF i = 1 THEN s[i] ELSE f[n] \o s[i]]
  <2>2. \A i \in 1 .. n : g[i] = f[i]
    OBVIOUS
  <2>3. ASSUME NEW i \in 1 .. n + 1
        PROVE  g[i] = IF i = 1 THEN s[i] ELSE g[i - 1] \o s[i]
    <3>1. CASE i = n + 1
      BY <2>2, <3>1
    <3>2. CASE i # n + 1
      <4>1. i \in 1 .. n /\ (i # 1 => i - 1 \in 1 .. n)
        BY <3>2
      <4>2. f[i] = IF i = 1 THEN s[i] ELSE f[i - 1] \o s[i]
        BY <2>1, <4>1
      <4> QED
        BY <2>2, <4>1, <4>2
    <3> QED
      BY <3>1, <3>2
  <2>4. g = [i \in 1 .. n + 1 |-> g[i]]
    OBVIOUS
  <2>5. n + 1 \in Nat
    OBVIOUS
  <2> HIDE DEF g
  <2>6. Eq(g, n + 1)
    BY <2>3, <2>4
  <2> HIDE DEF Eq
  <2> QED
    BY <2>5, <2>6
<1>3. S \in SUBSET Nat
  OBVIOUS
<1>4. N \in S
  <2>1. N \in Nat
    OBVIOUS
  <2> HIDE DEF S
  <2> QED
    BY <1>1, <1>2, <1>3, <2>1, NumberInduction
<1>5. PICK f : Eq(f, N)
  BY <1>4
<1> DEFINE flatten == CHOOSE g : g = W(g, N)
<1>6. flatten = W(flatten, N)
  BY <1>5
<1>7. FlattenSeq(s) = flatten[N]
  BY DEF FlattenSeq
<1>8. \A i \in 1 .. N : flatten[i] = IF i = 1 THEN s[i] ELSE flatten[i - 1] \o s[i]
  <2> HIDE DEF flatten
  <2> QED
    BY <1>6
<1> HIDE DEF flatten
<1> DEFINE R == {n \in Nat : n + 1 \in 1 .. N => flatten[n + 1] \in Seq(T)}
<1>9. 0 \in R
  BY <1>8
<1>10. ASSUME NEW n \in R PROVE n + 1 \in R
  <2>1. CASE (n + 1) + 1 \in 1 .. N
    <3>1. n + 1 \in 1 .. N /\ ((n + 1) + 1) - 1 = n + 1 /\ (n + 1) + 1 # 1
      BY <2>1
    <3>2. flatten[n + 1] \in Seq(T) /\ s[(n + 1) + 1] \in Seq(T)
      BY <2>1, <3>1
    <3>3. flatten[(n + 1) + 1] = flatten[n + 1] \o s[(n + 1) + 1]
      BY <1>8, <2>1, <3>1
    <3>4. flatten[n + 1] \o s[(n + 1) + 1] \in Seq(T)
      BY <3>2
    <3>5. n + 1 \in Nat
      OBVIOUS
    <3> QED
      BY <3>3, <3>4, <3>5
  <2> QED
    BY <2>1
<1>11. R \in SUBSET Nat
  OBVIOUS
<1>12. R = Nat
  <2> HIDE DEF R
  <2> QED
    BY <1>9, <1>10, <1>11, NumberInduction
<1>13. ASSUME NEW i \in 1 .. N PROVE flatten[i] \in Seq(T)
  <2>1. PICK n \in R : i = n + 1
    <3>1. i - 1 \in Nat /\ i = (i - 1) + 1
      OBVIOUS
    <3> HIDE DEF R
    <3> QED
      BY <1>12, <3>1
  <2> QED
    BY <2>1
<1>14. flatten[1] = s[1] /\ \A i \in 1 .. N : i # 1 => flatten[i] = flatten[i - 1] \o s[i]
  <2>1. 1 \in 1 .. N
    OBVIOUS
  <2> HIDE DEF N
  <2> QED
    BY <1>8, <2>1
<1> QED
  BY <1>7, <1>13, <1>14

\* A sequence of blocks takes a register through what each block makes of it.
LEMMA BlocksReach ==
    ASSUME NEW t, NEW G, NEW blocks \in Seq(Seq(G)), Len(blocks) # 0, NEW r,
           \A b \in 1 .. Len(blocks) : Gates(t, r[b - 1], blocks[b]) = r[b]
    PROVE  /\ FlattenSeq(blocks) \in Seq(G)
           /\ Gates(t, r[0], FlattenSeq(blocks)) = r[Len(blocks)]
<1>1. PICK f : /\ f[1] = blocks[1]
               /\ \A i \in 1 .. Len(blocks) : i # 1 => f[i] = f[i - 1] \o blocks[i]
               /\ \A i \in 1 .. Len(blocks) : f[i] \in Seq(G)
               /\ FlattenSeq(blocks) = f[Len(blocks)]
  BY FlattenJoins
<1> DEFINE S == {n \in Nat : n + 1 \in 1 .. Len(blocks) => Gates(t, r[0], f[n + 1]) = r[n + 1]}
<1>2. 0 \in S
  BY <1>1
<1>3. ASSUME NEW n \in S PROVE n + 1 \in S
  <2>1. CASE (n + 1) + 1 \in 1 .. Len(blocks)
    <3>1. PICK i \in 1 .. Len(blocks) : i = (n + 1) + 1
      BY <2>1
    <3>2. n + 1 \in 1 .. Len(blocks) /\ i - 1 = n + 1 /\ i # 1
      BY <3>1
    <3>6. blocks[i] \in Seq(G)
      OBVIOUS
    <3>7. f[i] = f[i - 1] \o blocks[i]
      BY <1>1, <3>2
    <3>3. f[n + 1] \in Seq(G) /\ blocks[i] \in Seq(G) /\ f[i] = f[n + 1] \o blocks[i]
      BY <1>1, <3>2, <3>6, <3>7
    <3>4. Gates(t, r[0], f[i]) = Gates(t, Gates(t, r[0], f[n + 1]), blocks[i])
      BY <3>3, GatesSplit
    <3>5. Gates(t, r[0], f[n + 1]) = r[i - 1]
      BY <3>2
    <3> QED
      BY <3>1, <3>4, <3>5
  <2> QED
    BY <2>1
<1>4. S \in SUBSET Nat
  OBVIOUS
<1>5. S = Nat
  <2> HIDE DEF S
  <2> QED
    BY <1>2, <1>3, <1>4, NumberInduction
<1>6. Len(blocks) \in Nat /\ Len(blocks) - 1 \in S
  <2>1. Len(blocks) - 1 \in Nat /\ Len(blocks) \in Nat
    OBVIOUS
  <2> HIDE DEF S
  <2> QED
    BY <1>5, <2>1
<1>7. Gates(t, r[0], f[Len(blocks)]) = r[Len(blocks)]
  BY <1>6
<1> QED
  BY <1>1, <1>7


\* Division with remainder.
LEMMA Division ==
    ASSUME NEW a \in Int, NEW n \in Nat \ {0}
    PROVE  /\ a \div n \in Int /\ a % n \in 0 .. n - 1
           /\ a = n * (a \div n) + (a % n)
OBVIOUS

\* A multiple of n between -n and n is 0.
LEMMA SmallMultiple ==
    ASSUME NEW n \in Nat \ {0}, NEW d \in Int, NEW e \in Int, n * d = e, -n < e, e < n
    PROVE  d = 0
<1>1. CASE d >= 1
  <2>1. n * d >= n
    <3>1. n * d = n * (d - 1) + n
      OBVIOUS
    <3>2. n * (d - 1) >= 0
      BY <1>1
    <3> QED
      BY <3>1, <3>2
  <2> QED
    BY <2>1
<1>2. CASE d <= -1
  <2>1. n * d <= -n
    <3>1. n * d = -n - n * (-1 - d)
      OBVIOUS
    <3>2. n * (-1 - d) >= 0
      BY <1>2
    <3> QED
      BY <3>1, <3>2
  <2> QED
    BY <2>1
<1> QED
  BY <1>1, <1>2

\* It has one quotient and one remainder.
LEMMA DivisionUnique ==
    ASSUME NEW a \in Int, NEW n \in Nat \ {0}, NEW q \in Int, NEW r \in 0 .. n - 1,
           a = n * q + r
    PROVE  a \div n = q /\ a % n = r
<1>1. PICK p \in Int, s \in 0 .. n - 1 : p = a \div n /\ s = a % n /\ a = n * p + s
  BY Division
<1>2. n * (q - p) = s - r
  BY <1>1
<1>3. q - p = 0
  <2>1. q - p \in Int /\ s - r \in Int /\ -n < s - r /\ s - r < n
    BY <1>1
  <2> QED
    BY <1>2, <2>1, SmallMultiple
<1>4. q = p
  BY <1>1, <1>3
<1>5. r = s
  BY <1>1, <1>4
<1> QED
  BY <1>1, <1>4, <1>5

\* A remainder may be taken before adding, and of a product's multiple.
LEMMA RemainderAdds ==
    ASSUME NEW a \in Int, NEW c \in Int, NEW n \in Nat \ {0}
    PROVE  ((a % n) + c) % n = (a + c) % n
<1>1. PICK p \in Int, s \in 0 .. n - 1 : p = a \div n /\ s = a % n /\ a = n * p + s
  BY Division
<1>2. PICK q \in Int, r \in 0 .. n - 1 : r = (s + c) % n /\ s + c = n * q + r
  <2>1. s + c \in Int
    BY <1>1
  <2> QED
    BY <2>1, Division
<1>3. a + c = n * (p + q) + r
  BY <1>1, <1>2
<1>4. a + c \in Int /\ p + q \in Int
  OBVIOUS
<1>5. (a + c) % n = r
  BY <1>3, <1>4, DivisionUnique
<1> QED
  BY <1>1, <1>2, <1>5

\* The least of the doubled weights decides the remainder.
LEMMA RemainderOfPower ==
    ASSUME NEW p \in Nat \ {0}, NEW x \in Int
    PROVE  (p * x) % (2 * p) = p * (x % 2)
<1>1. PICK y \in Int, b \in 0 .. 1 : b = x % 2 /\ x = 2 * y + b
  OBVIOUS
<1>2. p * x = (2 * p) * y + p * b
  BY <1>1
<1>3. p * b \in 0 .. 2 * p - 1 /\ p * x \in Int /\ 2 * p \in Nat \ {0}
  BY <1>1
<1>4. (p * x) % (2 * p) = p * b
  BY <1>2, <1>3, DivisionUnique
<1> QED
  BY <1>1, <1>4

\* The next bit of a number.
LEMMA NextBit ==
    ASSUME NEW k \in Int, NEW p \in Nat \ {0}
    PROVE  /\ k \div (2 * p) = (k \div p) \div 2
           /\ k \div p = 2 * (k \div (2 * p)) + ((k \div p) % 2)
<1>1. PICK x \in Int, s \in 0 .. p - 1 : x = k \div p /\ k = p * x + s
  BY Division
<1>2. PICK y \in Int, b \in 0 .. 1 : b = x % 2 /\ y = x \div 2 /\ x = 2 * y + b
  OBVIOUS
<1>3. k = (2 * p) * y + (p * b + s)
  <2>1. p * x = p * (2 * y) + p * b
    BY <1>2
  <2>2. p * (2 * y) = (2 * p) * y
    OBVIOUS
  <2> QED
    BY <1>1, <2>1, <2>2
<1>4. p * b + s \in 0 .. 2 * p - 1 /\ 2 * p \in Nat \ {0}
  <2>1. CASE b = 0
    BY <2>1
  <2>2. CASE b = 1
    BY <2>2
  <2> QED
    BY <2>1, <2>2
<1>5. k \div (2 * p) = y
  BY <1>3, <1>4, DivisionUnique
<1> QED
  BY <1>1, <1>2, <1>5

--------------------------------------------------------------------------------
(* Powers of two.                                                              *)

\* f is the powers up to 2^n.
IsPowers(f, n) == f = [i \in 0 .. n |-> IF i = 0 THEN 1 ELSE 2 * f[i - 1]]

\* There are such powers.
LEMMA PowersExist == \A n \in Nat : \E f : IsPowers(f, n)
<1> DEFINE S == {n \in Nat : \E f : IsPowers(f, n)}
<1>1. 0 \in S
  <2>1. IsPowers([i \in 0 .. 0 |-> 1], 0)
    BY DEF IsPowers
  <2> QED
    BY <2>1
<1>2. ASSUME NEW n \in S PROVE n + 1 \in S
  <2>1. PICK f : IsPowers(f, n)
    OBVIOUS
  <2> DEFINE g == [i \in 0 .. n + 1 |-> IF i = n + 1 THEN 2 * f[n] ELSE f[i]]
  <2>2. \A i \in 0 .. n : g[i] = f[i]
    OBVIOUS
  <2>3. ASSUME NEW i \in 0 .. n + 1
        PROVE  g[i] = IF i = 0 THEN 1 ELSE 2 * g[i - 1]
    <3>1. CASE i = n + 1
      BY <2>2, <3>1
    <3>2. CASE i # n + 1
      <4>1. i \in 0 .. n /\ (i # 0 => i - 1 \in 0 .. n)
        BY <3>2
      <4>2. f[i] = IF i = 0 THEN 1 ELSE 2 * f[i - 1]
        BY <2>1, <4>1 DEF IsPowers
      <4> QED
        BY <2>2, <4>1, <4>2
    <3> QED
      BY <3>1, <3>2
  <2>4. g = [i \in 0 .. n + 1 |-> g[i]]
    OBVIOUS
  <2>5. n + 1 \in Nat
    OBVIOUS
  <2> HIDE DEF g
  <2>6. IsPowers(g, n + 1)
    BY <2>3, <2>4 DEF IsPowers
  <2> QED
    BY <2>5, <2>6
<1>3. S \in SUBSET Nat
  OBVIOUS
<1>4. S = Nat
  <2> HIDE DEF S
  <2> QED
    BY <1>1, <1>2, <1>3, NumberInduction
<1> QED
  BY <1>4

\* And they agree as far as they go.
LEMMA PowersAgree ==
    ASSUME NEW m \in Nat, NEW n \in Nat, NEW f, NEW g, IsPowers(f, m), IsPowers(g, n)
    PROVE  \A i \in Nat : i <= m /\ i <= n => f[i] = g[i]
<1> DEFINE S == {i \in Nat : i <= m /\ i <= n => f[i] = g[i]}
<1>1. 0 \in S
  BY DEF IsPowers
<1>2. ASSUME NEW i \in S PROVE i + 1 \in S
  <2>1. CASE i + 1 <= m /\ i + 1 <= n
    <3>1. f[i] = g[i] /\ i + 1 \in 0 .. m /\ i + 1 \in 0 .. n /\ i + 1 # 0 /\ (i + 1) - 1 = i
      BY <2>1
    <3>2. f[i + 1] = 2 * f[(i + 1) - 1] /\ g[i + 1] = 2 * g[(i + 1) - 1]
      BY <3>1 DEF IsPowers
    <3> QED
      BY <3>1, <3>2
  <2> QED
    BY <2>1
<1>3. S \in SUBSET Nat
  OBVIOUS
<1>4. S = Nat
  <2> HIDE DEF S
  <2> QED
    BY <1>1, <1>2, <1>3, NumberInduction
<1> QED
  BY <1>4

\* Pow2, which its recursive equation defines, is the powers of two.
LEMMA Powers ==
    /\ Pow2[0] = 1
    /\ \A n \in Nat : Pow2[n] \in Nat \ {0} /\ Pow2[n + 1] = 2 * Pow2[n]
<1> DEFINE W(f) == [n \in Nat |-> IF n = 0 THEN 1 ELSE 2 * f[n - 1]]
           upto(n) == CHOOSE f : IsPowers(f, n)
           g == [n \in Nat |-> upto(n)[n]]
<1>1. \A n \in Nat : IsPowers(upto(n), n)
  BY PowersExist
<1> HIDE DEF upto
<1>2. \A n \in Nat : g[n] = upto(n)[n]
  OBVIOUS
<1>3. ASSUME NEW n \in Nat PROVE g[n] = IF n = 0 THEN 1 ELSE 2 * g[n - 1]
  <2>1. CASE n = 0
    BY <1>1, <1>2, <2>1 DEF IsPowers
  <2>2. CASE n # 0
    <3>1. n - 1 \in Nat /\ n \in 0 .. n
      BY <2>2
    <3>2. upto(n)[n] = 2 * upto(n)[n - 1]
      BY <1>1, <2>2, <3>1 DEF IsPowers
    <3>3. upto(n)[n - 1] = upto(n - 1)[n - 1]
      BY <1>1, <3>1, PowersAgree
    <3> QED
      BY <1>2, <2>2, <3>1, <3>2, <3>3
  <2> QED
    BY <2>1, <2>2
<1>4. g = [n \in Nat |-> g[n]]
  OBVIOUS
<1> HIDE DEF g
<1>5. g = W(g)
  BY <1>3, <1>4
<1>6. Pow2 = CHOOSE f : f = W(f)
  BY DEF Pow2
<1>7. Pow2 = W(Pow2)
  BY <1>5, <1>6
<1>8. \A n \in Nat : Pow2[n] = IF n = 0 THEN 1 ELSE 2 * Pow2[n - 1]
  BY <1>7
<1>9. \A n \in Nat : Pow2[n + 1] = 2 * Pow2[n]
  <2>1. TAKE n \in Nat
  <2>2. n + 1 \in Nat /\ n + 1 # 0 /\ (n + 1) - 1 = n
    OBVIOUS
  <2> HIDE DEF W
  <2> QED
    BY <1>8, <2>2
<1> DEFINE S == {n \in Nat : Pow2[n] \in Nat \ {0}}
<1>10. 0 \in S /\ \A n \in S : n + 1 \in S
  BY <1>8, <1>9
<1>11. S \in SUBSET Nat
  OBVIOUS
<1>12. S = Nat
  <2> HIDE DEF S
  <2> QED
    BY <1>10, <1>11, NumberInduction
<1> QED
  BY <1>8, <1>9, <1>12


\* Counting qubit j once it is read, and before, when m of the others are.
ReadBit(t, k, j) == Basis(Bit(k, t - j))
Turned(t, k, m, j) == Phase((Pow2[j - 1 + m] * (k \div Pow2[m])) % Pow2[t])

\* The register after m blocks of the inverse transform, and in the next block
\* after its Hadamard gate and d controlled phases.
AfterBlocks(t, k, m) ==
    [j \in 1 .. t |-> IF j > t - m THEN ReadBit(t, k, j) ELSE Turned(t, k, m, j)]
InBlock(t, k, m, d) ==
    [j \in 1 .. t |-> IF j >= t - m THEN ReadBit(t, k, j)
                      ELSE IF j >= t - m - d THEN Turned(t, k, m + 1, j)
                      ELSE Turned(t, k, m, j)]

Block(t, pos) ==
    <<H(t - pos)>> \o [d \in 1 .. t - pos |-> CP(-Pow2[t - 1 - d], t - pos - d, t - pos)]

\* The bits of a number, and what is left of it.
LEMMA BitsOf ==
    ASSUME NEW k \in Nat, NEW m \in Nat
    PROVE  /\ k \div Pow2[m] \in Int
           /\ Bit(k, m) \in {0, 1}
           /\ k \div Pow2[m] = 2 * (k \div Pow2[m + 1]) + Bit(k, m)
<1>1. PICK p \in Nat \ {0} : p = Pow2[m] /\ Pow2[m + 1] = 2 * p
  BY Powers
<1>2. k \div p \in Int /\ k \in Int
  BY Division
<1>3. k \div p = 2 * (k \div (2 * p)) + ((k \div p) % 2)
  BY <1>2, NextBit
<1>4. (k \div p) % 2 \in {0, 1}
  BY <1>2
<1> QED
  BY <1>1, <1>2, <1>3, <1>4 DEF Bit

\* The Hadamard gate reads the next qubit: its phase is a half turn or none.
LEMMA HadamardReads ==
    ASSUME NEW t \in Nat, NEW k \in Nat, NEW m \in 0 .. t - 1
    PROVE  Hadamard(t, Turned(t, k, m, t - m)) = ReadBit(t, k, t - m)
<1>1. PICK x \in Int : x = k \div Pow2[m]
  BY BitsOf
<1>2. PICK b \in {0, 1} : b = x % 2 /\ b = Bit(k, m)
  BY <1>1, BitsOf DEF Bit
<1>3. PICK p \in Nat \ {0} : p = Pow2[t - 1] /\ Pow2[t] = 2 * p
  <2>1. t - 1 \in Nat /\ (t - 1) + 1 = t
    OBVIOUS
  <2> QED
    BY <2>1, Powers
<1>4. (p * x) % (2 * p) = p * b
  BY <1>2, RemainderOfPower
<1>5. (t - m) - 1 + m = t - 1 /\ t - (t - m) = m
  OBVIOUS
<1>6. Turned(t, k, m, t - m) = Phase(p * b)
  BY <1>1, <1>3, <1>4, <1>5 DEF Turned
<1>7. ReadBit(t, k, t - m) = Basis(b)
  BY <1>2, <1>5 DEF ReadBit
<1>8. p * 0 = 0 /\ p * 1 = p
  OBVIOUS
<1>9. Hadamard(t, Phase(p * b)) = Basis(b)
  <2>1. CASE b = 0
    <3>1. Phase(0) # Basis(0) /\ Phase(0) # Basis(1) /\ Phase(0) # Phase(p)
      BY DEF Phase, Basis
    <3> QED
      BY <1>3, <1>8, <2>1, <3>1 DEF Hadamard
  <2>2. CASE b = 1
    <3>1. Phase(p) # Basis(0) /\ Phase(p) # Basis(1) /\ Phase(0) # Phase(p)
      BY DEF Phase, Basis
    <3> QED
      BY <1>3, <1>8, <2>2, <3>1 DEF Hadamard
  <2> QED
    BY <2>1, <2>2
<1> QED
  BY <1>6, <1>7, <1>9

\* A controlled phase takes the bit that was read out of the phase of a qubit.
LEMMA PhaseTurnsBack ==
    ASSUME NEW t \in Nat, NEW k \in Nat, NEW m \in 0 .. t - 1, NEW d \in 1 .. t - m - 1
    PROVE  Turn(t, Turned(t, k, m, t - m - d), (-Pow2[t - 1 - d]) * Bit(k, m))
               = Turned(t, k, m + 1, t - m - d)
<1>1. PICK x \in Int, y \in Int, b \in {0, 1} :
         x = k \div Pow2[m] /\ y = k \div Pow2[m + 1] /\ b = Bit(k, m) /\ x = 2 * y + b
  <2>1. m \in Nat /\ m + 1 \in Nat
    OBVIOUS
  <2>2. k \div Pow2[m + 1] \in Int
    BY <2>1, BitsOf
  <2>3. /\ k \div Pow2[m] \in Int /\ Bit(k, m) \in {0, 1}
        /\ k \div Pow2[m] = 2 * (k \div Pow2[m + 1]) + Bit(k, m)
    BY <2>1, BitsOf
  <2> QED
    BY <2>2, <2>3
<1>2. PICK p \in Nat \ {0} : p = Pow2[t - 1 - d] /\ Pow2[t - d] = 2 * p
  <2>1. t - 1 - d \in Nat /\ (t - 1 - d) + 1 = t - d
    OBVIOUS
  <2> QED
    BY <2>1, Powers
<1>3. PICK n \in Nat \ {0} : n = Pow2[t]
  BY Powers
<1>4. (t - m - d) - 1 + m = t - 1 - d /\ (t - m - d) - 1 + (m + 1) = t - d
  OBVIOUS
<1>5. Turned(t, k, m, t - m - d) = Phase((p * x) % n)
  BY <1>1, <1>2, <1>3, <1>4 DEF Turned
<1>6. Turned(t, k, m + 1, t - m - d) = Phase(((2 * p) * y) % n)
  BY <1>1, <1>2, <1>3, <1>4 DEF Turned
<1>7. p * x \in Int /\ (-p) * b \in Int
  OBVIOUS
<1>8. (((p * x) % n) + ((-p) * b)) % n = (p * x + ((-p) * b)) % n
  BY <1>7, RemainderAdds
<1>9. p * x + ((-p) * b) = (2 * p) * y
  <2>1. p * x = p * (2 * y) + p * b
    BY <1>1
  <2>2. p * (2 * y) = (2 * p) * y
    OBVIOUS
  <2>3. (-p) * b = -(p * b)
    OBVIOUS
  <2> QED
    BY <2>1, <2>2, <2>3
<1>10. Turn(t, Phase((p * x) % n), (-p) * b) = Phase(((2 * p) * y) % n)
  BY <1>3, <1>8, <1>9 DEF Turn, Phase
<1> QED
  BY <1>1, <1>2, <1>5, <1>6, <1>10

\* One block of the inverse transform reads one qubit.
LEMMA BlockReads ==
    ASSUME NEW t \in Nat, NEW k \in Nat, NEW m \in 0 .. t - 1
    PROVE  Gates(t, AfterBlocks(t, k, m), Block(t, m + 1)) = AfterBlocks(t, k, m + 1)
<1>1. PICK gates : gates = Block(t, m + 1)
  OBVIOUS
<1>2. /\ Len(gates) = t - m
      /\ gates[1] = H(t - (m + 1))
      /\ \A d \in 1 .. t - m - 1 :
            gates[d + 1] = CP(-Pow2[t - 1 - d], t - (m + 1) - d, t - (m + 1))
  <2> DEFINE phases == [d \in 1 .. t - (m + 1) |->
                           CP(-Pow2[t - 1 - d], t - (m + 1) - d, t - (m + 1))]
             G == {H(t - (m + 1))} \cup {phases[d] : d \in 1 .. t - (m + 1)}
  <2>0. PICK l \in Nat : l = t - (m + 1)
    OBVIOUS
  <2>6. \A d \in 1 .. l : phases[d] \in G
    BY <2>0
  <2>1. phases \in Seq(G) /\ Len(phases) = t - (m + 1)
    <3>1. phases = [d \in 1 .. l |-> phases[d]]
      BY <2>0
    <3> HIDE DEF phases, G
    <3> QED
      BY <2>0, <2>6, <3>1
  <2>2. gates = <<H(t - (m + 1))>> \o phases
    BY <1>1 DEF Block
  <2>3. \A d \in 1 .. t - m - 1 :
           phases[d] = CP(-Pow2[t - 1 - d], t - (m + 1) - d, t - (m + 1))
    OBVIOUS
  <2>4. <<H(t - (m + 1))>> \in Seq(G)
    OBVIOUS
  <2> HIDE DEF phases, G
  <2>5. /\ Len(gates) = 1 + (t - (m + 1)) /\ gates[1] = H(t - (m + 1))
        /\ \A d \in 1 .. t - (m + 1) : gates[d + 1] = phases[d]
    BY <2>1, <2>2, <2>4
  <2>7. 1 + (t - (m + 1)) = t - m /\ t - (m + 1) = t - m - 1
    OBVIOUS
  <2> QED
    BY <2>3, <2>5, <2>7
<1> DEFINE f == [i \in 0 .. t - m |->
                    IF i = 0 THEN AfterBlocks(t, k, m) ELSE InBlock(t, k, m, i - 1)]
<1>3. f[0] = AfterBlocks(t, k, m) /\ \A i \in 1 .. t - m : f[i] = InBlock(t, k, m, i - 1)
  OBVIOUS
<1> HIDE DEF f
<1>4. Apply(t, AfterBlocks(t, k, m), H(t - (m + 1))) = InBlock(t, k, m, 0)
  <2>1. PICK reg : reg = AfterBlocks(t, k, m)
    OBVIOUS
  <2>2. (t - (m + 1)) + 1 = t - m /\ t - m \in 1 .. t
    OBVIOUS
  <2>3. H(t - (m + 1)).op = "h" /\ H(t - (m + 1)).a + 1 = t - m
    BY <2>2 DEF H
  <2>4. Apply(t, reg, H(t - (m + 1))) = [reg EXCEPT ![t - m] = Hadamard(t, reg[t - m])]
    BY <2>3 DEF Apply
  <2>5. reg[t - m] = Turned(t, k, m, t - m)
    BY <2>1, <2>2 DEF AfterBlocks
  <2>6. Hadamard(t, reg[t - m]) = ReadBit(t, k, t - m)
    BY <2>5, HadamardReads
  <2>7. [reg EXCEPT ![t - m] = ReadBit(t, k, t - m)] = InBlock(t, k, m, 0)
    BY <2>1, <2>2 DEF AfterBlocks, InBlock
  <2> QED
    BY <2>1, <2>4, <2>6, <2>7
<1>5. ASSUME NEW d \in 1 .. t - m - 1
      PROVE  Apply(t, InBlock(t, k, m, d - 1), CP(-Pow2[t - 1 - d], t - (m + 1) - d, t - (m + 1)))
                 = InBlock(t, k, m, d)
  <2>1. PICK reg : reg = InBlock(t, k, m, d - 1)
    OBVIOUS
  <2>2. PICK g : g = CP(-Pow2[t - 1 - d], t - (m + 1) - d, t - (m + 1))
    OBVIOUS
  <2>3. (t - (m + 1)) + 1 = t - m /\ (t - (m + 1) - d) + 1 = t - m - d
        /\ t - m \in 1 .. t /\ t - m - d \in 1 .. t /\ t - m - d < t - m
    OBVIOUS
  <2>4. g.op = "cp" /\ g.a + 1 = t - m - d /\ g.b + 1 = t - m /\ g.phase = -Pow2[t - 1 - d]
    BY <2>2, <2>3 DEF CP
  <2>5. reg[t - m] = Basis(Bit(k, m)) /\ reg[t - m - d] = Turned(t, k, m, t - m - d)
    <3>1. t - (t - m) = m /\ ~(t - m - d >= t - m - (d - 1))
      OBVIOUS
    <3> QED
      BY <2>1, <2>3, <3>1 DEF InBlock, ReadBit
  <2>6. reg[t - m].kind = "basis" /\ reg[t - m].value = Bit(k, m)
        /\ reg[t - m - d].kind # "basis"
    BY <2>5 DEF Basis, Turned, Phase
  <2>7. Apply(t, reg, g) = ControlledPhase(t, reg, g.a, g.b, g.phase)
    BY <2>4 DEF Apply
  <2>8. ControlledPhase(t, reg, g.a, g.b, g.phase)
            = [reg EXCEPT ![t - m - d] = Turn(t, reg[t - m - d], (-Pow2[t - 1 - d]) * Bit(k, m))]
    <3>1. PICK a, b, p : a = g.a + 1 /\ b = g.b + 1 /\ p = g.phase
      OBVIOUS
    <3>2. reg[b].kind = "basis" /\ reg[a].kind # "basis"
      BY <2>4, <2>6, <3>1
    <3>3. ControlledPhase(t, reg, g.a, g.b, g.phase)
              = [reg EXCEPT ![a] = Turn(t, reg[a], p * reg[b].value)]
      BY <3>1, <3>2 DEF ControlledPhase
    <3>4. a = t - m - d /\ b = t - m /\ p = -Pow2[t - 1 - d] /\ reg[b].value = Bit(k, m)
      BY <2>4, <2>6, <3>1
    <3> QED
      BY <3>3, <3>4
  <2>9. Turn(t, reg[t - m - d], (-Pow2[t - 1 - d]) * Bit(k, m)) = Turned(t, k, m + 1, t - m - d)
    BY ZenonT(40), <2>5, PhaseTurnsBack
  <2>10. [reg EXCEPT ![t - m - d] = Turned(t, k, m + 1, t - m - d)] = InBlock(t, k, m, d)
    BY SMTT(30), <2>1, <2>3 DEF InBlock
  <2> QED
    BY <2>1, <2>2, <2>7, <2>8, <2>9, <2>10
<1>6. ASSUME NEW i \in 1 .. t - m
      PROVE  f[i] = Apply(t, f[i - 1], gates[i])
  <2>1. CASE i = 1
    BY <1>2, <1>3, <1>4, <2>1
  <2>2. CASE i # 1
    <3>1. PICK d \in 1 .. t - m - 1 : d = i - 1 /\ i = d + 1 /\ d \in 1 .. t - m
      BY <2>2
    <3>2. f[i] = InBlock(t, k, m, d) /\ f[i - 1] = InBlock(t, k, m, d - 1)
      BY <1>3, <3>1
    <3> QED
      BY <1>2, <1>5, <3>1, <3>2
  <2> QED
    BY <2>1, <2>2
<1>7. IsRun(f, t, AfterBlocks(t, k, m), gates, Len(gates)) /\ Len(gates) \in Nat
  BY <1>2, <1>3, <1>6 DEF IsRun
<1>8. Gates(t, AfterBlocks(t, k, m), gates) = f[t - m]
  BY <1>2, <1>7, GatesReach
<1>9. f[t - m] = InBlock(t, k, m, t - m - 1)
  BY <1>3
<1>10. InBlock(t, k, m, t - m - 1) = AfterBlocks(t, k, m + 1)
  BY DEF InBlock, AfterBlocks
<1> QED
  BY <1>1, <1>8, <1>9, <1>10


\* The gates of these circuits.
GateSet == [op : {"h", "cp", "swap"}, a : Int, b : Int, phase : Int]

\* All blocks read all qubits.
LEMMA BlocksRead ==
    ASSUME NEW t \in Nat \ {0}, NEW k \in Nat
    PROVE  LET blocks == [pos \in 1 .. t |-> Block(t, pos)]
           IN  /\ FlattenSeq(blocks) \in Seq(GateSet)
               /\ Gates(t, AfterBlocks(t, k, 0), FlattenSeq(blocks)) = AfterBlocks(t, k, t)
<1> DEFINE blocks == [pos \in 1 .. t |-> Block(t, pos)]
           r == [m \in 0 .. t |-> AfterBlocks(t, k, m)]
<1>1. ASSUME NEW pos \in 1 .. t PROVE Block(t, pos) \in Seq(GateSet)
  <2>1. H(t - pos) \in GateSet
    BY DEF H, GateSet
  <2>2. ASSUME NEW d \in 1 .. t - pos
        PROVE  CP(-Pow2[t - 1 - d], t - pos - d, t - pos) \in GateSet
    <3>1. t - 1 - d \in Nat
      OBVIOUS
    <3>2. -Pow2[t - 1 - d] \in Int
      BY <3>1, Powers
    <3> QED
      BY <3>2 DEF CP, GateSet
  <2>3. PICK l \in Nat : l = t - pos
    OBVIOUS
  <2>4. [d \in 1 .. t - pos |-> CP(-Pow2[t - 1 - d], t - pos - d, t - pos)] \in Seq(GateSet)
    BY <2>2, <2>3
  <2>5. <<H(t - pos)>> \in Seq(GateSet)
    BY <2>1
  <2> QED
    BY <2>4, <2>5 DEF Block
<1>2. blocks \in Seq(Seq(GateSet)) /\ Len(blocks) = t
  BY <1>1
<1>3. ASSUME NEW b \in 1 .. t PROVE Gates(t, r[b - 1], blocks[b]) = r[b]
  <2>1. PICK m \in 0 .. t - 1 : m = b - 1 /\ b = m + 1
    OBVIOUS
  <2>2. r[b - 1] = AfterBlocks(t, k, m) /\ r[b] = AfterBlocks(t, k, m + 1)
        /\ blocks[b] = Block(t, m + 1)
    BY <2>1
  <2> QED
    BY <2>2, BlockReads
<1>4. r[0] = AfterBlocks(t, k, 0) /\ r[t] = AfterBlocks(t, k, t)
  OBVIOUS
<1> HIDE DEF blocks, r
<1>5. FlattenSeq(blocks) \in Seq(GateSet) /\ Gates(t, r[0], FlattenSeq(blocks)) = r[Len(blocks)]
  BY ZenonT(40), <1>2, <1>3, BlocksReach
<1>6. FlattenSeq(blocks) \in Seq(GateSet)
      /\ Gates(t, AfterBlocks(t, k, 0), FlattenSeq(blocks)) = AfterBlocks(t, k, t)
  BY <1>2, <1>4, <1>5
<1> QED
  BY <1>6 DEF blocks

\* A register after i swaps.
Swapped(t, reg, i) ==
    [j \in 1 .. t |-> IF j <= i \/ j > t - i THEN reg[t + 1 - j] ELSE reg[j]]

\* The swaps turn a register round.
LEMMA SwapsTurnRound ==
    ASSUME NEW t \in Nat \ {0}, NEW reg
    PROVE  reg = [j \in 1 .. t |-> reg[j]] =>
               Gates(t, reg, Swaps(t)) = [j \in 1 .. t |-> reg[t + 1 - j]]
<1>0. SUFFICES ASSUME reg = [j \in 1 .. t |-> reg[j]]
               PROVE  Gates(t, reg, Swaps(t)) = [j \in 1 .. t |-> reg[t + 1 - j]]
  OBVIOUS
<1>1. PICK h \in Nat : h = t \div 2 /\ (t = 2 * h \/ t = 2 * h + 1)
  OBVIOUS
<1>2. PICK gates : gates = Swaps(t)
  OBVIOUS
<1>3. Len(gates) = h
  BY <1>1, <1>2 DEF Swaps
<1>4. \A i \in 1 .. h : gates[i].op = "swap" /\ gates[i].a = i - 1 /\ gates[i].b = t - i
  BY <1>1, <1>2 DEF Swaps
<1> DEFINE f == [i \in 0 .. h |-> Swapped(t, reg, i)]
<1>5. f[0] = reg
  <2>1. f[0] = Swapped(t, reg, 0)
    BY <1>1
  <2>2. \A j \in 1 .. t : ~(j <= 0) /\ ~(j > t - 0)
    OBVIOUS
  <2> QED
    BY <1>0, <2>1, <2>2 DEF Swapped
<1>6. ASSUME NEW i \in 1 .. h
      PROVE  f[i] = Apply(t, f[i - 1], gates[i])
  <2>1. PICK before : before = Swapped(t, reg, i - 1)
    OBVIOUS
  <2>2. PICK c : c = t - i + 1
    OBVIOUS
  <2>3. /\ i \in 1 .. t /\ c \in 1 .. t /\ i < c
        /\ gates[i].op = "swap" /\ gates[i].a + 1 = i /\ gates[i].b + 1 = c
    BY <1>1, <1>4, <2>2
  <2>4. Apply(t, before, gates[i]) = [before EXCEPT ![i] = before[c], ![c] = before[i]]
    BY <2>3 DEF Apply
  <2>5. before[c] = reg[t + 1 - i] /\ before[i] = reg[t + 1 - c]
    <3>1. t + 1 - c = i /\ t + 1 - i = c /\ ~(i <= i - 1) /\ ~(i > t - (i - 1))
          /\ ~(c <= i - 1) /\ ~(c > t - (i - 1))
      BY <2>2, <2>3
    <3> QED
      BY <2>1, <2>3, <3>1 DEF Swapped
  <2>6. [before EXCEPT ![i] = reg[t + 1 - i], ![c] = reg[t + 1 - c]] = Swapped(t, reg, i)
    <3>1. \A j \in 1 .. t : (j <= i \/ j > t - i) <=> (j = i \/ j = c \/ j <= i - 1 \/ j > t - (i - 1))
      BY <2>2, <2>3
    <3> QED
      BY <2>1, <2>3, <3>1 DEF Swapped
  <2>7. f[i] = Swapped(t, reg, i) /\ f[i - 1] = before
    BY <2>1
  <2> QED
    BY <2>4, <2>5, <2>6, <2>7
<1>7. f[h] = [j \in 1 .. t |-> reg[t + 1 - j]]
  <2>1. \A j \in 1 .. t : (j <= h \/ j > t - h) \/ t + 1 - j = j
    BY <1>1
  <2>2. Swapped(t, reg, h) = [j \in 1 .. t |-> reg[t + 1 - j]]
    BY <2>1 DEF Swapped
  <2> QED
    BY <1>1, <2>2
<1> HIDE DEF f
<1>8. IsRun(f, t, reg, gates, Len(gates)) /\ Len(gates) \in Nat
  BY <1>3, <1>5, <1>6 DEF IsRun
<1> QED
  BY <1>2, <1>3, <1>7, <1>8, GatesReach

\* What the kicked-back phases are: nothing is read yet.
LEMMA NothingRead ==
    ASSUME NEW t \in Nat \ {0}, NEW k \in Nat
    PROVE  Kickback(t, k) = AfterBlocks(t, k, 0)
<1>1. ASSUME NEW j \in 1 .. t
      PROVE  Turn(t, Phase(0), (k * Pow2[j - 1]) % Pow2[t]) = Turned(t, k, 0, j)
  <2>1. PICK n \in Nat \ {0} : n = Pow2[t]
    BY Powers
  <2>2. PICK p \in Nat \ {0} : p = Pow2[j - 1]
    <3>1. j - 1 \in Nat
      OBVIOUS
    <3> QED
      BY <3>1, Powers
  <2>3. PICK x \in Int : x = k * p
    OBVIOUS
  <2>4. ((x % n) + 0) % n = x % n
    <3>1. 0 \in Int /\ x + 0 = x
      OBVIOUS
    <3>2. ((x % n) + 0) % n = (x + 0) % n
      BY <3>1, RemainderAdds
    <3> QED
      BY <3>1, <3>2
  <2>5. x % n \in Int
    BY Division
  <2>6. Turn(t, Phase(0), x % n) = Phase(x % n)
    <3>1. 0 + (x % n) = (x % n) + 0
      BY <2>5
    <3> QED
      BY <2>1, <2>4, <3>1 DEF Turn, Phase
  <2>7. k \div Pow2[0] = k /\ j - 1 + 0 = j - 1 /\ p * k = x
    <3>1. Pow2[0] = 1
      BY Powers
    <3> QED
      BY <2>3, <3>1
  <2> QED
    BY <2>1, <2>2, <2>3, <2>6, <2>7 DEF Turned
<1>2. \A j \in 1 .. t : ~(j > t - 0)
  OBVIOUS
<1> QED
  BY <1>1, <1>2 DEF Kickback, AfterBlocks

\* The register of a number, its lowest bit on qubit 0.
BasisState(t, k) == [j \in 1 .. t |-> Basis(Bit(k, j - 1))]

\* The swaps are gates.
LEMMA SwapsAre == \A t \in Nat : Swaps(t) \in Seq(GateSet)
<1> TAKE t \in Nat
<1>1. PICK h \in Nat : h = t \div 2
  OBVIOUS
<1>2. \A i \in 1 .. h : [op |-> "swap", a |-> i - 1, b |-> t - i, phase |-> 0] \in GateSet
  BY DEF GateSet
<1> QED
  BY <1>1, <1>2 DEF Swaps

\* qft.py's inverse transform takes the phases that a number kicks back to the
\* number.
LEMMA InverseTransforms ==
    ASSUME NEW t \in Nat \ {0}, NEW k \in Nat
    PROVE  Gates(t, Kickback(t, k), InverseQFT(t)) = BasisState(t, k)
<1>1. PICK blocks : blocks = [pos \in 1 .. t |-> Block(t, pos)]
  OBVIOUS
<1>2. InverseQFT(t) = FlattenSeq(blocks) \o Swaps(t)
  BY <1>1 DEF InverseQFT, Block
<1>3. FlattenSeq(blocks) \in Seq(GateSet)
      /\ Gates(t, AfterBlocks(t, k, 0), FlattenSeq(blocks)) = AfterBlocks(t, k, t)
  BY <1>1, BlocksRead
<1>4. Swaps(t) \in Seq(GateSet)
  BY SwapsAre
<1>5. Gates(t, AfterBlocks(t, k, t), Swaps(t)) = BasisState(t, k)
  <2>1. PICK reg : reg = AfterBlocks(t, k, t)
    OBVIOUS
  <2>2. \A j \in 1 .. t : t + 1 - j \in 1 .. t /\ t + 1 - j > t - t /\ t - (t + 1 - j) = j - 1
    OBVIOUS
  <2>3. \A j \in 1 .. t : reg[t + 1 - j] = Basis(Bit(k, j - 1))
    BY <2>1, <2>2 DEF AfterBlocks, ReadBit
  <2>4. reg = [j \in 1 .. t |-> reg[j]]
    BY <2>1 DEF AfterBlocks
  <2>5. Gates(t, reg, Swaps(t)) = [j \in 1 .. t |-> reg[t + 1 - j]]
    BY <2>4, SwapsTurnRound
  <2> QED
    BY <2>1, <2>3, <2>5 DEF BasisState
<1> QED
  BY <1>2, <1>3, <1>4, <1>5, GatesSplit, NothingRead

\* qpe.py's circuit measures the bits of the phase, for any number of qubits.
LEMMA PhaseBitsAre ==
    ASSUME NEW t \in Nat \ {0}, NEW k \in Nat
    PROVE  PhaseBits(t, k) = [p \in 1 .. t |-> Bit(k, t - p)]
<1>5. Measured(t, k) = BasisState(t, k)
  BY InverseTransforms DEF Measured
<1>6. PICK reg : reg = Measured(t, k)
  OBVIOUS
<1>7. \A j \in 1 .. t : reg[j].kind = "basis" /\ reg[j].value = Bit(k, j - 1)
  BY <1>5, <1>6 DEF Basis, BasisState
<1>8. PhaseBits(t, k) = [p \in 1 .. t |-> reg[t + 1 - p].value]
  BY <1>6, <1>7 DEF PhaseBits
<1>9. \A p \in 1 .. t : reg[t + 1 - p].value = Bit(k, t - p)
  <2>1. TAKE p \in 1 .. t
  <2>2. t + 1 - p \in 1 .. t /\ (t + 1 - p) - 1 = t - p
    OBVIOUS
  <2> QED
    BY <1>7, <2>2
<1> QED
  BY <1>8, <1>9


\* Estimate, which its recursive equation defines, reads the number of the bits.
LEMMA EstimateIs ==
    ASSUME NEW t \in Nat \ {0}, NEW k \in 0 .. Pow2[t] - 1
    PROVE  Estimate([p \in 1 .. t |-> Bit(k, t - p)]) = k
<1>1. PICK bits : bits = [p \in 1 .. t |-> Bit(k, t - p)]
  OBVIOUS
<1>2. Len(bits) = t /\ \A i \in 1 .. t : bits[i] = Bit(k, t - i)
  BY <1>1
<1> DEFINE W(f) == [i \in 0 .. Len(bits) |-> IF i = 0 THEN 0 ELSE 2 * f[i - 1] + bits[i]]
           left == [i \in 0 .. t |-> k \div Pow2[t - i]]
           number == CHOOSE f : f = W(f)
<1>3. k \in Nat /\ Pow2[t] \in Nat \ {0}
  <2>1. Pow2[t] \in Nat \ {0}
    BY Powers
  <2> QED
    BY <2>1
<1>4. left[0] = 0 /\ left[t] = k
  <2>1. k \div Pow2[t] = 0
    <3>1. PICK n \in Nat \ {0} : n = Pow2[t] /\ k \in 0 .. n - 1
      BY <1>3
    <3>2. k = n * 0 + k /\ 0 \in Int /\ k \in Int
      BY <3>1
    <3>3. k \div n = 0
      BY <3>1, <3>2, DivisionUnique
    <3> QED
      BY <3>1, <3>3
  <2>2. k \div Pow2[0] = k
    BY <1>3, Powers
  <2>3. t - 0 = t /\ t - t = 0
    OBVIOUS
  <2> QED
    BY <2>1, <2>2, <2>3
<1>5. ASSUME NEW i \in 1 .. t PROVE left[i] = 2 * left[i - 1] + bits[i]
  <2>1. PICK m \in Nat : m = t - i /\ m + 1 = t - (i - 1)
    OBVIOUS
  <2>2. k \div Pow2[m] = 2 * (k \div Pow2[m + 1]) + Bit(k, m)
    BY <1>3, BitsOf
  <2>3. left[i] = k \div Pow2[m] /\ left[i - 1] = k \div Pow2[m + 1] /\ bits[i] = Bit(k, m)
    BY <1>2, <2>1
  <2> QED
    BY <2>2, <2>3
<1>6. left = [i \in 0 .. t |-> left[i]]
  OBVIOUS
<1>7. Estimate(bits) = number[Len(bits)]
  BY DEF Estimate, Number
<1>8. ASSUME NEW f, f = W(f) PROVE f[t] = k
  <2> HIDE DEF left
  <2>1. \A i \in 0 .. t : f[i] = IF i = 0 THEN 0 ELSE 2 * f[i - 1] + bits[i]
    BY <1>2, <1>8
  <2> DEFINE S == {n \in Nat : n <= t => f[n] = left[n]}
  <2>2. 0 \in S
    BY <1>4, <2>1
  <2>3. ASSUME NEW n \in S PROVE n + 1 \in S
    <3>1. CASE n + 1 <= t
      <4>1. n + 1 \in 1 .. t /\ n + 1 \in 0 .. t /\ (n + 1) - 1 = n /\ n + 1 # 0 /\ f[n] = left[n]
        BY <3>1
      <4>2. f[n + 1] = 2 * f[n] + bits[n + 1] /\ left[n + 1] = 2 * left[n] + bits[n + 1]
        BY <1>5, <2>1, <4>1
      <4> QED
        BY <4>1, <4>2
    <3> QED
      BY <3>1
  <2>4. S \in SUBSET Nat
    OBVIOUS
  <2>5. t \in S
    <3> HIDE DEF S
    <3> QED
      BY <2>2, <2>3, <2>4, NumberInduction
  <2> QED
    BY <1>4, <2>5
<1>9. left = W(left)
  <2> HIDE DEF left
  <2>1. \A i \in 0 .. t : left[i] = IF i = 0 THEN 0 ELSE 2 * left[i - 1] + bits[i]
    BY <1>4, <1>5
  <2>2. [i \in 0 .. t |-> left[i]]
            = [i \in 0 .. t |-> IF i = 0 THEN 0 ELSE 2 * left[i - 1] + bits[i]]
    BY <2>1
  <2> QED
    BY <1>2, <1>6, <2>2
<1>10. number = W(number)
  <2> HIDE DEF left, W
  <2> QED
    BY <1>9
<1>11. number[t] = k
  <2> HIDE DEF number, W
  <2> QED
    BY <1>8, <1>10
<1> QED
  BY <1>1, <1>2, <1>7, <1>11

\* qpe.py: the integer of the measured bitstring is the numerator of the phase,
\* for any number of counting qubits and any phase that they can express.
THEOREM PhaseEstimationIsExact ==
    ASSUME NEW t \in Nat \ {0}, NEW k \in 0 .. Pow2[t] - 1
    PROVE  Estimate(PhaseBits(t, k)) = k
<1>1. k \in Nat
  <2>1. Pow2[t] \in Nat
    BY Powers
  <2> QED
    BY <2>1
<1> QED
  BY <1>1, PhaseBitsAre, EstimateIs


\* The register after the first j blocks of the forward transform, and in the
\* block of qubit j - 1 after its Hadamard gate and c controlled phases.
AfterForward(t, k, j) ==
    [i \in 1 .. t |-> IF i <= j THEN Turned(t, k, 0, i) ELSE ReadBit(t, k, i)]
InForward(t, k, j, c) ==
    [i \in 1 .. t |-> IF i < j THEN Turned(t, k, 0, i)
                      ELSE IF i = j THEN Turned(t, k, t - j - c, i)
                      ELSE ReadBit(t, k, i)]

ForwardBlock(t, j) ==
    <<H(j - 1)>> \o [c \in 1 .. t - j |-> CP(Pow2[t - 1 - c], j - 1 + c, j - 1)]

\* The Hadamard gate on a bit makes it the first turn of the qubit's phase.
LEMMA HadamardTurns ==
    ASSUME NEW t \in Nat, NEW k \in Nat, NEW j \in 1 .. t
    PROVE  Hadamard(t, ReadBit(t, k, j)) = Turned(t, k, t - j, j)
<1>0. t - j \in Nat /\ j - 1 + (t - j) = t - 1
  OBVIOUS
<1>1. PICK x \in Int : x = k \div Pow2[t - j]
  BY <1>0, BitsOf
<1>2. PICK b \in {0, 1} : b = x % 2 /\ b = Bit(k, t - j)
  BY <1>0, <1>1, BitsOf DEF Bit
<1>3. PICK p \in Nat \ {0} : p = Pow2[t - 1] /\ Pow2[t] = 2 * p
  <2>1. t - 1 \in Nat /\ (t - 1) + 1 = t
    OBVIOUS
  <2> QED
    BY <2>1, Powers
<1>4. (p * x) % (2 * p) = p * b
  BY <1>2, RemainderOfPower
<1>5. Turned(t, k, t - j, j) = Phase(p * b)
  BY <1>0, <1>1, <1>3, <1>4 DEF Turned
<1>6. Hadamard(t, Basis(b)) = Phase(p * b)
  <2>1. CASE b = 0
    <3>1. Basis(0) # Phase(0) /\ Basis(0) # Basis(1) /\ Basis(0) # Phase(p) /\ p * 0 = 0
      BY DEF Phase, Basis
    <3> QED
      BY <1>3, <2>1, <3>1 DEF Hadamard
  <2>2. CASE b = 1
    <3>1. Basis(1) # Phase(0) /\ Basis(0) # Basis(1) /\ Basis(1) # Phase(p) /\ p * 1 = p
      BY DEF Phase, Basis
    <3> QED
      BY <1>3, <2>2, <3>1 DEF Hadamard
  <2> QED
    BY <2>1, <2>2
<1> QED
  BY <1>2, <1>5, <1>6 DEF ReadBit

\* A controlled phase adds the turn of the next lower bit.
LEMMA PhaseTurnsOn ==
    ASSUME NEW t \in Nat, NEW k \in Nat, NEW j \in 1 .. t, NEW c \in 1 .. t - j
    PROVE  Turn(t, Turned(t, k, t - j - (c - 1), j), Pow2[t - 1 - c] * Bit(k, t - j - c))
               = Turned(t, k, t - j - c, j)
<1>1. PICK m \in Nat : m = t - j - c /\ m + 1 = t - j - (c - 1)
  OBVIOUS
<1>2. PICK x \in Int, y \in Int, b \in {0, 1} :
         x = k \div Pow2[m] /\ y = k \div Pow2[m + 1] /\ b = Bit(k, m) /\ x = 2 * y + b
  <2>1. m + 1 \in Nat
    OBVIOUS
  <2>2. k \div Pow2[m + 1] \in Int
    BY <2>1, BitsOf
  <2>3. /\ k \div Pow2[m] \in Int /\ Bit(k, m) \in {0, 1}
        /\ k \div Pow2[m] = 2 * (k \div Pow2[m + 1]) + Bit(k, m)
    BY BitsOf
  <2> QED
    BY <2>2, <2>3
<1>3. PICK p \in Nat \ {0} : p = Pow2[t - 1 - c] /\ Pow2[t - c] = 2 * p
  <2>1. t - 1 - c \in Nat /\ (t - 1 - c) + 1 = t - c
    OBVIOUS
  <2> QED
    BY <2>1, Powers
<1>4. PICK n \in Nat \ {0} : n = Pow2[t]
  BY Powers
<1>5. j - 1 + m = t - 1 - c /\ j - 1 + (m + 1) = t - c
  BY <1>1
<1>6. Turned(t, k, m + 1, j) = Phase(((2 * p) * y) % n) /\ Turned(t, k, m, j) = Phase((p * x) % n)
  BY <1>2, <1>3, <1>4, <1>5 DEF Turned
<1>7. PICK z \in Int, w \in Int : z = (2 * p) * y /\ w = p * b
  OBVIOUS
<1>8. z + w = p * x
  <2>1. p * x = p * (2 * y) + p * b
    BY <1>2
  <2>2. p * (2 * y) = (2 * p) * y
    OBVIOUS
  <2> QED
    BY <1>7, <2>1, <2>2
<1>9. ((z % n) + w) % n = (z + w) % n
  BY RemainderAdds
<1>10. Turn(t, Phase(z % n), w) = Phase((p * x) % n)
  BY <1>4, <1>8, <1>9 DEF Turn, Phase
<1> QED
  BY <1>1, <1>2, <1>3, <1>6, <1>7, <1>10

\* One block of the forward transform takes one qubit to its phase.
LEMMA ForwardBlockTurns ==
    ASSUME NEW t \in Nat, NEW k \in Nat, NEW j \in 1 .. t
    PROVE  Gates(t, AfterForward(t, k, j - 1), ForwardBlock(t, j)) = AfterForward(t, k, j)
<1>1. PICK gates : gates = ForwardBlock(t, j)
  OBVIOUS
<1>2. /\ Len(gates) = 1 + (t - j)
      /\ gates[1] = H(j - 1)
      /\ \A c \in 1 .. t - j : gates[c + 1] = CP(Pow2[t - 1 - c], j - 1 + c, j - 1)
  <2> DEFINE phases == [c \in 1 .. t - j |-> CP(Pow2[t - 1 - c], j - 1 + c, j - 1)]
             G == {H(j - 1)} \cup {phases[c] : c \in 1 .. t - j}
  <2>1. PICK l \in Nat : l = t - j
    OBVIOUS
  <2>2. \A c \in 1 .. l : phases[c] \in G
    BY <2>1
  <2>3. phases = [c \in 1 .. l |-> phases[c]]
    BY <2>1
  <2>4. \A c \in 1 .. t - j : phases[c] = CP(Pow2[t - 1 - c], j - 1 + c, j - 1)
    OBVIOUS
  <2>5. <<H(j - 1)>> \in Seq(G)
    OBVIOUS
  <2>6. gates = <<H(j - 1)>> \o phases
    BY <1>1 DEF ForwardBlock
  <2> HIDE DEF phases, G
  <2>7. phases \in Seq(G) /\ Len(phases) = t - j
    BY <2>1, <2>2, <2>3
  <2>8. /\ Len(gates) = 1 + (t - j) /\ gates[1] = H(j - 1)
        /\ \A c \in 1 .. t - j : gates[c + 1] = phases[c]
    BY <2>5, <2>6, <2>7
  <2> QED
    BY <2>4, <2>8
<1> DEFINE f == [i \in 0 .. 1 + (t - j) |->
                    IF i = 0 THEN AfterForward(t, k, j - 1) ELSE InForward(t, k, j, i - 1)]
<1>3. f[0] = AfterForward(t, k, j - 1)
      /\ \A i \in 1 .. 1 + (t - j) : f[i] = InForward(t, k, j, i - 1)
  OBVIOUS
<1> HIDE DEF f
<1>4. Apply(t, AfterForward(t, k, j - 1), H(j - 1)) = InForward(t, k, j, 0)
  <2>1. PICK reg : reg = AfterForward(t, k, j - 1)
    OBVIOUS
  <2>2. H(j - 1).op = "h" /\ H(j - 1).a + 1 = j
    BY DEF H
  <2>3. Apply(t, reg, H(j - 1)) = [reg EXCEPT ![j] = Hadamard(t, reg[j])]
    BY <2>2 DEF Apply
  <2>4. reg[j] = ReadBit(t, k, j)
    BY <2>1 DEF AfterForward
  <2>5. Hadamard(t, reg[j]) = Turned(t, k, t - j, j) /\ t - j - 0 = t - j
    BY <2>4, HadamardTurns
  <2>6. [reg EXCEPT ![j] = Turned(t, k, t - j, j)] = InForward(t, k, j, 0)
    BY <2>1, <2>5 DEF AfterForward, InForward
  <2> QED
    BY <2>1, <2>3, <2>5, <2>6
<1>5. ASSUME NEW c \in 1 .. t - j
      PROVE  Apply(t, InForward(t, k, j, c - 1), CP(Pow2[t - 1 - c], j - 1 + c, j - 1))
                 = InForward(t, k, j, c)
  <2>1. PICK reg : reg = InForward(t, k, j, c - 1)
    OBVIOUS
  <2>2. PICK g : g = CP(Pow2[t - 1 - c], j - 1 + c, j - 1)
    OBVIOUS
  <2>3. PICK i \in 1 .. t : i = j + c /\ i > j /\ t - i = t - j - c
    OBVIOUS
  <2>4. g.op = "cp" /\ g.a + 1 = i /\ g.b + 1 = j /\ g.phase = Pow2[t - 1 - c]
    BY <2>2, <2>3 DEF CP
  <2>5. reg[i] = Basis(Bit(k, t - j - c)) /\ reg[j] = Turned(t, k, t - j - (c - 1), j)
    BY <2>1, <2>3 DEF InForward, ReadBit
  <2>6. reg[i].kind = "basis" /\ reg[i].value = Bit(k, t - j - c) /\ reg[j].kind # "basis"
    BY <2>5 DEF Basis, Turned, Phase
  <2>7. Apply(t, reg, g) = ControlledPhase(t, reg, g.a, g.b, g.phase)
    BY <2>4 DEF Apply
  <2>8. ControlledPhase(t, reg, g.a, g.b, g.phase)
            = [reg EXCEPT ![j] = Turn(t, reg[j], Pow2[t - 1 - c] * Bit(k, t - j - c))]
    <3>1. PICK a, b, p : a = g.a + 1 /\ b = g.b + 1 /\ p = g.phase
      OBVIOUS
    <3>2. reg[a].kind = "basis" /\ reg[b].kind # "basis"
      BY <2>4, <2>6, <3>1
    <3>3. ControlledPhase(t, reg, g.a, g.b, g.phase)
              = [reg EXCEPT ![b] = Turn(t, reg[b], p * reg[a].value)]
      BY <3>1, <3>2 DEF ControlledPhase
    <3>4. a = i /\ b = j /\ p = Pow2[t - 1 - c] /\ reg[a].value = Bit(k, t - j - c)
      BY <2>4, <2>6, <3>1
    <3> QED
      BY <3>3, <3>4
  <2>9. Turn(t, reg[j], Pow2[t - 1 - c] * Bit(k, t - j - c)) = Turned(t, k, t - j - c, j)
    BY <2>5, PhaseTurnsOn
  <2>10. [reg EXCEPT ![j] = Turned(t, k, t - j - c, j)] = InForward(t, k, j, c)
    BY <2>1 DEF InForward
  <2> QED
    BY <2>1, <2>2, <2>7, <2>8, <2>9, <2>10
<1>6. ASSUME NEW i \in 1 .. 1 + (t - j)
      PROVE  f[i] = Apply(t, f[i - 1], gates[i])
  <2>1. CASE i = 1
    BY <1>2, <1>3, <1>4, <2>1
  <2>2. CASE i # 1
    <3>1. PICK c \in 1 .. t - j : c = i - 1 /\ i = c + 1 /\ c \in 1 .. 1 + (t - j)
      BY <2>2
    <3>2. f[i] = InForward(t, k, j, c) /\ f[i - 1] = InForward(t, k, j, c - 1)
      BY <1>3, <3>1
    <3> QED
      BY <1>2, <1>5, <3>1, <3>2
  <2> QED
    BY <2>1, <2>2
<1>7. IsRun(f, t, AfterForward(t, k, j - 1), gates, Len(gates)) /\ Len(gates) \in Nat
  BY <1>2, <1>3, <1>6 DEF IsRun
<1>8. Gates(t, AfterForward(t, k, j - 1), gates) = f[1 + (t - j)]
  BY <1>2, <1>7, GatesReach
<1>9. f[1 + (t - j)] = InForward(t, k, j, t - j)
  BY <1>3
<1>10. InForward(t, k, j, t - j) = AfterForward(t, k, j)
  <2>1. t - j - (t - j) = 0
    OBVIOUS
  <2> QED
    BY <2>1 DEF InForward, AfterForward
<1> QED
  BY <1>1, <1>8, <1>9, <1>10

\* qft.py's transform takes a number to the phases that it kicks back: the product
\* form of the discrete Fourier transform, for any number of qubits.
LEMMA ForwardTransforms ==
    ASSUME NEW t \in Nat \ {0}, NEW k \in Nat
    PROVE  /\ QFT(t) \in Seq(GateSet)
           /\ Gates(t, BasisState(t, k), QFT(t)) = Kickback(t, k)
<1> DEFINE blocks == [j \in 1 .. t |-> ForwardBlock(t, j)]
           r == [j \in 0 .. t |-> AfterForward(t, k, j)]
<1>1. ASSUME NEW j \in 1 .. t PROVE ForwardBlock(t, j) \in Seq(GateSet)
  <2>1. H(j - 1) \in GateSet
    BY DEF H, GateSet
  <2>2. ASSUME NEW c \in 1 .. t - j
        PROVE  CP(Pow2[t - 1 - c], j - 1 + c, j - 1) \in GateSet
    <3>1. t - 1 - c \in Nat
      OBVIOUS
    <3>2. Pow2[t - 1 - c] \in Int
      BY <3>1, Powers
    <3> QED
      BY <3>2 DEF CP, GateSet
  <2>3. PICK l \in Nat : l = t - j
    OBVIOUS
  <2>4. [c \in 1 .. t - j |-> CP(Pow2[t - 1 - c], j - 1 + c, j - 1)] \in Seq(GateSet)
    BY <2>2, <2>3
  <2>5. <<H(j - 1)>> \in Seq(GateSet)
    BY <2>1
  <2> QED
    BY <2>4, <2>5 DEF ForwardBlock
<1>2. blocks \in Seq(Seq(GateSet)) /\ Len(blocks) = t
  BY <1>1
<1>3. ASSUME NEW b \in 1 .. t PROVE Gates(t, r[b - 1], blocks[b]) = r[b]
  <2>1. r[b - 1] = AfterForward(t, k, b - 1) /\ r[b] = AfterForward(t, k, b)
        /\ blocks[b] = ForwardBlock(t, b)
    OBVIOUS
  <2> QED
    BY <2>1, ForwardBlockTurns
<1>4. r[0] = AfterForward(t, k, 0) /\ r[t] = AfterForward(t, k, t)
  OBVIOUS
<1>5. QFT(t) = Swaps(t) \o FlattenSeq(blocks)
  BY DEF QFT, ForwardBlock
<1> HIDE DEF blocks, r
<1>12. FlattenSeq(blocks) \in Seq(GateSet) /\ Gates(t, r[0], FlattenSeq(blocks)) = r[Len(blocks)]
  BY ZenonT(40), <1>2, <1>3, BlocksReach
<1>6. FlattenSeq(blocks) \in Seq(GateSet)
      /\ Gates(t, AfterForward(t, k, 0), FlattenSeq(blocks)) = AfterForward(t, k, t)
  BY <1>2, <1>4, <1>12
<1>7. Swaps(t) \in Seq(GateSet)
  BY SwapsAre
<1>8. QFT(t) \in Seq(GateSet)
  BY <1>5, <1>6, <1>7
<1>9. Gates(t, BasisState(t, k), Swaps(t)) = AfterForward(t, k, 0)
  <2>1. PICK reg : reg = BasisState(t, k)
    OBVIOUS
  <2>2. \A j \in 1 .. t : t + 1 - j \in 1 .. t /\ ~(j <= 0) /\ (t + 1 - j) - 1 = t - j
    OBVIOUS
  <2>3. \A j \in 1 .. t : reg[t + 1 - j] = ReadBit(t, k, j)
    BY <2>1, <2>2 DEF BasisState, ReadBit
  <2>4. reg = [j \in 1 .. t |-> reg[j]]
    BY <2>1 DEF BasisState
  <2>5. Gates(t, reg, Swaps(t)) = [j \in 1 .. t |-> reg[t + 1 - j]]
    BY <2>4, SwapsTurnRound
  <2> QED
    BY <2>1, <2>2, <2>3, <2>5 DEF AfterForward
<1>10. AfterForward(t, k, t) = Kickback(t, k)
  <2>1. Kickback(t, k) = AfterBlocks(t, k, 0)
    BY NothingRead
  <2>2. \A j \in 1 .. t : j <= t /\ ~(j > t - 0)
    OBVIOUS
  <2> QED
    BY <2>1, <2>2 DEF AfterForward, AfterBlocks
<1>11. Gates(t, BasisState(t, k), QFT(t)) = Kickback(t, k)
  BY <1>5, <1>6, <1>7, <1>9, <1>10, GatesSplit
<1> QED
  BY <1>8, <1>11

\* qft.py:47-66, for any number of qubits: the transform takes the basis state of
\* a number to the product of phases that is its discrete Fourier transform, and
\* the inverse construction, of other gates in another order, takes it back.
THEOREM InverseUndoesTransform ==
    ASSUME NEW t \in Nat \ {0}, NEW k \in Nat
    PROVE  /\ Gates(t, BasisState(t, k), QFT(t)) = Kickback(t, k)
           /\ Gates(t, BasisState(t, k), QFT(t) \o InverseQFT(t)) = BasisState(t, k)
<1>1. InverseQFT(t) \in Seq(GateSet)
  <2>1. PICK blocks : blocks = [pos \in 1 .. t |-> Block(t, pos)]
    OBVIOUS
  <2>2. InverseQFT(t) = FlattenSeq(blocks) \o Swaps(t)
    BY <2>1 DEF InverseQFT, Block
  <2>3. FlattenSeq(blocks) \in Seq(GateSet) /\ Swaps(t) \in Seq(GateSet)
    BY <2>1, BlocksRead, SwapsAre
  <2> QED
    BY <2>2, <2>3
<1> QED
  BY <1>1, ForwardTransforms, InverseTransforms, GatesSplit

--------------------------------------------------------------------------------
(* Vectors, gate after gate, and the bits of basis states.                   *)

\* A vector, and each gate applied to what the gates before it left.
IsPath(f, t, psi, gates, n) ==
    /\ f[0] = psi
    /\ \A k \in 1 .. n : f[k] = After(t, f[k - 1], gates[k])

\* A value is handed on as it is.
LEMMA GateHandedOn ==
    ASSUME NEW t, NEW v, NEW g
    PROVE  With(v, LAMBDA phi : After(t, phi, g)) = After(t, v, g)
  BY DEF With

\* Through, which its recursive equation defines, is the end of a run.
LEMMA ThroughRun ==
    ASSUME NEW t, NEW psi, NEW gates, Len(gates) \in Nat
    PROVE  \E f : IsPath(f, t, psi, gates, Len(gates)) /\ Through(t, psi, gates) = f[Len(gates)]
<1> DEFINE N == Len(gates)
           Eq(f, n) == f = [i \in 0 .. n |->
               IF i = 0 THEN psi ELSE After(t, f[i - 1], gates[i])]
           S == {n \in Nat : \E f : Eq(f, n)}
<1>1. 0 \in S
  <2>1. Eq([i \in 0 .. 0 |-> psi], 0)
    OBVIOUS
  <2> QED
    BY <2>1
<1>2. ASSUME NEW n \in S PROVE n + 1 \in S
  <2>1. PICK f : Eq(f, n)
    OBVIOUS
  <2> DEFINE g == [i \in 0 .. n + 1 |-> IF i = n + 1 THEN After(t, f[n], gates[n + 1]) ELSE f[i]]
  <2>2. \A i \in 0 .. n : g[i] = f[i]
    OBVIOUS
  <2>3. g[n + 1] = After(t, g[n], gates[n + 1])
    BY <2>2
  <2>4. \A i \in 0 .. n + 1 : g[i] = IF i = 0 THEN psi ELSE After(t, g[i - 1], gates[i])
    <3>1. TAKE i \in 0 .. n + 1
    <3>2. CASE i = n + 1
      BY <2>3, <3>2
    <3>3. CASE i # n + 1
      <4>1. i \in 0 .. n /\ (i # 0 => i - 1 \in 0 .. n)
        BY <3>3
      <4>2. f[i] = IF i = 0 THEN psi ELSE After(t, f[i - 1], gates[i])
        BY <2>1, <4>1
      <4> QED
        BY <2>2, <4>1, <4>2
    <3> QED
      BY <3>2, <3>3
  <2>5. g = [i \in 0 .. n + 1 |-> g[i]]
    OBVIOUS
  <2> HIDE DEF g
  <2>6. Eq(g, n + 1)
    BY <2>4, <2>5
  <2>7. n + 1 \in Nat
    OBVIOUS
  <2> HIDE DEF Eq
  <2> QED
    BY <2>6, <2>7
<1>3. S \in SUBSET Nat
  OBVIOUS
<1>4. N \in S
  <2> HIDE DEF S
  <2> QED
    BY <1>1, <1>2, <1>3, NumberInduction
<1>5. PICK f : Eq(f, N)
  BY <1>4
<1> DEFINE W(s) == [i \in 0 .. N |->
        IF i = 0 THEN psi ELSE With(s[i - 1], LAMBDA phi : After(t, phi, gates[i]))]
<1>6. \A s : W(s) = [i \in 0 .. N |-> IF i = 0 THEN psi ELSE After(t, s[i - 1], gates[i])]
  BY GateHandedOn
<1>7. f = W(f)
  BY <1>5, <1>6
<1> DEFINE state == CHOOSE s : s = W(s)
<1>8. state = W(state)
  BY <1>7
<1>9. Through(t, psi, gates) = state[N]
  BY DEF Through
<1>10. \A i \in 0 .. N : state[i] = IF i = 0 THEN psi ELSE After(t, state[i - 1], gates[i])
  <2> HIDE DEF state, W
  <2>1. state = [i \in 0 .. N |-> IF i = 0 THEN psi ELSE After(t, state[i - 1], gates[i])]
    BY <1>6, <1>8
  <2> QED
    BY <2>1
<1>11. IsPath(state, t, psi, gates, N)
  <2> HIDE DEF state
  <2> QED
    BY <1>10 DEF IsPath
<1> QED
  BY <1>9, <1>11

\* There is one run: a register for each gate that follows from the one before
\* ends with what the gates do.
LEMMA ThroughReach ==
    ASSUME NEW t, NEW psi, NEW gates, Len(gates) \in Nat,
           NEW f, IsPath(f, t, psi, gates, Len(gates))
    PROVE  Through(t, psi, gates) = f[Len(gates)]
<1>1. PICK g : IsPath(g, t, psi, gates, Len(gates)) /\ Through(t, psi, gates) = g[Len(gates)]
  BY ThroughRun
<1> DEFINE S == {n \in Nat : n <= Len(gates) => f[n] = g[n]}
<1>2. 0 \in S
  BY <1>1 DEF IsPath
<1>3. ASSUME NEW n \in S PROVE n + 1 \in S
  <2>1. CASE n + 1 <= Len(gates)
    <3>1. f[n] = g[n] /\ n + 1 \in 1 .. Len(gates) /\ (n + 1) - 1 = n
      BY <2>1
    <3> QED
      BY <1>1, <3>1 DEF IsPath
  <2> QED
    BY <2>1
<1>4. S \in SUBSET Nat
  OBVIOUS
<1>5. Len(gates) \in S
  <2> HIDE DEF S
  <2> QED
    BY <1>2, <1>3, <1>4, NumberInduction
<1> QED
  BY <1>1, <1>5

\* Gates one sequence after the other.
LEMMA ThroughSplit ==
    ASSUME NEW t, NEW psi, NEW G, NEW a \in Seq(G), NEW b \in Seq(G)
    PROVE  Through(t, psi, a \o b) = Through(t, Through(t, psi, a), b)
<1>1. PICK f : IsPath(f, t, psi, a, Len(a)) /\ Through(t, psi, a) = f[Len(a)]
  BY ThroughRun
<1>2. PICK g : IsPath(g, t, f[Len(a)], b, Len(b)) /\ Through(t, f[Len(a)], b) = g[Len(b)]
  BY ThroughRun
<1>3. PICK c : c = a \o b
  OBVIOUS
<1>4. /\ c \in Seq(G) /\ Len(c) = Len(a) + Len(b) /\ Len(a) \in Nat /\ Len(b) \in Nat
      /\ \A k \in 1 .. Len(a) + Len(b) : c[k] = IF k <= Len(a) THEN a[k] ELSE b[k - Len(a)]
  BY <1>3
<1> DEFINE h == [k \in 0 .. Len(a) + Len(b) |-> IF k <= Len(a) THEN f[k] ELSE g[k - Len(a)]]
<1>5. h[0] = psi
  BY <1>1, <1>4 DEF IsPath
<1>6. ASSUME NEW k \in 1 .. Len(a) + Len(b)
      PROVE  h[k] = After(t, h[k - 1], c[k])
  <2>1. CASE k <= Len(a)
    <3>1. k \in 1 .. Len(a) /\ k - 1 \in 0 .. Len(a)
      BY <1>4, <2>1
    <3>2. h[k] = f[k] /\ h[k - 1] = f[k - 1]
      BY <1>4, <3>1
    <3>3. c[k] = a[k]
      BY <1>4, <3>1
    <3>4. f[k] = After(t, f[k - 1], a[k])
      BY <1>1, <3>1 DEF IsPath
    <3> HIDE DEF h
    <3> QED
      BY <3>2, <3>3, <3>4
  <2>2. CASE k = Len(a) + 1
    <3>1. h[k - 1] = f[Len(a)] /\ h[k] = g[1] /\ c[k] = b[1] /\ 1 \in 1 .. Len(b)
      BY <1>4, <2>2
    <3>2. g[1] = After(t, g[1 - 1], b[1]) /\ g[0] = f[Len(a)]
      BY <1>2, <3>1 DEF IsPath
    <3> QED
      BY <3>1, <3>2
  <2>3. CASE k > Len(a) + 1
    <3>1. PICK l \in 1 .. Len(b) : l = k - Len(a)
      BY <1>4, <2>3
    <3>2. h[k - 1] = g[l - 1] /\ h[k] = g[l] /\ c[k] = b[l]
      BY <1>4, <2>3, <3>1
    <3> QED
      BY <1>2, <3>2 DEF IsPath
  <2> QED
    BY <1>4, <2>1, <2>2, <2>3
<1>7. h[Len(c)] = g[Len(b)]
  <2>1. CASE Len(b) = 0
    BY <1>2, <1>4, <2>1 DEF IsPath
  <2>2. CASE Len(b) # 0
    BY <1>4, <2>2
  <2> QED
    BY <2>1, <2>2
<1> HIDE DEF h
<1>8. IsPath(h, t, psi, c, Len(c))
  BY <1>4, <1>5, <1>6 DEF IsPath
<1>10. Len(c) \in Nat
  BY <1>4
<1>9. Through(t, psi, c) = h[Len(c)]
  BY <1>8, <1>10, ThroughReach
<1> QED
  BY <1>1, <1>2, <1>3, <1>7, <1>9

\* No gate.
LEMMA ThroughNone ==
    ASSUME NEW t, NEW psi
    PROVE  Through(t, psi, <<>>) = psi
<1>1. IsPath([k \in {0} |-> psi], t, psi, <<>>, Len(<<>>))
  BY DEF IsPath
<1>2. Len(<<>>) = 0 /\ Len(<<>>) \in Nat
  OBVIOUS
<1> QED
  BY <1>1, <1>2, ThroughReach

\* One gate.
LEMMA ThroughOne ==
    ASSUME NEW t, NEW psi, NEW g
    PROVE  Through(t, psi, <<g>>) = After(t, psi, g)
<1> DEFINE f == [k \in {0, 1} |-> IF k = 0 THEN psi ELSE After(t, psi, g)]
<1>1. Len(<<g>>) = 1 /\ Len(<<g>>) \in Nat /\ <<g>>[1] = g
  OBVIOUS
<1>2. f[0] = psi /\ f[1] = After(t, psi, g)
  OBVIOUS
<1>3. \A k \in 1 .. 1 : k = 1 /\ k - 1 = 0
  OBVIOUS
<1> HIDE DEF f
<1>4. IsPath(f, t, psi, <<g>>, Len(<<g>>))
  BY <1>1, <1>2, <1>3 DEF IsPath
<1>5. Through(t, psi, <<g>>) = f[Len(<<g>>)]
  BY <1>1, <1>4, ThroughReach
<1> QED
  BY <1>1, <1>2, <1>5

\* Basis states.
States(t) == 0 .. Pow2[t] - 1

\* A greater power is an even multiple of a smaller one.
LEMMA PowersDivide ==
    ASSUME NEW p \in Nat, NEW d \in Nat
    PROVE  \E R \in Nat \ {0} : Pow2[p + d + 1] = 2 * R * Pow2[p]
<1> DEFINE S == {n \in Nat : \E R \in Nat \ {0} : Pow2[p + n + 1] = 2 * R * Pow2[p]}
<1>1. 0 \in S
  <2>1. Pow2[p] \in Nat \ {0} /\ Pow2[p + 1] = 2 * Pow2[p] /\ p + 0 + 1 = p + 1
    BY Powers
  <2>2. Pow2[p + 0 + 1] = 2 * 1 * Pow2[p]
    BY <2>1
  <2> QED
    BY <2>2
<1>2. ASSUME NEW n \in S PROVE n + 1 \in S
  <2>1. PICK R \in Nat \ {0} : Pow2[p + n + 1] = 2 * R * Pow2[p]
    OBVIOUS
  <2>2. Pow2[p + (n + 1) + 1] = 2 * Pow2[p + n + 1]
    <3>1. p + n + 1 \in Nat /\ p + (n + 1) + 1 = (p + n + 1) + 1
      OBVIOUS
    <3> QED
      BY <3>1, Powers
  <2>3. PICK P \in Nat \ {0} : P = Pow2[p]
    BY Powers
  <2>4. 2 * (2 * R * P) = 2 * (2 * R) * P /\ 2 * R \in Nat \ {0}
    OBVIOUS
  <2>5. Pow2[p + (n + 1) + 1] = 2 * (2 * R) * Pow2[p]
    BY <2>1, <2>2, <2>3, <2>4
  <2>6. PICK R2 \in Nat \ {0} : R2 = 2 * R
    OBVIOUS
  <2>7. Pow2[p + (n + 1) + 1] = 2 * R2 * Pow2[p] /\ n + 1 \in Nat
    BY <2>5, <2>6
  <2> QED
    BY <2>7
<1>3. S \in SUBSET Nat
  OBVIOUS
<1>4. d \in S
  <2> HIDE DEF S
  <2> QED
    BY <1>1, <1>2, <1>3, NumberInduction
<1> QED
  BY <1>4

\* Dividing twice.
LEMMA DivideTwice ==
    ASSUME NEW k \in Int, NEW a \in Nat \ {0}, NEW b \in Nat \ {0}
    PROVE  k \div (a * b) = (k \div a) \div b
<1>1. PICK x \in Int, s \in 0 .. a - 1 : x = k \div a /\ k = a * x + s
  BY Division
<1>2. PICK y \in Int, u \in 0 .. b - 1 : y = x \div b /\ x = b * y + u
  BY Division
<1>3. k = (a * b) * y + (a * u + s)
  <2>1. a * x = a * (b * y) + a * u
    BY <1>2
  <2>2. a * (b * y) = (a * b) * y
    OBVIOUS
  <2> QED
    BY <1>1, <2>1, <2>2
<1>4. a * u + s \in 0 .. a * b - 1 /\ a * b \in Nat \ {0}
  <2>1. a * u >= 0 /\ a * u \in Int /\ a * b \in Int
    OBVIOUS
  <2>2. a * (b - 1 - u) >= 0
    OBVIOUS
  <2>3. a * (b - 1 - u) = a * b - a - a * u
    OBVIOUS
  <2>4. a * b > 0
    OBVIOUS
  <2> QED
    BY <2>1, <2>2, <2>3, <2>4
<1>5. k \div (a * b) = y
  BY <1>3, <1>4, DivisionUnique
<1> QED
  BY <1>1, <1>2, <1>5

\* A bit, and the number without it.
LEMMA BitSplits ==
    ASSUME NEW i \in Nat, NEW q \in Nat
    PROVE  \E z \in Nat : \E l \in 0 .. Pow2[q] - 1 :
              /\ i = Pow2[q] * (2 * z + Bit(i, q)) + l
              /\ z = i \div Pow2[q + 1]
<1>1. PICK Q \in Nat \ {0} : Q = Pow2[q] /\ Pow2[q + 1] = 2 * Q
  BY Powers
<1>2. PICK x \in Int, l \in 0 .. Q - 1 : x = i \div Q /\ i = Q * x + l
  BY Division
<1>3. x = 2 * (i \div (2 * Q)) + (x % 2) /\ i \div (2 * Q) = x \div 2
  <2>1. i \in Int
    OBVIOUS
  <2>2. i \div Q = 2 * (i \div (2 * Q)) + ((i \div Q) % 2) /\ i \div (2 * Q) = (i \div Q) \div 2
    BY <2>1, NextBit
  <2> QED
    BY <1>2, <2>2
<1>4. x >= 0
  <2>1. CASE x <= -1
    <3>1. Q * (-1 - x) >= 0
      BY <2>1
    <3>2. Q * (-1 - x) = -Q - Q * x
      OBVIOUS
    <3> QED
      BY <1>2, <3>1, <3>2
  <2> QED
    BY <2>1
<1>5. PICK z \in Nat : z = i \div (2 * Q)
  BY <1>2, <1>3, <1>4
<1>6. Bit(i, q) = x % 2
  BY <1>1, <1>2 DEF Bit
<1>7. i = Q * (2 * z + Bit(i, q)) + l
  BY <1>2, <1>3, <1>5, <1>6
<1> QED
  BY <1>1, <1>5, <1>7

\* A number put together of what is above bit q, that bit, and what is below.
Parts(i, q, z, b, l) ==
    z \in Nat /\ b \in {0, 1} /\ l \in 0 .. Pow2[q] - 1 /\ i = Pow2[q] * (2 * z + b) + l

\* Its bit q is that bit.
LEMMA BitReads ==
    ASSUME NEW q \in Nat, NEW z, NEW b, NEW l, NEW i, Parts(i, q, z, b, l)
    PROVE  /\ i \in Nat
           /\ Bit(i, q) = b
           /\ i \div Pow2[q + 1] = z
<1>1. PICK Q \in Nat \ {0} : Q = Pow2[q] /\ Pow2[q + 1] = 2 * Q
  BY Powers
<1>7. z \in Nat /\ b \in {0, 1} /\ l \in 0 .. Q - 1 /\ i = Q * (2 * z + b) + l
  BY <1>1 DEF Parts
<1>2. Q * (2 * z + b) \in Nat /\ 2 * z + b \in Nat
  BY <1>7
<1>3. i \in Nat /\ i \in Int
  BY <1>2, <1>7
<1>4. i \div Q = 2 * z + b
  <2>1. PICK y \in Int : y = 2 * z + b /\ i = Q * y + l
    BY <1>7
  <2>2. l \in 0 .. Q - 1
    BY <1>7
  <2>3. i \div Q = y
    BY <1>3, <2>1, <2>2, DivisionUnique
  <2> QED
    BY <2>1, <2>3
<1>5. (2 * z + b) % 2 = b
  BY <1>7
<1>6. i \div (2 * Q) = (2 * z + b) \div 2
  BY <1>1, <1>3, <1>4, NextBit
<1>8. (2 * z + b) \div 2 = z
  BY <1>7
<1> QED
  BY <1>1, <1>3, <1>4, <1>5, <1>6, <1>8 DEF Bit

\* Flipping a bit: that bit, and back.
LEMMA FlipTurns ==
    ASSUME NEW i \in Nat, NEW q \in Nat
    PROVE  /\ Bit(i, q) \in {0, 1}
           /\ Flipped(i, q) \in Nat
           /\ Bit(Flipped(i, q), q) = 1 - Bit(i, q)
           /\ Flipped(Flipped(i, q), q) = i
           /\ Flipped(i, q) \div Pow2[q + 1] = i \div Pow2[q + 1]
<1>1. PICK Q \in Nat \ {0} : Q = Pow2[q]
  BY Powers
<1>2. PICK b \in {0, 1} : b = Bit(i, q)
  BY <1>1 DEF Bit
<1>3. PICK z \in Nat, l \in 0 .. Q - 1 :
         i = Q * (2 * z + b) + l /\ z = i \div Pow2[q + 1]
  BY <1>1, <1>2, BitSplits
<1>4. PICK j : j = Flipped(i, q)
  OBVIOUS
<1>5. j = i + (1 - 2 * b) * Q
  BY <1>1, <1>2, <1>4 DEF Flipped, Sign
<1>10. PICK m \in Nat : m = Q * z /\ Q * (2 * z + 0) = 2 * m /\ Q * (2 * z + 1) = 2 * m + Q
  <2>1. Q * z \in Nat /\ Q * (2 * z + 0) = 2 * (Q * z) /\ Q * (2 * z + 1) = 2 * (Q * z) + Q
    OBVIOUS
  <2> QED
    BY <2>1
<1>11. PICK c \in {0, 1} : c = 1 - b
  OBVIOUS
<1>6. j = Q * (2 * z + c) + l
  <2>1. CASE b = 0
    <3>1. i = Q * (2 * z + 0) + l
      BY <1>3, <2>1
    <3>2. j = i + Q /\ c = 1
      BY <1>5, <1>11, <2>1
    <3> QED
      BY <1>10, <3>1, <3>2
  <2>2. CASE b = 1
    <3>1. i = Q * (2 * z + 1) + l
      BY <1>3, <2>2
    <3>2. j = i - Q /\ c = 0
      BY <1>5, <1>11, <2>2
    <3> QED
      BY <1>10, <3>1, <3>2
  <2> QED
    BY <2>1, <2>2
<1>7. j \in Nat /\ Bit(j, q) = 1 - b /\ j \div Pow2[q + 1] = z
  <2>1. Parts(j, q, z, c, l)
    BY <1>1, <1>6 DEF Parts
  <2>2. j \in Nat /\ Bit(j, q) = c /\ j \div Pow2[q + 1] = z
    BY <2>1, BitReads
  <2> QED
    BY <1>11, <2>2
<1>8. Flipped(j, q) = j + (1 - 2 * (1 - b)) * Q
  BY <1>1, <1>7 DEF Flipped, Sign
<1>9. j + (1 - 2 * (1 - b)) * Q = i
  <2>1. CASE b = 0
    <3>1. j = i + Q
      BY <1>5, <2>1
    <3> QED
      BY <2>1, <3>1
  <2>2. CASE b = 1
    <3>1. j = i - Q
      BY <1>5, <2>2
    <3> QED
      BY <2>2, <3>1
  <2> QED
    BY <2>1, <2>2
<1> QED
  BY <1>2, <1>3, <1>4, <1>7, <1>8, <1>9

\* Flipping a bit leaves the others alone.
LEMMA FlipKeeps ==
    ASSUME NEW i \in Nat, NEW q \in Nat, NEW p \in Nat, p # q
    PROVE  Bit(Flipped(i, q), p) = Bit(i, p)
<1>1. PICK j : j = Flipped(i, q) /\ j \in Nat /\ j \div Pow2[q + 1] = i \div Pow2[q + 1]
  BY FlipTurns
<1>2. CASE p > q
  <2>1. PICK d \in Nat : d = p - q - 1 /\ p = q + d + 1
    BY <1>2
  <2>2. PICK P \in Nat \ {0}, Q2 \in Nat \ {0} : P = Pow2[p] /\ Q2 = Pow2[q + 1]
    <3>1. q + 1 \in Nat
      OBVIOUS
    <3> QED
      BY <3>1, Powers
  <2>3. \E R \in Nat \ {0} : P = Q2 * R
    <3>1. PICK R \in Nat \ {0} : Pow2[p] = 2 * R * Pow2[q]
      BY ZenonT(40), <2>1, PowersDivide
    <3>2. PICK Q \in Nat \ {0} : Q = Pow2[q] /\ Q2 = 2 * Q
      BY <2>2, Powers
    <3>3. 2 * R * Q = (2 * Q) * R
      OBVIOUS
    <3> QED
      BY <2>2, <3>1, <3>2, <3>3
  <2>4. PICK R \in Nat \ {0} : P = Q2 * R
    BY <2>3
  <2>5. i \div P = (i \div Q2) \div R /\ j \div P = (j \div Q2) \div R
    BY <1>1, <2>4, DivideTwice
  <2> QED
    BY <1>1, <2>2, <2>5 DEF Bit
<1>3. CASE p < q
  <2>1. PICK d \in Nat : d = q - p - 1 /\ q = p + d + 1
    BY <1>3
  <2>2. PICK P \in Nat \ {0} : P = Pow2[p]
    BY Powers
  <2>3. PICK R \in Nat \ {0} : Pow2[q] = 2 * R * P
    <3>1. \E R \in Nat \ {0} : Pow2[p + d + 1] = 2 * R * Pow2[p]
      BY PowersDivide
    <3> QED
      BY <2>1, <2>2, <3>1
  <2>4. PICK x \in Int, s \in 0 .. P - 1 : x = i \div P /\ i = P * x + s
    BY Division
  <2>5. PICK g \in {1, -1} : j = i + g * (2 * R * P)
    <3>1. Bit(i, q) \in {0, 1}
      BY FlipTurns
    <3>2. Sign(i, q) \in {1, -1}
      BY <3>1 DEF Sign
    <3> QED
      BY <1>1, <2>3, <3>2 DEF Flipped
  <2>6. j = P * (x + 2 * (g * R)) + s
    <3>1. PICK m \in Int : m = g * R
      BY <2>5
    <3>2. j = (P * x + s) + g * (2 * R * P)
      BY <2>4, <2>5
    <3>3. g * (2 * R * P) = 2 * (m * P)
      <4>1. CASE g = 1
        BY <3>1, <4>1
      <4>2. CASE g = -1
        BY <3>1, <4>2
      <4> QED
        BY <4>1, <4>2
    <3>4. P * (x + 2 * m) = P * x + 2 * (m * P)
      BY <3>1
    <3> QED
      BY <3>1, <3>2, <3>3, <3>4
  <2>7. PICK h \in Int : h = g * R
    BY <2>5
  <2>10. PICK y \in Int : y = x + 2 * h /\ j = P * y + s /\ j \in Int
    BY <1>1, <2>6, <2>7
  <2>8. j \div P = x + 2 * h
    BY <2>10, DivisionUnique
  <2>9. (x + 2 * h) % 2 = x % 2
    OBVIOUS
  <2> QED
    BY <1>1, <2>2, <2>4, <2>8, <2>9 DEF Bit
<1> QED
  BY <1>2, <1>3

\* Basis states whose bits agree are one, and a bit more or less stays inside.
LEMMA BitsTell ==
    ASSUME NEW t \in Nat, NEW i \in States(t), NEW j \in States(t),
           \A q \in 0 .. t - 1 : Bit(i, q) = Bit(j, q)
    PROVE  i = j
<1>0. i \in Nat /\ j \in Nat
  <2>1. Pow2[t] \in Nat
    BY Powers
  <2> QED
    BY <2>1 DEF States
<1> DEFINE S == {n \in Nat : n <= t => i \div Pow2[t - n] = j \div Pow2[t - n]}
<1>1. 0 \in S
  <2>1. PICK N \in Nat \ {0} : N = Pow2[t]
    BY Powers
  <2>2. \A k \in 0 .. N - 1 : k = N * 0 + k /\ 0 \in Int /\ k \in Int
    OBVIOUS
  <2>3. \A k \in 0 .. N - 1 : k \div N = 0
    BY <2>2, DivisionUnique
  <2>4. t - 0 = t
    OBVIOUS
  <2> QED
    BY <2>1, <2>3, <2>4 DEF States
<1>2. ASSUME NEW n \in S PROVE n + 1 \in S
  <2>1. CASE n + 1 <= t
    <3>1. PICK m \in Nat : m = t - (n + 1) /\ m + 1 = t - n /\ m \in 0 .. t - 1 /\ n <= t
      BY <2>1
    <3>2. i \div Pow2[m] = 2 * (i \div Pow2[m + 1]) + Bit(i, m)
      BY <1>0, BitsOf
    <3>3. j \div Pow2[m] = 2 * (j \div Pow2[m + 1]) + Bit(j, m)
      BY <1>0, BitsOf
    <3>4. Bit(i, m) = Bit(j, m) /\ i \div Pow2[m + 1] = j \div Pow2[m + 1]
      BY <3>1
    <3>5. i \div Pow2[m] = j \div Pow2[m]
      BY <3>2, <3>3, <3>4
    <3> QED
      BY <3>1, <3>5
  <2> QED
    BY <2>1
<1>3. S \in SUBSET Nat
  OBVIOUS
<1>4. t \in S
  <2> HIDE DEF S
  <2> QED
    BY <1>1, <1>2, <1>3, NumberInduction
<1>5. i \div Pow2[0] = j \div Pow2[0]
  BY <1>4
<1>6. Pow2[0] = 1 /\ i \div 1 = i /\ j \div 1 = j
  BY <1>0, Powers
<1> QED
  BY <1>5, <1>6

\* Flipping stays among the basis states, and the order of two flips is none.
LEMMA FlipStays ==
    ASSUME NEW t \in Nat, NEW i \in States(t), NEW q \in 0 .. t - 1
    PROVE  Flipped(i, q) \in States(t)
<1>1. PICK N \in Nat \ {0} : N = Pow2[t] /\ i \in 0 .. N - 1 /\ i \in Nat /\ q \in Nat
  BY Powers DEF States
<1>2. PICK j : j = Flipped(i, q) /\ j \in Nat /\ j \div Pow2[q + 1] = i \div Pow2[q + 1]
  BY <1>1, FlipTurns
<1>3. j \div N = i \div N
  <2>1. CASE q + 1 = t
    BY <1>1, <1>2, <2>1
  <2>2. CASE q + 1 # t
    <3>1. PICK d \in Nat : d = t - (q + 1) - 1 /\ t = (q + 1) + d + 1 /\ q + 1 \in Nat
      BY <2>2
    <3>2. PICK R \in Nat \ {0} : Pow2[t] = 2 * R * Pow2[q + 1]
      <4>1. PICK m \in Nat : m = q + 1 /\ t = m + d + 1
        BY <3>1
      <4>2. \E R \in Nat \ {0} : Pow2[m + d + 1] = 2 * R * Pow2[m]
        BY PowersDivide
      <4> QED
        BY <4>1, <4>2
    <3>3. PICK Q2 \in Nat \ {0} : Q2 = Pow2[q + 1]
      BY <3>1, Powers
    <3>4. N = Q2 * (2 * R) /\ 2 * R \in Nat \ {0}
      BY <1>1, <3>2, <3>3
    <3>5. i \div N = (i \div Q2) \div (2 * R) /\ j \div N = (j \div Q2) \div (2 * R)
      <4>1. PICK m \in Nat \ {0} : m = 2 * R
        BY <3>4
      <4>2. \A k \in Int : k \div (Q2 * m) = (k \div Q2) \div m
        BY DivideTwice
      <4>3. N = Q2 * m /\ i \in Int /\ j \in Int
        BY <1>1, <1>2, <3>4, <4>1
      <4> QED
        BY <4>1, <4>2, <4>3
    <3> QED
      BY <1>2, <3>3, <3>5
  <2> QED
    BY <2>1, <2>2
<1>4. i \div N = 0
  <2>1. i = N * 0 + i /\ i \in Int /\ 0 \in Int
    BY <1>1
  <2> QED
    BY <1>1, <2>1, DivisionUnique
<1>5. j = N * (j \div N) + (j % N) /\ j % N \in 0 .. N - 1
  <2>1. j \in Int
    BY <1>2
  <2> QED
    BY <1>1, <2>1, Division
<1>6. j \in 0 .. N - 1
  <2>1. PICK r \in 0 .. N - 1 : r = j % N /\ j = N * (j \div N) + r
    BY <1>5
  <2>2. j \div N = 0
    BY <1>3, <1>4
  <2> QED
    BY <2>1, <2>2
<1> QED
  BY <1>1, <1>2, <1>6 DEF States

\* The order of two flips does not matter.
LEMMA FlipsCommute ==
    ASSUME NEW i \in Nat, NEW p \in Nat, NEW q \in Nat, p # q
    PROVE  Flipped(Flipped(i, p), q) = Flipped(Flipped(i, q), p)
<1>1. PICK P \in Nat \ {0}, Q \in Nat \ {0} : P = Pow2[p] /\ Q = Pow2[q]
  BY Powers
<1>2. PICK a \in {0, 1}, b \in {0, 1} : a = Bit(i, p) /\ b = Bit(i, q)
  BY FlipTurns
<1>3. Bit(Flipped(i, p), q) = b /\ Bit(Flipped(i, q), p) = a
  BY <1>2, FlipKeeps
<1>4. Flipped(Flipped(i, p), q) = i + (1 - 2 * a) * P + (1 - 2 * b) * Q
  BY <1>1, <1>2, <1>3 DEF Flipped, Sign
<1>5. Flipped(Flipped(i, q), p) = i + (1 - 2 * b) * Q + (1 - 2 * a) * P
  BY <1>1, <1>2, <1>3 DEF Flipped, Sign
<1>6. (1 - 2 * a) * P \in Int /\ (1 - 2 * b) * Q \in Int
  OBVIOUS
<1> QED
  BY <1>4, <1>5, <1>6

--------------------------------------------------------------------------------
(* The searches: real vectors, known up to a factor, and what circuits make of them.*)

\* Real amplitudes of t qubits.
Amps(t) == [States(t) -> Int]

\* A vector is known up to a factor: psi is real and proportional to v.
Shows(t, psi, v) ==
    /\ psi \in [1 .. Pow2[t] -> Int \X Int]
    /\ \E c \in Nat \ {0}, d \in Int \ {0} :
          \A i \in States(t) : psi[i + 1][2] = 0 /\ c * psi[i + 1][1] = d * v[i]

\* What a gate of the searches does to real amplitudes.
Acted(g, v, i) ==
    IF \E q \in g.on : Bit(i, q) = 0 THEN v[i]
    ELSE CASE g.op = "phase" -> IF i \in g.arg THEN -v[i] ELSE v[i]
           [] g.op = "x" -> v[Flipped(i, g.qubit)]
           [] g.op = "z" -> Sign(i, g.qubit) * v[i]
           [] g.op = "h" -> Sign(i, g.qubit) * v[i] + v[Flipped(i, g.qubit)]

\* A gate of the searches on a qubit that there is.
SearchGate(t, g) ==
    /\ g.op \in {"phase", "x", "z", "h"}
    /\ g.op # "phase" => g.qubit \in 0 .. t - 1

\* A gate's vector is written out amplitude by amplitude.
LEMMA AfterIs ==
    ASSUME NEW t \in Nat, NEW g, NEW psi
    PROVE  After(t, psi, g) = Halved([i \in 1 .. Pow2[t] |-> Amplitude(g, psi, i - 1)])
<1>1. PICK N \in Nat \ {0} : N = Pow2[t]
  BY Powers
<1>2. PICK f : f = [i \in 1 .. N |-> Amplitude(g, psi, i - 1)]
  OBVIOUS
<1>3. \E T : f \in Seq(T) /\ Len(f) = N
  <2>1. PICK T : T = {f[i] : i \in 1 .. N}
    OBVIOUS
  <2>2. f \in [1 .. N -> T]
    BY <1>2, <2>1
  <2>3. f \in Seq(T) /\ Len(f) = N
    BY <2>2
  <2> QED
    BY <2>3
<1>4. SubSeq(f, 1, N) = f
  BY <1>2, <1>3
<1>5. Vector(t, LAMBDA i : Amplitude(g, psi, i)) = f
  BY <1>1, <1>2, <1>4 DEF Vector
<1> QED
  BY <1>1, <1>2, <1>5 DEF After, With

\* Halving, or not.
LEMMA HalvedShows ==
    ASSUME NEW t \in Nat, NEW psi, NEW v, Shows(t, psi, v)
    PROVE  Shows(t, Halved(psi), v)
<1>1. PICK N \in Nat \ {0} : N = Pow2[t]
  BY Powers
<1>2. psi \in [1 .. N -> Int \X Int]
  BY <1>1 DEF Shows
<1>3. PICK c \in Nat \ {0}, d \in Int \ {0} :
         \A i \in States(t) : psi[i + 1][2] = 0 /\ c * psi[i + 1][1] = d * v[i]
  BY DEF Shows
<1>4. CASE \A i \in DOMAIN psi : psi[i][1] % 2 = 0 /\ psi[i][2] % 2 = 0
  <2>1. PICK phi : phi = Halved(psi)
    OBVIOUS
  <2>2. phi = [i \in 1 .. N |-> <<psi[i][1] \div 2, psi[i][2] \div 2>>]
    BY <1>2, <1>4, <2>1 DEF Halved
  <2>3. \A i \in 1 .. N : psi[i][1] \in Int /\ psi[i][2] \in Int
    BY <1>2
  <2>4. phi \in [1 .. N -> Int \X Int]
    BY <2>2, <2>3
  <2>5. PICK c2 \in Nat \ {0} : c2 = 2 * c
    OBVIOUS
  <2>6. \A i \in States(t) : phi[i + 1][2] = 0 /\ c2 * phi[i + 1][1] = d * v[i]
    <3>1. TAKE i \in States(t)
    <3>2. i + 1 \in 1 .. N
      BY <1>1 DEF States
    <3>3. PICK x \in Int : x = psi[i + 1][1] /\ x % 2 = 0 /\ psi[i + 1][2] = 0 /\ c * x = d * v[i]
      BY <1>2, <1>3, <1>4, <2>3, <3>2
    <3>4. phi[i + 1][1] = x \div 2 /\ phi[i + 1][2] = 0
      BY <2>2, <3>2, <3>3
    <3>5. PICK y \in Int : y = x \div 2 /\ x = 2 * y
      BY <3>3
    <3>6. c2 * y = c * x
      BY <2>5, <3>5
    <3> QED
      BY <3>3, <3>4, <3>5, <3>6
  <2>7. Shows(t, phi, v)
    BY <1>1, <2>4, <2>6 DEF Shows
  <2> QED
    BY <2>1, <2>7
<1>5. CASE ~(\A i \in DOMAIN psi : psi[i][1] % 2 = 0 /\ psi[i][2] % 2 = 0)
  <2>1. Halved(psi) = psi
    BY <1>5 DEF Halved
  <2> QED
    BY <2>1
<1> QED
  BY <1>4, <1>5

\* A gate acts on proportional vectors alike.
LEMMA GateShows ==
    ASSUME NEW t \in Nat, NEW g, SearchGate(t, g), NEW psi, NEW v \in Amps(t), Shows(t, psi, v)
    PROVE  Shows(t, After(t, psi, g), [i \in States(t) |-> Acted(g, v, i)])
<1>1. PICK N \in Nat \ {0} : N = Pow2[t]
  BY Powers
<1>2. psi \in [1 .. N -> Int \X Int]
  BY <1>1 DEF Shows
<1>3. PICK c \in Nat \ {0}, d \in Int \ {0} :
         \A i \in States(t) : psi[i + 1][2] = 0 /\ c * psi[i + 1][1] = d * v[i]
  BY DEF Shows
<1>4. PICK phi : phi = [i \in 1 .. N |-> Amplitude(g, psi, i - 1)]
  OBVIOUS
<1>5. ASSUME NEW i \in States(t)
      PROVE  /\ Amplitude(g, psi, i) \in Int \X Int
             /\ Amplitude(g, psi, i)[2] = 0
             /\ c * Amplitude(g, psi, i)[1] = d * Acted(g, v, i)
  <2>1. PICK j : j = Flipped(i, g.qubit)
    OBVIOUS
  <2>2. g.op # "phase" => j \in States(t) /\ Sign(i, g.qubit) \in {1, -1}
    <3>1. i \in Nat
      BY <1>1 DEF States
    <3>2. g.op # "phase" => g.qubit \in Nat /\ g.qubit \in 0 .. t - 1
      BY DEF SearchGate
    <3>3. CASE g.op # "phase"
      <4>1. j \in States(t) /\ Bit(i, g.qubit) \in {0, 1}
        BY <2>1, <3>1, <3>2, <3>3, FlipStays, FlipTurns
      <4> QED
        BY <4>1 DEF Sign
    <3> QED
      BY <3>3
  <2>3. \A k \in States(t) : v[k] \in Int /\ psi[k + 1] \in Int \X Int
                             /\ psi[k + 1] = <<psi[k + 1][1], psi[k + 1][2]>>
    <3>1. \A k \in States(t) : k + 1 \in 1 .. N
      BY <1>1 DEF States
    <3> QED
      BY <1>2, <3>1 DEF Amps
  <2>4. PICK a \in Int : psi[i + 1] = <<a, 0>> /\ c * a = d * v[i]
    BY <1>3, <2>3
  <2>5. g.op # "phase" => \E b \in Int : psi[j + 1] = <<b, 0>> /\ c * b = d * v[j]
    BY <1>3, <2>2, <2>3
  <2>6. PICK x \in Int : x = v[i]
    BY <2>3
  <2>7. CASE \E q \in g.on : Bit(i, q) = 0
    <3>1. Amplitude(g, psi, i) = <<a, 0>> /\ Acted(g, v, i) = v[i]
      BY <2>4, <2>7 DEF Amplitude, Acted
    <3> QED
      BY <2>4, <3>1
  <2>8. CASE g.op = "phase" /\ ~(\E q \in g.on : Bit(i, q) = 0)
    <3>1. CASE i \in g.arg
      <4>1. Amplitude(g, psi, i) = <<-a, 0>> /\ Acted(g, v, i) = -x
        BY <2>4, <2>6, <2>8, <3>1 DEF Amplitude, Acted, Scaled
      <4>2. c * (-a) = d * (-x)
        BY <2>4, <2>6
      <4> QED
        BY <4>1, <4>2
    <3>2. CASE i \notin g.arg
      <4>1. Amplitude(g, psi, i) = <<a, 0>> /\ Acted(g, v, i) = x
        BY <2>4, <2>6, <2>8, <3>2 DEF Amplitude, Acted, Scaled
      <4> QED
        BY <2>4, <2>6, <4>1
    <3> QED
      BY <3>1, <3>2
  <2>9. CASE g.op # "phase" /\ ~(\E q \in g.on : Bit(i, q) = 0)
    <3>1. PICK b \in Int : psi[j + 1] = <<b, 0>> /\ c * b = d * v[j]
      BY <2>5, <2>9
    <3>2. PICK y \in Int : y = v[j]
      BY <2>2, <2>3, <2>9
    <3>3. PICK s \in {1, -1} : s = Sign(i, g.qubit)
      BY <2>2, <2>9
    <3>4. c * (s * a) = d * (s * x) /\ c * (s * a + b) = d * (s * x + y)
      <4>1. PICK k \in Int, l \in Int : k = s * a /\ l = s * x
        OBVIOUS
      <4>2. c * a = d * x /\ c * b = d * y
        BY <2>4, <2>6, <3>1, <3>2
      <4>3. c * k = d * l
        <5>1. CASE s = 1
          BY <4>1, <4>2, <5>1
        <5>2. CASE s = -1
          <6>1. k = -a /\ l = -x
            BY <4>1, <5>2
          <6>2. c * (-a) = -(c * a) /\ d * (-x) = -(d * x)
            OBVIOUS
          <6> QED
            BY <4>2, <6>1, <6>2
        <5> QED
          BY <5>1, <5>2
      <4>4. c * (k + b) = c * k + c * b /\ d * (l + y) = d * l + d * y
        OBVIOUS
      <4> QED
        BY <4>1, <4>2, <4>3, <4>4
    <3>5. CASE g.op = "x"
      <4>1. Amplitude(g, psi, i) = <<b, 0>> /\ Acted(g, v, i) = y
        BY <2>1, <2>9, <3>1, <3>2, <3>5 DEF Amplitude, Acted
      <4> QED
        BY <3>1, <3>2, <4>1
    <3>6. CASE g.op = "z"
      <4>1. Amplitude(g, psi, i) = <<s * a, 0>> /\ Acted(g, v, i) = s * x
        BY <2>4, <2>6, <2>9, <3>3, <3>6 DEF Amplitude, Acted, Scaled
      <4> QED
        BY <3>4, <4>1
    <3>7. CASE g.op = "h"
      <4>1. Amplitude(g, psi, i) = <<s * a + b, 0>> /\ Acted(g, v, i) = s * x + y
        BY <2>1, <2>4, <2>6, <2>9, <3>1, <3>2, <3>3, <3>7 DEF Amplitude, Acted, Scaled
      <4> QED
        BY <3>4, <4>1
    <3> QED
      BY <2>9, <3>5, <3>6, <3>7 DEF SearchGate
  <2> QED
    BY <2>7, <2>8, <2>9
<1>6. phi \in [1 .. N -> Int \X Int]
  <2>1. \A k \in 1 .. N : k - 1 \in States(t)
    BY <1>1 DEF States
  <2> QED
    BY <1>4, <1>5, <2>1
<1>7. PICK w : w = [i \in States(t) |-> Acted(g, v, i)]
  OBVIOUS
<1>8. \A i \in States(t) : phi[i + 1][2] = 0 /\ c * phi[i + 1][1] = d * w[i]
  <2>1. TAKE i \in States(t)
  <2>2. i + 1 \in 1 .. N /\ (i + 1) - 1 = i
    BY <1>1 DEF States
  <2>3. phi[i + 1] = Amplitude(g, psi, i) /\ w[i] = Acted(g, v, i)
    BY <1>4, <1>7, <2>2
  <2> QED
    BY <1>5, <2>3
<1>9. Shows(t, phi, w)
  BY <1>1, <1>6, <1>8 DEF Shows
<1>10. After(t, psi, g) = Halved(phi)
  BY <1>1, <1>4, AfterIs
<1> QED
  BY <1>7, <1>9, <1>10, HalvedShows

\* A circuit makes of every vector that shows v one that shows w.
Makes(t, gates, v, w) ==
    \A psi : Shows(t, psi, v) => Shows(t, Through(t, psi, gates), w)

\* One circuit after the other.
LEMMA MakesJoin ==
    ASSUME NEW t, NEW G, NEW a \in Seq(G), NEW b \in Seq(G), NEW u, NEW v, NEW w,
           Makes(t, a, u, v), Makes(t, b, v, w)
    PROVE  Makes(t, a \o b, u, w)
  BY ThroughSplit DEF Makes

\* No gate, and one gate of the searches.
LEMMA NothingMakes ==
    ASSUME NEW t, NEW v
    PROVE  Makes(t, <<>>, v, v)
  BY ThroughNone DEF Makes

\* One gate.
LEMMA GateMakes ==
    ASSUME NEW t \in Nat, NEW g, SearchGate(t, g), NEW v \in Amps(t)
    PROVE  Makes(t, <<g>>, v, [i \in States(t) |-> Acted(g, v, i)])
<1> SUFFICES ASSUME NEW psi, Shows(t, psi, v)
             PROVE  Shows(t, Through(t, psi, <<g>>), [i \in States(t) |-> Acted(g, v, i)])
  BY DEF Makes
<1>1. Through(t, psi, <<g>>) = After(t, psi, g)
  BY ThroughOne
<1> QED
  BY <1>1, GateShows

\* A factor that is not 0 does not show.
LEMMA FactorHidden ==
    ASSUME NEW t \in Nat, NEW psi, NEW v, NEW w, NEW k \in Int \ {0},
           w \in Amps(t), v \in Amps(t), \A i \in States(t) : v[i] = k * w[i], Shows(t, psi, v)
    PROVE  Shows(t, psi, w)
<1>1. PICK c \in Nat \ {0}, d \in Int \ {0} :
         \A i \in States(t) : psi[i + 1][2] = 0 /\ c * psi[i + 1][1] = d * v[i]
  BY DEF Shows
<1>2. PICK e \in Int \ {0} : e = d * k
  <2>1. d * k \in Int /\ d * k # 0
    OBVIOUS
  <2> QED
    BY <2>1
<1>3. \A i \in States(t) : d * v[i] = e * w[i]
  <2>1. TAKE i \in States(t)
  <2>2. PICK x \in Int : x = w[i]
    BY DEF Amps
  <2>3. d * (k * x) = (d * k) * x
    OBVIOUS
  <2> QED
    BY <1>2, <2>2, <2>3
<1>4. \A i \in States(t) : psi[i + 1][2] = 0 /\ c * psi[i + 1][1] = e * w[i]
  BY <1>1, <1>3
<1> QED
  BY <1>4 DEF Shows

\* So neither does one in what a circuit makes.
LEMMA MakesUpToFactor ==
    ASSUME NEW t \in Nat, NEW gates, NEW u, NEW v \in Amps(t), NEW w \in Amps(t), NEW k \in Int \ {0},
           \A i \in States(t) : v[i] = k * w[i], Makes(t, gates, u, v)
    PROVE  Makes(t, gates, u, w)
  BY FactorHidden DEF Makes

\* A sequence of blocks, each of which makes of one vector the next.
LEMMA BlocksMake ==
    ASSUME NEW t, NEW G, NEW blocks \in Seq(Seq(G)), NEW v,
           \A b \in 1 .. Len(blocks) : Makes(t, blocks[b], v[b - 1], v[b])
    PROVE  /\ FlattenSeq(blocks) \in Seq(G)
           /\ Makes(t, FlattenSeq(blocks), v[0], v[Len(blocks)])
<1>1. CASE Len(blocks) = 0
  <2>1. blocks = <<>>
    BY <1>1
  <2>2. FlattenSeq(blocks) = <<>>
    BY <2>1 DEF FlattenSeq
  <2> QED
    BY <1>1, <2>2, NothingMakes
<1>2. CASE Len(blocks) # 0
  <2>1. PICK f : /\ f[1] = blocks[1]
                 /\ \A i \in 1 .. Len(blocks) : i # 1 => f[i] = f[i - 1] \o blocks[i]
                 /\ \A i \in 1 .. Len(blocks) : f[i] \in Seq(G)
                 /\ FlattenSeq(blocks) = f[Len(blocks)]
    BY <1>2, FlattenJoins
  <2> DEFINE S == {n \in Nat : n + 1 \in 1 .. Len(blocks) => Makes(t, f[n + 1], v[0], v[n + 1])}
  <2>2. 0 \in S
    <3>1. 1 \in 1 .. Len(blocks)
      BY <1>2
    <3>2. Makes(t, blocks[1], v[1 - 1], v[1])
      BY <3>1
    <3> QED
      BY <2>1, <3>2
  <2>3. ASSUME NEW n \in S PROVE n + 1 \in S
    <3>1. CASE (n + 1) + 1 \in 1 .. Len(blocks)
      <4>1. PICK i \in 1 .. Len(blocks) : i = (n + 1) + 1
        BY <3>1
      <4>2. n + 1 \in 1 .. Len(blocks) /\ i - 1 = n + 1 /\ i # 1
        BY <4>1
      <4>3. blocks[i] \in Seq(G)
        OBVIOUS
      <4>4. f[i] = f[i - 1] \o blocks[i]
        BY <2>1, <4>2
      <4>5. f[n + 1] \in Seq(G) /\ f[i] = f[n + 1] \o blocks[i]
        BY <2>1, <4>2, <4>4
      <4>6. Makes(t, f[n + 1], v[0], v[n + 1])
        BY <4>2
      <4>7. Makes(t, blocks[i], v[n + 1], v[i])
        BY <4>2
      <4>8. Makes(t, f[i], v[0], v[i])
        BY <4>3, <4>5, <4>6, <4>7, MakesJoin
      <4> QED
        BY <4>1, <4>8
    <3> QED
      BY <3>1
  <2>4. S \in SUBSET Nat
    OBVIOUS
  <2>5. S = Nat
    <3> HIDE DEF S
    <3> QED
      BY <2>2, <2>3, <2>4, NumberInduction
  <2>6. Len(blocks) - 1 \in S
    <3>1. Len(blocks) - 1 \in Nat /\ Len(blocks) \in Nat
      BY <1>2
    <3> HIDE DEF S
    <3> QED
      BY <2>5, <3>1
  <2>7. Makes(t, f[Len(blocks)], v[0], v[Len(blocks)])
    BY <1>2, <2>6
  <2>8. f[Len(blocks)] \in Seq(G)
    BY <1>2, <2>1
  <2> QED
    BY <2>1, <2>7, <2>8
<1> QED
  BY <1>1, <1>2

\* The functions that a step defines from a start: there is one on all numbers.
LEMMA Iterates ==
    ASSUME NEW T, NEW a \in T, NEW F, \A k \in Nat : \A u \in T : F[<<k, u>>] \in T
    PROVE  \E f : /\ f[0] = a
                  /\ \A k \in Nat : f[k] \in T /\ f[k + 1] = F[<<k, f[k]>>]
<1> DEFINE Upto(f, n) == /\ f[0] = a
                         /\ \A k \in 0 .. n - 1 : f[k + 1] = F[<<k, f[k]>>]
                         /\ \A k \in 0 .. n : f[k] \in T
           S == {n \in Nat : \E f : Upto(f, n)}
<1>1. 0 \in S
  <2>1. Upto([k \in {0} |-> a], 0)
    OBVIOUS
  <2> HIDE DEF Upto
  <2> QED
    BY <2>1
<1>2. ASSUME NEW n \in S PROVE n + 1 \in S
  <2>1. PICK f : Upto(f, n)
    OBVIOUS
  <2> DEFINE g == [k \in 0 .. n + 1 |-> IF k = n + 1 THEN F[<<n, f[n]>>] ELSE f[k]]
  <2>2. \A k \in 0 .. n : g[k] = f[k]
    OBVIOUS
  <2>3. g[n + 1] = F[<<n, g[n]>>] /\ F[<<n, f[n]>>] \in T
    <3>1. f[n] \in T /\ n \in Nat /\ n + 1 \in 0 .. n + 1
      BY <2>1
    <3> QED
      BY SMTT(30), <2>2, <3>1
  <2> HIDE DEF g
  <2>4. g[0] = a
    BY <2>1, <2>2
  <2>5. \A k \in 0 .. (n + 1) - 1 : g[k + 1] = F[<<k, g[k]>>]
    <3>1. TAKE k \in 0 .. (n + 1) - 1
    <3>2. CASE k = n
      BY <2>3, <3>2
    <3>3. CASE k # n
      <4>1. k \in 0 .. n - 1 /\ k + 1 \in 0 .. n /\ k \in 0 .. n
        BY <3>3
      <4>2. f[k + 1] = F[<<k, f[k]>>]
        BY <2>1, <4>1
      <4> QED
        BY <2>2, <4>1, <4>2
    <3> QED
      BY <3>2, <3>3
  <2>6. \A k \in 0 .. n + 1 : g[k] \in T
    <3>1. TAKE k \in 0 .. n + 1
    <3>2. CASE k = n + 1
      <4>1. g[n + 1] \in T
        BY <2>2, <2>3
      <4> QED
        BY <3>2, <4>1
    <3>3. CASE k # n + 1
      BY <2>1, <2>2, <3>3
    <3> QED
      BY <3>2, <3>3
  <2>7. Upto(g, n + 1) /\ n + 1 \in Nat
    BY <2>4, <2>5, <2>6
  <2> HIDE DEF Upto
  <2> QED
    BY <2>7
<1>3. S \in SUBSET Nat
  OBVIOUS
<1>4. \A n \in Nat : \E f : Upto(f, n)
  <2> HIDE DEF Upto
  <2>1. S = Nat
    <3> HIDE DEF S
    <3> QED
      BY <1>1, <1>2, <1>3, NumberInduction
  <2> QED
    BY <2>1
<1> DEFINE upto(n) == CHOOSE f : Upto(f, n)
<1>5. \A n \in Nat : Upto(upto(n), n)
  <2> HIDE DEF Upto
  <2> QED
    BY <1>4
<1> HIDE DEF upto
<1>6. ASSUME NEW n \in Nat, NEW m \in Nat
      PROVE  \A k \in Nat : k <= n /\ k <= m => upto(n)[k] = upto(m)[k]
  <2> DEFINE R == {k \in Nat : k <= n /\ k <= m => upto(n)[k] = upto(m)[k]}
  <2>1. 0 \in R
    BY <1>5
  <2>2. ASSUME NEW k \in R PROVE k + 1 \in R
    <3>1. CASE k + 1 <= n /\ k + 1 <= m
      <4>1. k \in 0 .. n - 1 /\ k \in 0 .. m - 1 /\ upto(n)[k] = upto(m)[k]
        BY <3>1
      <4>2. upto(n)[k + 1] = F[<<k, upto(n)[k]>>] /\ upto(m)[k + 1] = F[<<k, upto(m)[k]>>]
        BY <1>5, <4>1
      <4> QED
        BY <4>1, <4>2
    <3> QED
      BY <3>1
  <2>3. R \in SUBSET Nat
    OBVIOUS
  <2>4. R = Nat
    <3> HIDE DEF R
    <3> QED
      BY <2>1, <2>2, <2>3, NumberInduction
  <2> QED
    BY <2>4
<1> DEFINE g == [n \in Nat |-> upto(n)[n]]
<1>7. \A n \in Nat : g[n] = upto(n)[n]
  OBVIOUS
<1> HIDE DEF g
<1>8. g[0] = a
  BY <1>5, <1>7
<1>9. ASSUME NEW k \in Nat PROVE g[k] \in T /\ g[k + 1] = F[<<k, g[k]>>]
  <2>1. k + 1 \in Nat /\ k \in 0 .. (k + 1) - 1 /\ k <= k + 1 /\ k <= k /\ k \in 0 .. k
    OBVIOUS
  <2>2. upto(k + 1)[k + 1] = F[<<k, upto(k + 1)[k]>>] /\ upto(k)[k] \in T
    BY <1>5, <2>1
  <2>3. upto(k + 1)[k] = upto(k)[k]
    BY <1>6, <2>1
  <2> QED
    BY <1>7, <2>1, <2>2, <2>3
<1> QED
  BY <1>8, <1>9

--------------------------------------------------------------------------------
(* H on every qubit is a transform.                                          *)

\* What H on qubit k does, up to its factor.
Mixed(t, k, u) == [i \in States(t) |-> Sign(i, k) * u[i] + u[Flipped(i, k)]]

\* f follows v through H on the qubits one after the other.
Transforms(t, v, f) ==
    /\ f[0] = v
    /\ \A k \in Nat : f[k] \in Amps(t) /\ f[k + 1] = IF k < t THEN Mixed(t, k, f[k]) ELSE f[k]

\* What H on qubits 0 .. j - 1 makes of v.
Transform(t, v, j) == (CHOOSE f : Transforms(t, v, f))[j]

\* a + c b.
Plus(t, a, c, b) == [i \in States(t) |-> a[i] + c * b[i]]

\* A basis state and the one across bit k.
LEMMA MixedAt ==
    ASSUME NEW t \in Nat, NEW k \in 0 .. t - 1, NEW u \in Amps(t), NEW i \in States(t)
    PROVE  \E j \in States(t) : \E s \in {1, -1} :
              /\ j = Flipped(i, k) /\ Flipped(j, k) = i
              /\ s = Sign(i, k) /\ Sign(j, k) = -s
              /\ u[i] \in Int /\ u[j] \in Int
              /\ Mixed(t, k, u)[i] = s * u[i] + u[j]
              /\ Mixed(t, k, u)[j] = -s * u[j] + u[i]
<1>1. i \in Nat /\ k \in Nat
  <2>1. Pow2[t] \in Nat
    BY Powers
  <2> QED
    BY <2>1 DEF States
<1>2. PICK j \in States(t) : j = Flipped(i, k)
  BY FlipStays
<1>3. Bit(i, k) \in {0, 1} /\ Bit(j, k) = 1 - Bit(i, k) /\ Flipped(j, k) = i
  BY <1>1, <1>2, FlipTurns
<1>4. PICK s \in {1, -1} : s = Sign(i, k) /\ Sign(j, k) = -s
  BY <1>3 DEF Sign
<1>5. u[i] \in Int /\ u[j] \in Int
  BY <1>2 DEF Amps
<1>6. Mixed(t, k, u)[i] = s * u[i] + u[j] /\ Mixed(t, k, u)[j] = Sign(j, k) * u[j] + u[i]
  BY <1>2, <1>3, <1>4 DEF Mixed
<1>7. Sign(j, k) * u[j] = -s * u[j]
  BY <1>4, <1>5
<1> QED
  BY <1>2, <1>3, <1>4, <1>5, <1>6, <1>7

\* Amplitudes stay integers.
LEMMA MixedIs ==
    ASSUME NEW t \in Nat, NEW k \in 0 .. t - 1, NEW u \in Amps(t)
    PROVE  Mixed(t, k, u) \in Amps(t)
<1>1. ASSUME NEW i \in States(t) PROVE Mixed(t, k, u)[i] \in Int
  <2>1. PICK j \in States(t), s \in {1, -1} :
           u[i] \in Int /\ u[j] \in Int /\ Mixed(t, k, u)[i] = s * u[i] + u[j]
    BY MixedAt
  <2> QED
    BY <2>1
<1>2. Mixed(t, k, u) = [i \in States(t) |-> Mixed(t, k, u)[i]]
  BY DEF Mixed
<1> QED
  BY <1>1, <1>2 DEF Amps

\* The transform qubit by qubit.
LEMMA TransformIs ==
    ASSUME NEW t \in Nat, NEW v \in Amps(t)
    PROVE  /\ Transform(t, v, 0) = v
           /\ \A j \in Nat : Transform(t, v, j) \in Amps(t)
           /\ \A j \in 0 .. t - 1 : Transform(t, v, j + 1) = Mixed(t, j, Transform(t, v, j))
<1> DEFINE F == [p \in Nat \X Amps(t) |-> IF p[1] < t THEN Mixed(t, p[1], p[2]) ELSE p[2]]
<1>1. ASSUME NEW k \in Nat, NEW u \in Amps(t)
      PROVE  F[<<k, u>>] \in Amps(t) /\ F[<<k, u>>] = IF k < t THEN Mixed(t, k, u) ELSE u
  <2>1. F[<<k, u>>] = IF k < t THEN Mixed(t, k, u) ELSE u
    OBVIOUS
  <2>2. k < t => Mixed(t, k, u) \in Amps(t)
    <3>1. k < t => k \in 0 .. t - 1
      OBVIOUS
    <3> QED
      BY <3>1, MixedIs
  <2> QED
    BY <2>1, <2>2
<1> HIDE DEF F
<1>2. PICK f : f[0] = v /\ \A k \in Nat : f[k] \in Amps(t) /\ f[k + 1] = F[<<k, f[k]>>]
  <2>1. PICK T, G : T = Amps(t) /\ G = F /\ v \in T
    OBVIOUS
  <2>2. \A k \in Nat : \A u \in T : G[<<k, u>>] \in T
    BY <1>1, <2>1
  <2>3. \E f : f[0] = v /\ \A k \in Nat : f[k] \in T /\ f[k + 1] = G[<<k, f[k]>>]
    BY <2>1, <2>2, Iterates
  <2> QED
    BY <2>1, <2>3
<1>3. \A k \in Nat : f[k] \in Amps(t) /\ f[k + 1] = IF k < t THEN Mixed(t, k, f[k]) ELSE f[k]
  BY <1>1, <1>2
<1>4. Transforms(t, v, f)
  BY <1>2, <1>3 DEF Transforms
<1>5. PICK h : h = (CHOOSE g : Transforms(t, v, g)) /\ Transforms(t, v, h)
  BY <1>4
<1>6. \A j : Transform(t, v, j) = h[j]
  BY <1>5 DEF Transform
<1> QED
  BY <1>5, <1>6 DEF Transforms

\* Vectors that agree are one.
LEMMA SameAmps ==
    ASSUME NEW t, NEW u \in Amps(t), NEW v \in Amps(t), \A i \in States(t) : u[i] = v[i]
    PROVE  u = v
  BY DEF Amps

\* Sums and multiples.
LEMMA PlusIs ==
    ASSUME NEW t \in Nat, NEW a \in Amps(t), NEW b \in Amps(t), NEW c \in Int
    PROVE  /\ Plus(t, a, c, b) \in Amps(t)
           /\ \A i \in States(t) : Plus(t, a, c, b)[i] = a[i] + c * b[i]
  BY DEF Plus, Amps

\* H is linear.
LEMMA MixedLinear ==
    ASSUME NEW t \in Nat, NEW k \in 0 .. t - 1, NEW a \in Amps(t), NEW b \in Amps(t), NEW c \in Int
    PROVE  Mixed(t, k, Plus(t, a, c, b)) = Plus(t, Mixed(t, k, a), c, Mixed(t, k, b))
<1>1. PICK u \in Amps(t) : u = Plus(t, a, c, b)
  BY PlusIs
<1>2. PICK x \in Amps(t), y \in Amps(t) : x = Mixed(t, k, a) /\ y = Mixed(t, k, b)
  BY MixedIs
<1>3. ASSUME NEW i \in States(t)
      PROVE  Mixed(t, k, u)[i] = Plus(t, x, c, y)[i]
  <2>1. PICK j \in States(t) : \E s \in {1, -1} :
              /\ j = Flipped(i, k) /\ Flipped(j, k) = i
              /\ s = Sign(i, k) /\ Sign(j, k) = -s
              /\ u[i] \in Int /\ u[j] \in Int
              /\ Mixed(t, k, u)[i] = s * u[i] + u[j]
              /\ Mixed(t, k, u)[j] = -s * u[j] + u[i]
    BY MixedAt
  <2>1a. PICK s \in {1, -1} :
              j = Flipped(i, k) /\ s = Sign(i, k) /\ Mixed(t, k, u)[i] = s * u[i] + u[j]
    BY <2>1
  <2>2. x[i] = s * a[i] + a[j] /\ y[i] = s * b[i] + b[j]
    BY <1>2, <2>1a DEF Mixed
  <2>3. u[i] = a[i] + c * b[i] /\ u[j] = a[j] + c * b[j]
    <3>1. \A m \in States(t) : Plus(t, a, c, b)[m] = a[m] + c * b[m]
      BY PlusIs
    <3> QED
      BY <1>1, <3>1
  <2>4. Plus(t, x, c, y)[i] = x[i] + c * y[i]
    BY PlusIs
  <2>5. PICK a1 \in Int, a2 \in Int, b1 \in Int, b2 \in Int :
           a1 = a[i] /\ a2 = a[j] /\ b1 = b[i] /\ b2 = b[j]
    BY DEF Amps
  <2>6. s * (a1 + c * b1) + (a2 + c * b2) = (s * a1 + a2) + c * (s * b1 + b2)
    <3>1. CASE s = 1
      BY <3>1
    <3>2. CASE s = -1
      BY <3>2
    <3> QED
      BY <3>1, <3>2
  <2> QED
    BY <2>1a, <2>2, <2>3, <2>4, <2>5, <2>6
<1>4. Mixed(t, k, u) \in Amps(t) /\ Plus(t, x, c, y) \in Amps(t)
  BY MixedIs, PlusIs
<1>5. Mixed(t, k, u) = Plus(t, x, c, y)
  BY <1>3, <1>4, SameAmps
<1> QED
  BY <1>1, <1>2, <1>5

\* H on two qubits, in either order.
LEMMA MixedCommutes ==
    ASSUME NEW t \in Nat, NEW p \in 0 .. t - 1, NEW q \in 0 .. t - 1, p # q, NEW u \in Amps(t)
    PROVE  Mixed(t, p, Mixed(t, q, u)) = Mixed(t, q, Mixed(t, p, u))
<1>1. PICK x \in Amps(t), y \in Amps(t) : x = Mixed(t, q, u) /\ y = Mixed(t, p, u)
  BY MixedIs
<1>2. ASSUME NEW i \in States(t)
      PROVE  Mixed(t, p, x)[i] = Mixed(t, q, y)[i]
  <2>1. PICK j \in States(t) : \E s \in {1, -1} :
              /\ j = Flipped(i, p) /\ Flipped(j, p) = i
              /\ s = Sign(i, p) /\ Sign(j, p) = -s
              /\ x[i] \in Int /\ x[j] \in Int
              /\ Mixed(t, p, x)[i] = s * x[i] + x[j]
              /\ Mixed(t, p, x)[j] = -s * x[j] + x[i]
    BY MixedAt
  <2>1a. PICK s \in {1, -1} :
              j = Flipped(i, p) /\ s = Sign(i, p) /\ Mixed(t, p, x)[i] = s * x[i] + x[j]
    BY <2>1
  <2>2. PICK k \in States(t) : \E r \in {1, -1} :
              /\ k = Flipped(i, q) /\ Flipped(k, q) = i
              /\ r = Sign(i, q) /\ Sign(k, q) = -r
              /\ y[i] \in Int /\ y[k] \in Int
              /\ Mixed(t, q, y)[i] = r * y[i] + y[k]
              /\ Mixed(t, q, y)[k] = -r * y[k] + y[i]
    BY MixedAt
  <2>2a. PICK r \in {1, -1} :
              k = Flipped(i, q) /\ r = Sign(i, q) /\ Mixed(t, q, y)[i] = r * y[i] + y[k]
    BY <2>2
  <2>3. i \in Nat /\ p \in Nat /\ q \in Nat
    <3>1. Pow2[t] \in Nat
      BY Powers
    <3> QED
      BY <3>1 DEF States
  <2>4. Sign(j, q) = r /\ Sign(k, p) = s
    <3>1. Bit(j, q) = Bit(i, q) /\ Bit(k, p) = Bit(i, p)
      BY <2>1a, <2>2a, <2>3, FlipKeeps
    <3> QED
      BY <2>1a, <2>2a, <3>1 DEF Sign
  <2>5. PICK l \in States(t) : l = Flipped(j, q) /\ l = Flipped(k, p)
    <3>1. Flipped(Flipped(i, p), q) = Flipped(Flipped(i, q), p)
      BY <2>3, FlipsCommute
    <3>2. Flipped(j, q) \in States(t)
      BY FlipStays
    <3> QED
      BY <2>1a, <2>2a, <3>1, <3>2
  <2>6. x[i] = r * u[i] + u[k] /\ x[j] = r * u[j] + u[l]
    BY <1>1, <2>2a, <2>4, <2>5 DEF Mixed
  <2>7. y[i] = s * u[i] + u[j] /\ y[k] = s * u[k] + u[l]
    BY <1>1, <2>1a, <2>4, <2>5 DEF Mixed
  <2>8. PICK a \in Int, b \in Int, c \in Int, d \in Int :
           a = u[i] /\ b = u[j] /\ c = u[k] /\ d = u[l]
    BY DEF Amps
  <2>9. s * (r * a + c) + (r * b + d) = r * (s * a + b) + (s * c + d)
    <3>1. CASE s = 1
      BY <3>1
    <3>2. CASE s = -1
      <4>1. CASE r = 1
        BY <3>2, <4>1
      <4>2. CASE r = -1
        BY <3>2, <4>2
      <4> QED
        BY <4>1, <4>2
    <3> QED
      BY <3>1, <3>2
  <2> QED
    BY <2>1a, <2>2a, <2>6, <2>7, <2>8, <2>9
<1>3. Mixed(t, p, x) \in Amps(t) /\ Mixed(t, q, y) \in Amps(t)
  BY MixedIs
<1>4. Mixed(t, p, x) = Mixed(t, q, y)
  BY <1>2, <1>3, SameAmps
<1> QED
  BY <1>1, <1>4

\* H twice is the identity, up to the factor 2.
LEMMA MixedTwice ==
    ASSUME NEW t \in Nat, NEW k \in 0 .. t - 1, NEW u \in Amps(t), NEW i \in States(t)
    PROVE  Mixed(t, k, Mixed(t, k, u))[i] = 2 * u[i]
<1>1. PICK x \in Amps(t) : x = Mixed(t, k, u)
  BY MixedIs
<1>2. PICK j \in States(t), s \in {1, -1} :
         /\ j = Flipped(i, k) /\ s = Sign(i, k)
         /\ u[i] \in Int /\ u[j] \in Int
         /\ x[i] = s * u[i] + u[j] /\ x[j] = -s * u[j] + u[i]
  BY <1>1, MixedAt
<1>3. Mixed(t, k, x)[i] = s * x[i] + x[j]
  BY <1>2 DEF Mixed
<1>4. PICK a \in Int, b \in Int : a = u[i] /\ b = u[j]
  BY <1>2
<1>5. s * (s * a + b) + (-s * b + a) = 2 * a
  <2>1. CASE s = 1
    BY <2>1
  <2>2. CASE s = -1
    BY <2>2
  <2> QED
    BY <2>1, <2>2
<1> QED
  BY <1>1, <1>2, <1>3, <1>4, <1>5

\* The numbers up to t, one after the other.
LEMMA CountUp ==
    ASSUME NEW t \in Nat, NEW S, 0 \in S, \A j \in 0 .. t - 1 : j \in S => j + 1 \in S
    PROVE  \A j \in 0 .. t : j \in S
<1> DEFINE R == {n \in Nat : n <= t => n \in S}
<1>1. 0 \in R
  OBVIOUS
<1>2. ASSUME NEW n \in R PROVE n + 1 \in R
  <2>1. n + 1 <= t => n \in 0 .. t - 1 /\ n \in S
    OBVIOUS
  <2> QED
    BY <2>1
<1>3. R \in SUBSET Nat
  OBVIOUS
<1>4. R = Nat
  <2> HIDE DEF R
  <2> QED
    BY <1>1, <1>2, <1>3, NumberInduction
<1> QED
  BY <1>4

\* The transform is linear.
LEMMA TransformLinear ==
    ASSUME NEW t \in Nat, NEW a \in Amps(t), NEW b \in Amps(t), NEW c \in Int
    PROVE  \A j \in 0 .. t :
              Transform(t, Plus(t, a, c, b), j) = Plus(t, Transform(t, a, j), c, Transform(t, b, j))
<1> DEFINE S == {j \in Nat :
              Transform(t, Plus(t, a, c, b), j) = Plus(t, Transform(t, a, j), c, Transform(t, b, j))}
<1>1. PICK u \in Amps(t) : u = Plus(t, a, c, b)
  BY PlusIs
<1>2. 0 \in S
  <2>1. Transform(t, u, 0) = u /\ Transform(t, a, 0) = a /\ Transform(t, b, 0) = b
    BY TransformIs
  <2> QED
    BY <1>1, <2>1
<1>3. ASSUME NEW j \in 0 .. t - 1, j \in S PROVE j + 1 \in S
  <2>1. PICK x \in Amps(t), y \in Amps(t) : x = Transform(t, a, j) /\ y = Transform(t, b, j)
    <3>1. j \in Nat
      OBVIOUS
    <3> QED
      BY <3>1, TransformIs
  <2>2. Transform(t, u, j) = Plus(t, x, c, y)
    BY <1>1, <1>3, <2>1
  <2>3. /\ Transform(t, u, j + 1) = Mixed(t, j, Transform(t, u, j))
        /\ Transform(t, a, j + 1) = Mixed(t, j, x)
        /\ Transform(t, b, j + 1) = Mixed(t, j, y)
    BY <2>1, TransformIs
  <2>4. Mixed(t, j, Plus(t, x, c, y)) = Plus(t, Mixed(t, j, x), c, Mixed(t, j, y))
    BY MixedLinear
  <2>5. j + 1 \in Nat
    OBVIOUS
  <2> QED
    BY <1>1, <2>2, <2>3, <2>4, <2>5
<1>4. \A j \in 0 .. t : j \in S
  <2> HIDE DEF S
  <2> QED
    BY <1>2, <1>3, CountUp
<1> QED
  BY <1>4

\* It commutes with H on a qubit it has not reached.
LEMMA TransformCommutes ==
    ASSUME NEW t \in Nat, NEW p \in 0 .. t - 1, NEW v \in Amps(t)
    PROVE  \A j \in 0 .. p : Transform(t, Mixed(t, p, v), j) = Mixed(t, p, Transform(t, v, j))
<1> DEFINE S == {j \in Nat : Transform(t, Mixed(t, p, v), j) = Mixed(t, p, Transform(t, v, j))}
<1>1. PICK u \in Amps(t) : u = Mixed(t, p, v)
  BY MixedIs
<1>2. 0 \in S
  <2>1. Transform(t, u, 0) = u /\ Transform(t, v, 0) = v
    BY TransformIs
  <2> QED
    BY <1>1, <2>1
<1>3. ASSUME NEW j \in 0 .. p - 1, j \in S PROVE j + 1 \in S
  <2>0. j \in Nat /\ j \in 0 .. t - 1 /\ j # p /\ j + 1 \in Nat
    OBVIOUS
  <2>1. PICK x \in Amps(t) : x = Transform(t, v, j)
    BY <2>0, TransformIs
  <2>2. Transform(t, u, j) = Mixed(t, p, x)
    BY <1>1, <1>3, <2>1
  <2>3. /\ Transform(t, u, j + 1) = Mixed(t, j, Transform(t, u, j))
        /\ Transform(t, v, j + 1) = Mixed(t, j, x)
    BY <2>0, <2>1, TransformIs
  <2>4. Mixed(t, j, Mixed(t, p, x)) = Mixed(t, p, Mixed(t, j, x))
    BY <2>0, MixedCommutes
  <2> QED
    BY <1>1, <2>0, <2>2, <2>3, <2>4
<1>4. p \in Nat /\ \A j \in 0 .. p : j \in S
  <2>1. p \in Nat
    OBVIOUS
  <2> HIDE DEF S
  <2> QED
    BY <1>2, <1>3, <2>1, CountUp
<1> QED
  BY <1>4

\* H on each of j qubits and once more: the factor is 2^j.
LEMMA TransformTwice ==
    ASSUME NEW t \in Nat, NEW v \in Amps(t)
    PROVE  \A j \in 0 .. t : \A i \in States(t) :
              Transform(t, Transform(t, v, j), j)[i] = Pow2[j] * v[i]
<1> DEFINE S == {j \in Nat : \A i \in States(t) :
              Transform(t, Transform(t, v, j), j)[i] = Pow2[j] * v[i]}
<1>2. 0 \in S
  <2>1. Transform(t, v, 0) = v /\ Transform(t, Transform(t, v, 0), 0) = v
    BY TransformIs
  <2>2. \A i \in States(t) : v[i] = 1 * v[i]
    BY DEF Amps
  <2> QED
    BY <2>1, <2>2, Powers
<1>3. ASSUME NEW j \in 0 .. t - 1, j \in S PROVE j + 1 \in S
  <2>0. j \in Nat /\ j + 1 \in Nat /\ j \in 0 .. j
    OBVIOUS
  <2>1. PICK x \in Amps(t) : x = Transform(t, v, j)
    BY <2>0, TransformIs
  <2>2. PICK y \in Amps(t) : y = Transform(t, x, j)
    BY <2>0, TransformIs
  <2>3. PICK u \in Amps(t) : u = Mixed(t, j, x) /\ u = Transform(t, v, j + 1)
    <3>1. Transform(t, v, j + 1) = Mixed(t, j, x) /\ Mixed(t, j, x) \in Amps(t)
      BY <2>1, TransformIs, MixedIs
    <3> QED
      BY <3>1
  <2>4. Transform(t, u, j) = Mixed(t, j, y)
    BY <2>0, <2>2, <2>3, TransformCommutes
  <2>5. Transform(t, u, j + 1) = Mixed(t, j, Mixed(t, j, y))
    BY <2>4, TransformIs
  <2>6. ASSUME NEW i \in States(t)
        PROVE  Transform(t, u, j + 1)[i] = Pow2[j + 1] * v[i]
    <3>1. Mixed(t, j, Mixed(t, j, y))[i] = 2 * y[i]
      BY MixedTwice
    <3>2. y[i] = Pow2[j] * v[i]
      BY <1>3, <2>1, <2>2
    <3>3. PICK P \in Nat, b \in Int : P = Pow2[j] /\ Pow2[j + 1] = 2 * P /\ b = v[i]
      BY <2>0, Powers DEF Amps
    <3>4. 2 * (P * b) = (2 * P) * b
      OBVIOUS
    <3> QED
      BY <2>5, <3>1, <3>2, <3>3, <3>4
  <2> QED
    BY <2>0, <2>3, <2>6
<1>4. \A j \in 0 .. t : j \in S
  <2> HIDE DEF S
  <2> QED
    BY <1>2, <1>3, CountUp
<1> QED
  BY <1>4

\* A multiple of 2^(j + 1) and the state across bit j.
LEMMA EvenBlock ==
    ASSUME NEW j \in Nat, NEW z \in Nat
    PROVE  \E i \in Nat : /\ i = Pow2[j + 1] * z
                          /\ i = Pow2[j] * (2 * z)
                          /\ Sign(i, j) = 1
                          /\ Flipped(i, j) = Pow2[j] * (2 * z + 1)
                          /\ Flipped(i, j) = i + Pow2[j]
                          /\ i + Pow2[j + 1] = Flipped(i, j) + Pow2[j]
<1>1. PICK P \in Nat \ {0} : P = Pow2[j] /\ Pow2[j + 1] = 2 * P
  BY Powers
<1>2. PICK i : i = Pow2[j + 1] * z
  OBVIOUS
<1>3. i = P * (2 * z) /\ P * (2 * z) = P * (2 * z + 0) + 0 /\ P * (2 * z + 1) = P * (2 * z) + P
  BY <1>1, <1>2
<1>4. Parts(i, j, z, 0, 0)
  BY <1>1, <1>3 DEF Parts
<1>5. i \in Nat /\ Bit(i, j) = 0
  BY <1>4, BitReads
<1>6. Sign(i, j) = 1
  BY <1>5 DEF Sign
<1>7. Flipped(i, j) = i + 1 * P
  BY <1>1, <1>6 DEF Flipped
<1>8. Flipped(i, j) = i + P /\ i + 2 * P = (i + P) + P
  BY <1>5, <1>7
<1> QED
  BY <1>1, <1>2, <1>3, <1>5, <1>6, <1>8

\* Amplitude 0 of a transform is the sum: S adds the amplitudes up one by one.
LEMMA TransformSums ==
    ASSUME NEW t \in Nat, NEW v \in Amps(t), NEW S,
           S[0] = 0,
           \A i \in States(t) : S[i] \in Int /\ S[i + 1] = S[i] + v[i],
           S[Pow2[t]] \in Int
    PROVE  Transform(t, v, t)[0] = S[Pow2[t]]
<1>1. PICK N \in Nat \ {0} : N = Pow2[t]
  BY Powers
<1>2. \A i \in 0 .. N : S[i] \in Int
  <2>1. \A i \in 0 .. N : i = N \/ i \in States(t)
    BY <1>1 DEF States
  <2> QED
    BY <1>1, <2>1
<1> DEFINE R == {j \in Nat : \A z \in Nat : Pow2[j] * z + Pow2[j] <= N =>
                    Transform(t, v, j)[Pow2[j] * z] = S[Pow2[j] * z + Pow2[j]] - S[Pow2[j] * z]}
<1>3. 0 \in R
  <2>1. Pow2[0] = 1 /\ Transform(t, v, 0) = v
    BY Powers, TransformIs
  <2>2. ASSUME NEW z \in Nat, z + 1 <= N PROVE v[z] = S[z + 1] - S[z]
    <3>1. z \in States(t)
      BY <1>1, <2>2 DEF States
    <3>2. PICK a \in Int, b \in Int : a = v[z] /\ b = S[z] /\ S[z + 1] = b + a
      BY <3>1 DEF Amps
    <3> QED
      BY <3>2
  <2>3. \A z \in Nat : 1 * z = z
    OBVIOUS
  <2> QED
    BY <2>1, <2>2, <2>3
<1>4. ASSUME NEW j \in 0 .. t - 1, j \in R PROVE j + 1 \in R
  <2>0. j \in Nat /\ j + 1 \in Nat
    OBVIOUS
  <2>1. PICK P \in Nat \ {0} : P = Pow2[j] /\ Pow2[j + 1] = 2 * P
    BY <2>0, Powers
  <2>2. PICK x \in Amps(t) : x = Transform(t, v, j)
    BY <2>0, TransformIs
  <2>3. Transform(t, v, j + 1) = Mixed(t, j, x)
    BY <2>2, TransformIs
  <2>4. ASSUME NEW z \in Nat, Pow2[j + 1] * z + Pow2[j + 1] <= N
        PROVE  Mixed(t, j, x)[Pow2[j + 1] * z] = S[Pow2[j + 1] * z + Pow2[j + 1]] - S[Pow2[j + 1] * z]
    <3>0. PICK i \in Nat : /\ i = Pow2[j + 1] * z
                           /\ i = Pow2[j] * (2 * z)
                           /\ Sign(i, j) = 1
                           /\ Flipped(i, j) = Pow2[j] * (2 * z + 1)
                           /\ Flipped(i, j) = i + Pow2[j]
                           /\ i + Pow2[j + 1] = Flipped(i, j) + Pow2[j]
      BY <2>0, EvenBlock
    <3>1. /\ i = Pow2[j + 1] * z
          /\ i = P * (2 * z)
          /\ Sign(i, j) = 1
          /\ Flipped(i, j) = P * (2 * z + 1)
          /\ Flipped(i, j) = i + P
          /\ i + Pow2[j + 1] = Flipped(i, j) + P
      BY <2>1, <3>0
    <3>2. i + 2 * P <= N
      BY <2>1, <2>4, <3>1
    <3>3. i \in States(t) /\ i \in 0 .. N /\ i + P \in 0 .. N /\ i + 2 * P \in 0 .. N
      BY <1>1, <3>2 DEF States
    <3>4. Mixed(t, j, x)[i] = 1 * x[i] + x[i + P]
      BY <3>1, <3>3 DEF Mixed
    <3>5. x[i] = S[i + P] - S[i]
      <4>1. 2 * z \in Nat /\ Pow2[j] * (2 * z) = i /\ i + Pow2[j] <= N
        BY <2>1, <3>1, <3>2
      <4> QED
        BY <1>4, <2>1, <2>2, <4>1
    <3>6. x[i + P] = S[i + 2 * P] - S[i + P]
      <4>1. PICK k \in Nat : k = i + P
        OBVIOUS
      <4>2. 2 * z + 1 \in Nat /\ Pow2[j] * (2 * z + 1) = k /\ k + Pow2[j] <= N /\ k + P = i + 2 * P
        BY <2>1, <3>1, <3>2, <4>1
      <4>3. x[k] = S[k + P] - S[k]
        BY <1>4, <2>1, <2>2, <4>2
      <4> QED
        BY <4>1, <4>2, <4>3
    <3>7. PICK a \in Int, b \in Int, c \in Int : a = S[i] /\ b = S[i + P] /\ c = S[i + 2 * P]
      BY <1>2, <3>3
    <3>8. Mixed(t, j, x)[i] = c - a
      BY <3>4, <3>5, <3>6, <3>7
    <3> QED
      BY <2>1, <3>1, <3>7, <3>8
  <2> QED
    BY <2>0, <2>3, <2>4
<1>5. t \in 0 .. t /\ \A j \in 0 .. t : j \in R
  <2>1. t \in 0 .. t
    OBVIOUS
  <2> HIDE DEF R
  <2> QED
    BY <1>3, <1>4, <2>1, CountUp
<1>6. N * 0 = 0 /\ 0 + N = N /\ 0 \in Nat /\ N <= N
  BY <1>1
<1>7. Transform(t, v, t)[0] = S[N] - S[0]
  <2>1. \A z \in Nat : Pow2[t] * z + Pow2[t] <= N =>
           Transform(t, v, t)[Pow2[t] * z] = S[Pow2[t] * z + Pow2[t]] - S[Pow2[t] * z]
    BY <1>5
  <2> HIDE DEF R
  <2>2. Pow2[t] * 0 + Pow2[t] <= N => Transform(t, v, t)[Pow2[t] * 0] = S[Pow2[t] * 0 + Pow2[t]] - S[Pow2[t] * 0]
    BY <2>1
  <2> QED
    BY <1>1, <1>6, <2>2
<1>8. S[N] \in Int
  BY <1>1
<1> QED
  BY <1>1, <1>7, <1>8

\* The ground state.
Zero(t) == [i \in States(t) |-> IF i = 0 THEN 1 ELSE 0]

\* Its transform: every amplitude is 1.
LEMMA TransformGround ==
    ASSUME NEW t \in Nat
    PROVE  /\ Zero(t) \in Amps(t)
           /\ \A i \in States(t) : Transform(t, Zero(t), t)[i] = 1
<1>1. PICK N \in Nat \ {0} : N = Pow2[t]
  BY Powers
<1>2. PICK v \in Amps(t) : v = Zero(t)
  <2>1. Zero(t) \in Amps(t)
    BY DEF Zero, Amps
  <2> QED
    BY <2>1
<1> DEFINE R == {j \in Nat : \A i \in States(t) :
                    Transform(t, v, j)[i] = IF i < Pow2[j] THEN 1 ELSE 0}
<1>3. 0 \in R
  <2>1. Transform(t, v, 0) = v /\ Pow2[0] = 1
    BY TransformIs, Powers
  <2>2. \A i \in States(t) : i < 1 <=> i = 0
    BY <1>1 DEF States
  <2> QED
    BY <1>2, <2>1, <2>2 DEF Zero
<1>4. ASSUME NEW j \in 0 .. t - 1, j \in R PROVE j + 1 \in R
  <2>0. j \in Nat /\ j + 1 \in Nat
    OBVIOUS
  <2>1. PICK P \in Nat \ {0} : P = Pow2[j] /\ Pow2[j + 1] = 2 * P
    BY <2>0, Powers
  <2>2. PICK x \in Amps(t) : x = Transform(t, v, j)
    BY <2>0, TransformIs
  <2>3. Transform(t, v, j + 1) = Mixed(t, j, x)
    BY <2>2, TransformIs
  <2>4. \A i \in States(t) : x[i] = IF i < P THEN 1 ELSE 0
    BY <1>4, <2>1, <2>2
  <2>5. ASSUME NEW i \in States(t)
        PROVE  Mixed(t, j, x)[i] = IF i < 2 * P THEN 1 ELSE 0
    <3>1. i \in Nat /\ i \in Int
      BY <1>1 DEF States
    <3>2. Bit(i, j) \in {0, 1} /\ Flipped(i, j) \in States(t)
      BY <2>0, <3>1, FlipStays, FlipTurns
    <3>3. PICK b \in {0, 1} : b = Bit(i, j) /\ Sign(i, j) = 1 - 2 * b
      BY <3>2 DEF Sign
    <3>4. PICK k \in States(t) : k = Flipped(i, j) /\ k = i + (1 - 2 * b) * P
      <4>1. Flipped(i, j) = i + (1 - 2 * b) * P
        BY <2>1, <3>3 DEF Flipped
      <4> QED
        BY <3>2, <4>1
    <3>5. PICK z \in Nat, l \in 0 .. P - 1 : i = P * (2 * z + b) + l
      <4>1. \E z \in Nat : \E l \in 0 .. Pow2[j] - 1 :
               i = Pow2[j] * (2 * z + Bit(i, j)) + l /\ z = i \div Pow2[j + 1]
        BY <2>0, <3>1, BitSplits
      <4> QED
        BY <2>1, <3>3, <4>1
    <3>6. PICK m \in Nat : m = P * z /\ P * (2 * z + 0) = 2 * m /\ P * (2 * z + 1) = 2 * m + P
                           /\ (z = 0 => m = 0) /\ (z # 0 => m >= P)
      <4>1. P * z \in Nat /\ P * (2 * z + 0) = 2 * (P * z) /\ P * (2 * z + 1) = 2 * (P * z) + P
        OBVIOUS
      <4>2. z # 0 => P * z >= P
        <5>1. z # 0 => P * (z - 1) >= 0
          OBVIOUS
        <5>2. P * (z - 1) = P * z - P
          OBVIOUS
        <5> QED
          BY <5>1, <5>2
      <4> QED
        BY <4>1, <4>2
    <3>7. Mixed(t, j, x)[i] = (1 - 2 * b) * x[i] + x[k]
      BY <3>3, <3>4 DEF Mixed
    <3>8. x[i] = (IF i < P THEN 1 ELSE 0) /\ x[k] = (IF k < P THEN 1 ELSE 0)
      BY <2>4
    <3>9. CASE b = 0
      <4>1. i = 2 * m + l /\ k = i + P
        BY <3>4, <3>5, <3>6, <3>9
      <4> QED
        BY <3>6, <3>7, <3>8, <3>9, <4>1
    <3>10. CASE b = 1
      <4>1. i = 2 * m + P + l /\ k = i - P
        BY <3>4, <3>5, <3>6, <3>10
      <4> QED
        BY <3>6, <3>7, <3>8, <3>10, <4>1
    <3> QED
      BY <3>9, <3>10
  <2> QED
    BY <2>0, <2>1, <2>3, <2>5
<1>5. t \in 0 .. t /\ \A j \in 0 .. t : j \in R
  <2>1. t \in 0 .. t
    OBVIOUS
  <2> HIDE DEF R
  <2> QED
    BY <1>3, <1>4, <2>1, CountUp
<1>6. \A i \in States(t) : i < Pow2[t]
  BY <1>1 DEF States
<1> QED
  BY <1>2, <1>5, <1>6

--------------------------------------------------------------------------------
(* X on some qubits, the oracle's selection and the controlled Z.            *)

\* The gates of the search circuits on t qubits.
SearchGates(t) ==
    [op : {"h", "x", "z", "phase"}, qubit : 0 .. t, on : SUBSET (0 .. t),
     arg : {0} \cup SUBSET States(t)]

\* The same gate on each of some qubits: one vector follows from the other.
LEMMA EachMakes ==
    ASSUME NEW t \in Nat, NEW op \in {"h", "x"}, NEW Q, NEW f,
           \A k \in 0 .. t : f[k] \in Amps(t),
           \A k \in 1 .. t : f[k] = IF k - 1 \in Q
               THEN [i \in States(t) |-> Acted(Gate(op, k - 1), f[k - 1], i)] ELSE f[k - 1]
    PROVE  Each(op, Q, t) \in Seq(SearchGates(t)) /\ Makes(t, Each(op, Q, t), f[0], f[t])
<1> DEFINE block(k) == IF k - 1 \in Q THEN <<Gate(op, k - 1)>> ELSE <<>>
<1>1. PICK blocks : blocks = [k \in 1 .. t |-> block(k)]
  OBVIOUS
<1>2. ASSUME NEW k \in 1 .. t PROVE block(k) \in Seq(SearchGates(t))
  <2>1. Gate(op, k - 1) \in SearchGates(t)
    BY DEF Gate, SearchGates
  <2> QED
    BY <2>1
<1>3. blocks \in Seq(Seq(SearchGates(t))) /\ Len(blocks) = t
  <2> HIDE DEF block
  <2>1. blocks \in [1 .. t -> Seq(SearchGates(t))]
    BY <1>1, <1>2
  <2> QED
    BY <2>1
<1>4. ASSUME NEW k \in 1 .. Len(blocks) PROVE Makes(t, blocks[k], f[k - 1], f[k])
  <2>1. blocks[k] = block(k) /\ k \in 1 .. t /\ k - 1 \in 0 .. t
    BY <1>1, <1>3
  <2>2. PICK v \in Amps(t) : v = f[k - 1]
    BY <2>1
  <2>3. CASE k - 1 \in Q
    <3>1. PICK g : g = Gate(op, k - 1)
      OBVIOUS
    <3>2. SearchGate(t, g)
      BY <2>1, <3>1 DEF SearchGate, Gate
    <3>3. Makes(t, <<g>>, v, [i \in States(t) |-> Acted(g, v, i)])
      BY <3>2, GateMakes
    <3>4. f[k] = [i \in States(t) |-> Acted(g, v, i)]
      BY <2>1, <2>2, <2>3, <3>1
    <3> QED
      BY <2>1, <2>2, <2>3, <3>1, <3>3, <3>4
  <2>4. CASE k - 1 \notin Q
    <3>1. f[k] = v /\ blocks[k] = <<>>
      BY <2>1, <2>2, <2>4
    <3> QED
      BY <2>2, <3>1, NothingMakes
  <2> QED
    BY <2>3, <2>4
<1>5. FlattenSeq(blocks) = Each(op, Q, t)
  BY <1>1 DEF Each
<1>6. FlattenSeq(blocks) \in Seq(SearchGates(t)) /\ Makes(t, FlattenSeq(blocks), f[0], f[Len(blocks)])
  BY <1>3, <1>4, BlocksMake
<1> QED
  BY <1>3, <1>5, <1>6

\* H on every qubit.
LEMMA HadamardsMake ==
    ASSUME NEW t \in Nat, NEW v \in Amps(t)
    PROVE  /\ Each("h", 0 .. t - 1, t) \in Seq(SearchGates(t))
           /\ Makes(t, Each("h", 0 .. t - 1, t), v, Transform(t, v, t))
<1>1. PICK f : f = [k \in 0 .. t |-> Transform(t, v, k)]
  OBVIOUS
<1>2. \A k \in 0 .. t : f[k] \in Amps(t)
  <2>1. \A k \in 0 .. t : k \in Nat
    OBVIOUS
  <2> QED
    BY <1>1, <2>1, TransformIs
<1>3. ASSUME NEW k \in 1 .. t
      PROVE  f[k] = IF k - 1 \in 0 .. t - 1
               THEN [i \in States(t) |-> Acted(Gate("h", k - 1), f[k - 1], i)] ELSE f[k - 1]
  <2>1. PICK j \in 0 .. t - 1 : j = k - 1 /\ k = j + 1 /\ j \in 0 .. t
    OBVIOUS
  <2>2. PICK u \in Amps(t) : u = f[j] /\ f[k] = Mixed(t, j, u)
    <3>1. Transform(t, v, j + 1) = Mixed(t, j, Transform(t, v, j))
      BY TransformIs
    <3> QED
      BY <1>1, <1>2, <2>1, <3>1
  <2>3. ASSUME NEW i \in States(t)
        PROVE  Acted(Gate("h", j), u, i) = Sign(i, j) * u[i] + u[Flipped(i, j)]
    <3>0. PICK g : g = Gate("h", j)
      OBVIOUS
    <3>1. g = Gate("h", j) /\ g.op = "h" /\ g.qubit = j /\ g.on = {}
      BY <3>0 DEF Gate
    <3>2. Acted(g, u, i) = Sign(i, j) * u[i] + u[Flipped(i, j)]
      BY <3>1 DEF Acted
    <3> QED
      BY <3>1, <3>2
  <2>4. f[k] = [i \in States(t) |-> Acted(Gate("h", j), u, i)]
    BY <2>2, <2>3 DEF Mixed
  <2> QED
    BY <2>1, <2>2, <2>4
<1>4. f[0] = v /\ f[t] = Transform(t, v, t)
  BY <1>1, TransformIs
<1>5. PICK Q, op : Q = 0 .. t - 1 /\ op = "h"
  OBVIOUS
<1>6. \A k \in 1 .. t : f[k] = IF k - 1 \in Q
               THEN [i \in States(t) |-> Acted(Gate(op, k - 1), f[k - 1], i)] ELSE f[k - 1]
  BY <1>3, <1>5
<1>7. Each(op, Q, t) \in Seq(SearchGates(t)) /\ Makes(t, Each(op, Q, t), f[0], f[t])
  BY <1>2, <1>5, <1>6, EachMakes
<1> QED
  BY <1>4, <1>5, <1>7

\* Basis state i with the bits of Z below k turned round.
TurnedRound(t, Z, k, i, j) ==
    j \in States(t) /\ \A q \in 0 .. t - 1 :
        Bit(j, q) = IF q \in Z /\ q < k THEN 1 - Bit(i, q) ELSE Bit(i, q)

\* That basis state.
Masked(t, Z, k, i) == CHOOSE j \in States(t) : TurnedRound(t, Z, k, i, j)

\* There is one.
LEMMA MaskedIs ==
    ASSUME NEW t \in Nat, NEW Z, NEW i \in States(t), NEW k \in 0 .. t
    PROVE  Masked(t, Z, k, i) \in States(t) /\ TurnedRound(t, Z, k, i, Masked(t, Z, k, i))
<1> DEFINE S == {n \in Nat : \E j \in States(t) : TurnedRound(t, Z, n, i, j)}
<1>1. 0 \in S
  <2>1. TurnedRound(t, Z, 0, i, i)
    BY DEF TurnedRound
  <2> QED
    BY <2>1
<1>2. ASSUME NEW n \in 0 .. t - 1, n \in S PROVE n + 1 \in S
  <2>0. n + 1 \in Nat
    OBVIOUS
  <2>1. PICK j \in States(t) : TurnedRound(t, Z, n, i, j)
    BY <1>2
  <2>2. CASE n \in Z
    <3>1. PICK l \in States(t) : l = Flipped(j, n)
      BY FlipStays
    <3>2. j \in Nat /\ n \in Nat
      <4>1. Pow2[t] \in Nat
        BY Powers
      <4> QED
        BY <4>1 DEF States
    <3>3. Bit(l, n) = 1 - Bit(j, n)
      BY <3>1, <3>2, FlipTurns
    <3>4. \A q \in 0 .. t - 1 : q # n => Bit(l, q) = Bit(j, q)
      BY <3>1, <3>2, FlipKeeps
    <3>5. ASSUME NEW q \in 0 .. t - 1
          PROVE  Bit(l, q) = IF q \in Z /\ q < n + 1 THEN 1 - Bit(i, q) ELSE Bit(i, q)
      <4>1. Bit(j, q) = IF q \in Z /\ q < n THEN 1 - Bit(i, q) ELSE Bit(i, q)
        BY <2>1 DEF TurnedRound
      <4>2. q # n => (q < n <=> q < n + 1)
        OBVIOUS
      <4>3. q = n => ~(q < n) /\ q < n + 1
        OBVIOUS
      <4> QED
        BY <2>2, <3>3, <3>4, <4>1, <4>2, <4>3
    <3>6. TurnedRound(t, Z, n + 1, i, l)
      BY <3>5 DEF TurnedRound
    <3> QED
      BY <2>0, <3>6
  <2>3. CASE n \notin Z
    <3>1. \A q \in 0 .. t - 1 : q \in Z => (q < n <=> q < n + 1)
      BY <2>3
    <3>2. TurnedRound(t, Z, n + 1, i, j)
      BY <2>1, <3>1 DEF TurnedRound
    <3> QED
      BY <2>0, <3>2
  <2> QED
    BY <2>2, <2>3
<1>3. \A j \in 0 .. t : j \in S
  <2> HIDE DEF S
  <2> QED
    BY <1>1, <1>2, CountUp
<1>4. \E j \in States(t) : TurnedRound(t, Z, k, i, j)
  BY <1>3
<1> QED
  BY <1>4 DEF Masked

\* And there are not two.
LEMMA MaskedOnly ==
    ASSUME NEW t \in Nat, NEW Z, NEW i \in States(t), NEW k \in 0 .. t, NEW j \in States(t),
           TurnedRound(t, Z, k, i, j)
    PROVE  j = Masked(t, Z, k, i)
<1>1. PICK l \in States(t) : l = Masked(t, Z, k, i) /\ TurnedRound(t, Z, k, i, l)
  BY MaskedIs
<1>2. \A q \in 0 .. t - 1 : Bit(j, q) = Bit(l, q)
  BY <1>1 DEF TurnedRound
<1>3. j = l
  BY <1>2, BitsTell
<1> QED
  BY <1>1, <1>3

\* X on the qubits of Z.
LEMMA FlipsMake ==
    ASSUME NEW t \in Nat, NEW Z, NEW v \in Amps(t)
    PROVE  /\ Each("x", Z, t) \in Seq(SearchGates(t))
           /\ Makes(t, Each("x", Z, t), v, [i \in States(t) |-> v[Masked(t, Z, t, i)]])
<1>1. PICK f : f = [k \in 0 .. t |-> [i \in States(t) |-> v[Masked(t, Z, k, i)]]]
  OBVIOUS
<1>2. \A k \in 0 .. t : f[k] \in Amps(t)
  <2>1. \A k \in 0 .. t : \A i \in States(t) : v[Masked(t, Z, k, i)] \in Int
    BY MaskedIs DEF Amps
  <2> QED
    BY <1>1, <2>1 DEF Amps
<1>3. ASSUME NEW k \in 1 .. t
      PROVE  f[k] = IF k - 1 \in Z
               THEN [i \in States(t) |-> Acted(Gate("x", k - 1), f[k - 1], i)] ELSE f[k - 1]
  <2>1. PICK n \in 0 .. t - 1 : n = k - 1 /\ k = n + 1 /\ n \in 0 .. t /\ k \in 0 .. t
    OBVIOUS
  <2>2. CASE n \in Z
    <3>1. ASSUME NEW i \in States(t)
          PROVE  Masked(t, Z, n, Flipped(i, n)) = Masked(t, Z, k, i) /\ Flipped(i, n) \in States(t)
      <4>1. PICK l \in States(t) : l = Flipped(i, n)
        BY FlipStays
      <4>2. i \in Nat /\ n \in Nat
        <5>1. Pow2[t] \in Nat
          BY Powers
        <5> QED
          BY <5>1 DEF States
      <4>3. Bit(l, n) = 1 - Bit(i, n)
        BY <4>1, <4>2, FlipTurns
      <4>4. \A q \in 0 .. t - 1 : q # n => Bit(l, q) = Bit(i, q)
        BY <4>1, <4>2, FlipKeeps
      <4>5. PICK j \in States(t) : j = Masked(t, Z, n, l) /\ TurnedRound(t, Z, n, l, j)
        BY <2>1, MaskedIs
      <4>6. ASSUME NEW q \in 0 .. t - 1
            PROVE  Bit(j, q) = IF q \in Z /\ q < n + 1 THEN 1 - Bit(i, q) ELSE Bit(i, q)
        <5>1. Bit(j, q) = IF q \in Z /\ q < n THEN 1 - Bit(l, q) ELSE Bit(l, q)
          BY <4>5 DEF TurnedRound
        <5>2. q # n => (q < n <=> q < n + 1)
          OBVIOUS
        <5>3. q = n => ~(q < n) /\ q < n + 1
          OBVIOUS
        <5> QED
          BY <2>2, <4>3, <4>4, <5>1, <5>2, <5>3
      <4>7. TurnedRound(t, Z, k, i, j)
        BY <2>1, <4>6 DEF TurnedRound
      <4>8. j = Masked(t, Z, k, i)
        BY <2>1, <4>7, MaskedOnly
      <4> QED
        BY <4>1, <4>5, <4>8
    <3>2. ASSUME NEW i \in States(t)
          PROVE  Acted(Gate("x", n), f[n], i) = v[Masked(t, Z, k, i)]
      <4>0. PICK g : g = Gate("x", n)
        OBVIOUS
      <4>1. g = Gate("x", n) /\ g.op = "x" /\ g.qubit = n /\ g.on = {}
        BY <4>0 DEF Gate
      <4>2. Acted(g, f[n], i) = f[n][Flipped(i, n)]
        BY <4>1 DEF Acted
      <4>3. f[n][Flipped(i, n)] = v[Masked(t, Z, n, Flipped(i, n))]
        BY <1>1, <2>1, <3>1
      <4> QED
        BY <3>1, <4>1, <4>2, <4>3
    <3>3. f[k] = [i \in States(t) |-> v[Masked(t, Z, k, i)]]
      BY <1>1, <2>1
    <3>4. f[k] = [i \in States(t) |-> Acted(Gate("x", n), f[n], i)]
      BY <3>2, <3>3
    <3> QED
      BY <2>1, <2>2, <3>4
  <2>3. CASE n \notin Z
    <3>1. ASSUME NEW i \in States(t)
          PROVE  Masked(t, Z, n, i) = Masked(t, Z, k, i)
      <4>1. PICK j \in States(t) : j = Masked(t, Z, n, i) /\ TurnedRound(t, Z, n, i, j)
        BY <2>1, MaskedIs
      <4>2. \A q \in 0 .. t - 1 : q \in Z => (q < n <=> q < n + 1)
        BY <2>3
      <4>3. TurnedRound(t, Z, k, i, j)
        BY <2>1, <4>1, <4>2 DEF TurnedRound
      <4>4. j = Masked(t, Z, k, i)
        BY <2>1, <4>3, MaskedOnly
      <4> QED
        BY <4>1, <4>4
    <3>2. f[k] = f[n]
      BY <1>1, <2>1, <3>1
    <3> QED
      BY <2>1, <2>3, <3>2
  <2> QED
    BY <2>2, <2>3
<1>4. f[0] = v /\ f[t] = [i \in States(t) |-> v[Masked(t, Z, t, i)]]
  <2>1. ASSUME NEW i \in States(t) PROVE Masked(t, Z, 0, i) = i
    <3>1. TurnedRound(t, Z, 0, i, i) /\ 0 \in 0 .. t
      BY DEF TurnedRound
    <3> QED
      BY <3>1, MaskedOnly
  <2>2. f[0] = [i \in States(t) |-> v[i]]
    BY <1>1, <2>1
  <2>3. f[0] = v
    BY <2>2 DEF Amps
  <2> QED
    BY <1>1, <2>3
<1>5. PICK op : op = "x"
  OBVIOUS
<1>6. \A k \in 1 .. t : f[k] = IF k - 1 \in Z
               THEN [i \in States(t) |-> Acted(Gate(op, k - 1), f[k - 1], i)] ELSE f[k - 1]
  BY <1>3, <1>5
<1>7. Each(op, Z, t) \in Seq(SearchGates(t)) /\ Makes(t, Each(op, Z, t), f[0], f[t])
  BY <1>2, <1>5, <1>6, EachMakes
<1> QED
  BY <1>4, <1>5, <1>7

\* v with the amplitudes of S negated.
NegatedOn(t, S, v) == [i \in States(t) |-> IF i \in S THEN -v[i] ELSE v[i]]

\* The state all of whose bits are 1.
AllOnes(t) == {i \in States(t) : \A q \in 0 .. t - 1 : Bit(i, q) = 1}

\* Amplitudes negated or not are integers.
LEMMA NegatedIs ==
    ASSUME NEW t, NEW S, NEW v \in Amps(t)
    PROVE  NegatedOn(t, S, v) \in Amps(t)
  BY DEF NegatedOn, Amps

\* The multi-controlled Z negates the state whose bits are all 1.
LEMMA MczMakes ==
    ASSUME NEW t \in Nat \ {0}, NEW v \in Amps(t)
    PROVE  /\ MCZ(t) \in Seq(SearchGates(t))
           /\ Makes(t, MCZ(t), v, NegatedOn(t, AllOnes(t), v))
<1>0. \A i \in States(t), q \in 0 .. t - 1 : Bit(i, q) \in {0, 1} /\ i \in Nat
  <2>1. Pow2[t] \in Nat
    BY Powers
  <2>2. \A i \in States(t) : i \in Nat
    BY <2>1 DEF States
  <2> QED
    BY <2>2, FlipTurns
<1>1. CASE t = 1
  <2>1. PICK g : g = Gate("z", 0)
    OBVIOUS
  <2>2. g.op = "z" /\ g.qubit = 0 /\ g.on = {} /\ g \in SearchGates(t)
    BY <2>1 DEF Gate, SearchGates
  <2>3. SearchGate(t, g)
    BY <1>1, <2>2 DEF SearchGate
  <2>4. Makes(t, <<g>>, v, [i \in States(t) |-> Acted(g, v, i)])
    BY <2>3, GateMakes
  <2>5. ASSUME NEW i \in States(t)
        PROVE  Acted(g, v, i) = IF i \in AllOnes(t) THEN -v[i] ELSE v[i]
    <3>1. Acted(g, v, i) = Sign(i, 0) * v[i]
      BY <2>2 DEF Acted
    <3>2. v[i] \in Int /\ Bit(i, 0) \in {0, 1}
      BY <1>0, <1>1 DEF Amps
    <3>3. i \in AllOnes(t) <=> Bit(i, 0) = 1
      BY <1>1 DEF AllOnes
    <3>4. CASE Bit(i, 0) = 0
      <4>1. Sign(i, 0) = 1
        BY <3>4 DEF Sign
      <4> QED
        BY <3>1, <3>2, <3>3, <3>4, <4>1
    <3>5. CASE Bit(i, 0) = 1
      <4>1. Sign(i, 0) = -1
        BY <3>5 DEF Sign
      <4> QED
        BY <3>1, <3>2, <3>3, <3>5, <4>1
    <3> QED
      BY <3>2, <3>4, <3>5
  <2>6. [i \in States(t) |-> Acted(g, v, i)] = NegatedOn(t, AllOnes(t), v)
    BY <2>5 DEF NegatedOn
  <2>7. MCZ(t) = <<g>>
    BY <1>1, <2>1 DEF MCZ
  <2> QED
    BY <2>2, <2>4, <2>6, <2>7
<1>2. CASE t # 1
  <2>0. PICK p \in 0 .. t - 1 : p = t - 1 /\ 0 .. t - 2 = 0 .. p - 1
    OBVIOUS
  <2>1. PICK g, h : g = Gate("h", p) /\ h = CX(0 .. p - 1, p)
    OBVIOUS
  <2>2. /\ g.op = "h" /\ g.qubit = p /\ g.on = {} /\ g \in SearchGates(t)
        /\ h.op = "x" /\ h.qubit = p /\ h.on = 0 .. p - 1 /\ h \in SearchGates(t)
    BY <2>1 DEF Gate, CX, SearchGates
  <2>3. SearchGate(t, g) /\ SearchGate(t, h)
    BY <2>2 DEF SearchGate
  <2>4. ASSUME NEW u \in Amps(t)
        PROVE  Makes(t, <<g>>, u, Mixed(t, p, u))
    <3>1. Makes(t, <<g>>, u, [i \in States(t) |-> Acted(g, u, i)])
      BY <2>3, GateMakes
    <3>2. \A i : Acted(g, u, i) = Sign(i, p) * u[i] + u[Flipped(i, p)]
      BY <2>2 DEF Acted
    <3>3. [i \in States(t) |-> Acted(g, u, i)] = Mixed(t, p, u)
      BY <3>2 DEF Mixed
    <3> QED
      BY <3>1, <3>3
  <2>5. PICK x \in Amps(t) : x = Mixed(t, p, v)
    BY MixedIs
  <2>6. PICK y : y = [i \in States(t) |-> Acted(h, x, i)]
    OBVIOUS
  <2>7. Makes(t, <<h>>, x, y)
    BY <2>3, <2>6, GateMakes
  <2>8. ASSUME NEW i \in States(t)
        PROVE  y[i] = IF \E q \in 0 .. p - 1 : Bit(i, q) = 0 THEN x[i] ELSE x[Flipped(i, p)]
    BY <2>2, <2>6 DEF Acted
  <2>9. y \in Amps(t)
    <3>1. \A i \in States(t) : y[i] \in Int
      BY <2>8, FlipStays DEF Amps
    <3> QED
      BY <2>6, <3>1 DEF Amps
  <2>10. PICK z \in Amps(t) : z = Mixed(t, p, y)
    BY <2>9, MixedIs
  <2>11. PICK w \in Amps(t) : w = NegatedOn(t, AllOnes(t), v)
    BY NegatedIs
  <2>12. ASSUME NEW i \in States(t) PROVE z[i] = 2 * w[i]
    <3>1. PICK j \in States(t) : \E s \in {1, -1} :
              /\ j = Flipped(i, p) /\ Flipped(j, p) = i
              /\ s = Sign(i, p) /\ Sign(j, p) = -s
              /\ v[i] \in Int /\ v[j] \in Int
              /\ Mixed(t, p, v)[i] = s * v[i] + v[j]
              /\ Mixed(t, p, v)[j] = -s * v[j] + v[i]
      BY MixedAt
    <3>2. PICK s \in {1, -1}, a \in Int, b \in Int :
              /\ j = Flipped(i, p) /\ Flipped(j, p) = i
              /\ s = Sign(i, p)
              /\ a = v[i] /\ b = v[j]
              /\ x[i] = s * a + b
              /\ x[j] = -s * b + a
      BY <2>5, <3>1
    <3>3. z[i] = s * y[i] + y[j]
      BY <2>10, <3>2 DEF Mixed
    <3>4. i \in Nat /\ p \in Nat
      BY <1>0, <2>0
    <3>5. \A q \in 0 .. p - 1 : Bit(j, q) = Bit(i, q)
      BY <3>2, <3>4, FlipKeeps
    <3>6. w[i] = IF i \in AllOnes(t) THEN -v[i] ELSE v[i]
      BY <2>11 DEF NegatedOn
    <3>7. Bit(i, p) \in {0, 1} /\ (s = 1 <=> Bit(i, p) = 0)
      <4>1. Bit(i, p) \in {0, 1}
        BY <1>0
      <4> QED
        BY <3>2, <4>1 DEF Sign
    <3>8. CASE \E q \in 0 .. p - 1 : Bit(i, q) = 0
      <4>1. y[i] = x[i] /\ y[j] = x[j]
        BY <2>8, <3>5, <3>8
      <4>2. i \notin AllOnes(t)
        BY <2>0, <3>8 DEF AllOnes
      <4>3. s * (s * a + b) + (-s * b + a) = 2 * a
        <5>1. CASE s = 1
          BY <5>1
        <5>2. CASE s = -1
          BY <5>2
        <5> QED
          BY <5>1, <5>2
      <4> QED
        BY <3>2, <3>3, <3>6, <4>1, <4>2, <4>3
    <3>9. CASE ~(\E q \in 0 .. p - 1 : Bit(i, q) = 0)
      <4>1. y[i] = x[j] /\ y[j] = x[i]
        BY <2>8, <3>2, <3>5, <3>9
      <4>2. i \in AllOnes(t) <=> Bit(i, p) = 1
        <5>1. \A q \in 0 .. p - 1 : Bit(i, q) \in {0, 1} /\ Bit(i, q) = 1
          BY <1>0, <2>0, <3>9
        <5>2. \A q \in 0 .. t - 1 : q = p \/ q \in 0 .. p - 1
          BY <2>0
        <5> QED
          BY <5>1, <5>2 DEF AllOnes
      <4>3. CASE s = 1
        <5>1. z[i] = a + a /\ w[i] = a
          BY <3>2, <3>3, <3>6, <3>7, <4>1, <4>2, <4>3
        <5> QED
          BY <5>1
      <4>4. CASE s = -1
        <5>1. i \in AllOnes(t)
          BY <3>7, <4>2, <4>4
        <5>2. z[i] = -1 * (b + a) + (-1 * a + b)
          BY <3>2, <3>3, <4>1, <4>4
        <5> QED
          BY <3>2, <3>6, <5>1, <5>2
      <4> QED
        BY <4>3, <4>4
    <3> QED
      BY <3>8, <3>9
  <2>13. MCZ(t) = (<<g>> \o <<h>>) \o <<g>>
    <3>1. MCZ(t) = <<g, h, g>>
      BY <1>2, <2>0, <2>1 DEF MCZ
    <3> QED
      BY <3>1
  <2>14. <<g>> \in Seq(SearchGates(t)) /\ <<h>> \in Seq(SearchGates(t))
    BY <2>2
  <2>15. <<g>> \o <<h>> \in Seq(SearchGates(t)) /\ Makes(t, <<g>> \o <<h>>, v, y)
    <3>1. Makes(t, <<g>>, v, x)
      BY <2>4, <2>5
    <3>2. Makes(t, <<g>> \o <<h>>, v, y)
      BY <2>7, <2>14, <3>1, MakesJoin
    <3> QED
      BY <2>14, <3>2
  <2>16. Makes(t, MCZ(t), v, z)
    <3>1. Makes(t, <<g>>, y, z)
      BY <2>4, <2>9, <2>10
    <3> QED
      BY <2>13, <2>14, <2>15, <3>1, MakesJoin
  <2>17. Makes(t, MCZ(t), v, w)
    BY <2>12, <2>16, MakesUpToFactor
  <2>18. (<<g>> \o <<h>>) \o <<g>> \in Seq(SearchGates(t))
    BY <2>14, <2>15
  <2> QED
    BY <2>11, <2>13, <2>17, <2>18
<1> QED
  BY <1>1, <1>2

\* The states whose bits are 0 at Z and 1 elsewhere.
Chosen(t, Z) == {i \in States(t) : \A q \in 0 .. t - 1 : Bit(i, q) = 0 <=> q \in Z}

\* Between X on the qubits of Z, and X on them again, it negates that state.
LEMMA SelectionMakes ==
    ASSUME NEW t \in Nat \ {0}, NEW Z, NEW v \in Amps(t)
    PROVE  LET flips == Each("x", Z, t)
           IN  /\ flips \o MCZ(t) \o flips \in Seq(SearchGates(t))
               /\ Makes(t, flips \o MCZ(t) \o flips, v, NegatedOn(t, Chosen(t, Z), v))
<1>1. PICK flips, mcz : flips = Each("x", Z, t) /\ mcz = MCZ(t)
  OBVIOUS
<1>2. PICK x : x = [i \in States(t) |-> v[Masked(t, Z, t, i)]]
  OBVIOUS
<1>3. t \in Nat /\ t \in 0 .. t
  OBVIOUS
<1>4. \A i \in States(t) : Masked(t, Z, t, i) \in States(t)
  BY <1>3, MaskedIs
<1>5. x \in Amps(t)
  <2>1. \A i \in States(t) : x[i] \in Int
    BY <1>2, <1>4 DEF Amps
  <2> QED
    BY <1>2, <2>1 DEF Amps
<1>6. PICK y \in Amps(t) : y = NegatedOn(t, AllOnes(t), x)
  BY <1>5, NegatedIs
<1>7. PICK z : z = [i \in States(t) |-> y[Masked(t, Z, t, i)]]
  OBVIOUS
<1>8. flips \in Seq(SearchGates(t)) /\ Makes(t, flips, v, x) /\ Makes(t, flips, y, z)
  BY <1>1, <1>2, <1>3, <1>7, FlipsMake
<1>9. mcz \in Seq(SearchGates(t)) /\ Makes(t, mcz, x, y)
  BY <1>1, <1>5, <1>6, MczMakes
<1>10. flips \o mcz \in Seq(SearchGates(t)) /\ Makes(t, flips \o mcz, v, y)
  BY <1>8, <1>9, MakesJoin
<1>11. Makes(t, flips \o mcz \o flips, v, z)
  BY <1>8, <1>10, MakesJoin
<1>12. flips \o mcz \o flips \in Seq(SearchGates(t))
  BY <1>8, <1>10
<1>13. ASSUME NEW i \in States(t)
       PROVE  z[i] = IF i \in Chosen(t, Z) THEN -v[i] ELSE v[i]
  <2>1. PICK j \in States(t) : j = Masked(t, Z, t, i) /\ TurnedRound(t, Z, t, i, j)
    BY <1>3, MaskedIs
  <2>0. \A q \in 0 .. t - 1 : Bit(i, q) \in {0, 1}
    <3>1. Pow2[t] \in Nat
      BY <1>3, Powers
    <3>2. i \in Nat
      BY <3>1 DEF States
    <3> QED
      BY <3>2, FlipTurns
  <2>2. \A q \in 0 .. t - 1 : Bit(j, q) = IF q \in Z THEN 1 - Bit(i, q) ELSE Bit(i, q)
    <3>1. \A q \in 0 .. t - 1 : q < t
      OBVIOUS
    <3> QED
      BY <2>1, <3>1 DEF TurnedRound
  <2>3. i = Masked(t, Z, t, j)
    <3>1. \A q \in 0 .. t - 1 : Bit(i, q) = IF q \in Z /\ q < t THEN 1 - Bit(j, q) ELSE Bit(j, q)
      BY <2>0, <2>2
    <3>2. TurnedRound(t, Z, t, j, i)
      BY <3>1 DEF TurnedRound
    <3> QED
      BY <1>3, <3>2, MaskedOnly
  <2>4. x[j] = v[i] /\ z[i] = y[j]
    BY <1>2, <1>7, <2>1, <2>3
  <2>5. y[j] = IF j \in AllOnes(t) THEN -x[j] ELSE x[j]
    BY <1>6 DEF NegatedOn
  <2>6. j \in AllOnes(t) <=> i \in Chosen(t, Z)
    BY <2>0, <2>2 DEF AllOnes, Chosen
  <2> QED
    BY <2>4, <2>5, <2>6
<1>14. z = NegatedOn(t, Chosen(t, Z), v)
  BY <1>7, <1>13 DEF NegatedOn
<1> QED
  BY <1>1, <1>11, <1>12, <1>14

--------------------------------------------------------------------------------
(* The diffuser, and one round as one turn of the rotation.                  *)

\* Inversion about the mean, up to its factor.
Reflected(t, v) == [i \in States(t) |-> Pow2[t] * v[i] - 2 * Transform(t, v, t)[0]]

\* The diffuser inverts about the mean.
LEMMA DiffuserMakes ==
    ASSUME NEW t \in Nat \ {0}, NEW v \in Amps(t)
    PROVE  /\ Diffuser(t) \in Seq(SearchGates(t))
           /\ Makes(t, Diffuser(t), v, Reflected(t, v))
<1>0. t \in Nat /\ t \in 0 .. t
  OBVIOUS
<1>1. PICK N \in Nat \ {0} : N = Pow2[t]
  BY <1>0, Powers
<1>2. PICK hs, xs, mcz, Z :
         Z = 0 .. t - 1 /\ hs = Each("h", Z, t) /\ xs = Each("x", Z, t) /\ mcz = MCZ(t)
  OBVIOUS
<1>3. PICK x \in Amps(t) : x = Transform(t, v, t)
  BY <1>0, TransformIs
<1>4. PICK y \in Amps(t) : y = NegatedOn(t, Chosen(t, Z), x)
  BY NegatedIs
<1>5. PICK z \in Amps(t) : z = Transform(t, y, t)
  BY <1>0, TransformIs
<1>6. hs \in Seq(SearchGates(t)) /\ Makes(t, hs, v, x) /\ Makes(t, hs, y, z)
  BY <1>0, <1>2, <1>3, <1>5, HadamardsMake
<1>7. xs \in Seq(SearchGates(t)) /\ mcz \in Seq(SearchGates(t))
  BY <1>0, <1>2, <1>3, FlipsMake, MczMakes
<1>8. PICK mid \in Seq(SearchGates(t)) : mid = xs \o mcz \o xs /\ Makes(t, mid, x, y)
  <2>1. xs \o mcz \o xs \in Seq(SearchGates(t)) /\ Makes(t, xs \o mcz \o xs, x, y)
    BY <1>2, <1>4, SelectionMakes
  <2> QED
    BY <2>1
<1>9. PICK left \in Seq(SearchGates(t)) : left = hs \o mid /\ Makes(t, left, v, y)
  <2>1. hs \o mid \in Seq(SearchGates(t))
    BY <1>6
  <2>2. Makes(t, hs \o mid, v, y)
    BY <1>6, <1>8, MakesJoin
  <2> QED
    BY <2>1, <2>2
<1>10. left \o hs \in Seq(SearchGates(t)) /\ Makes(t, left \o hs, v, z)
  <2>1. left \o hs \in Seq(SearchGates(t))
    BY <1>6
  <2>2. Makes(t, left \o hs, v, z)
    BY <1>6, <1>9, MakesJoin
  <2> QED
    BY <2>1, <2>2
<1>11. Diffuser(t) = left \o hs
  <2>1. Diffuser(t) = hs \o xs \o mcz \o xs \o hs
    BY <1>2 DEF Diffuser
  <2>2. hs \o xs \o mcz = hs \o (xs \o mcz)
    BY SMTT(30), <1>6, <1>7, ConcatAssociative
  <2>3. PICK right \in Seq(SearchGates(t)) : right = xs \o mcz
    <3>1. xs \o mcz \in Seq(SearchGates(t))
      BY <1>7
    <3> QED
      BY <3>1
  <2>4. (hs \o right) \o xs = hs \o (right \o xs)
    BY SMTT(30), <1>6, <1>7, ConcatAssociative
  <2> QED
    BY <1>8, <1>9, <2>1, <2>2, <2>3, <2>4
<1>12. Chosen(t, Z) = {0}
  <2>1. 0 \in States(t)
    BY <1>1 DEF States
  <2>2. \A q \in 0 .. t - 1 : Bit(0, q) = 0
    <3>1. TAKE q \in 0 .. t - 1
    <3>2. PICK P \in Nat \ {0} : P = Pow2[q]
      <4>1. q \in Nat
        OBVIOUS
      <4> QED
        BY <4>1, Powers
    <3>3. 0 = P * 0 + 0 /\ 0 \in 0 .. P - 1 /\ 0 \in Int
      BY <3>2
    <3>4. 0 \div P = 0
      BY <3>2, <3>3, DivisionUnique
    <3> QED
      BY <3>2, <3>4 DEF Bit
  <2>3. ASSUME NEW i \in Chosen(t, Z) PROVE i = 0
    <3>1. i \in States(t) /\ \A q \in 0 .. t - 1 : Bit(i, q) = Bit(0, q)
      BY <1>2, <2>2 DEF Chosen
    <3> QED
      BY <1>0, <2>1, <3>1, BitsTell
  <2> QED
    BY <1>2, <2>1, <2>2, <2>3 DEF Chosen
<1>13. PICK c \in Int, d \in Int : c = x[0] /\ d = -2 * c
  <2>1. 0 \in States(t)
    BY <1>1 DEF States
  <2>2. x[0] \in Int
    BY <2>1 DEF Amps
  <2> QED
    BY <2>2
<1>14. y = Plus(t, x, d, Zero(t))
  <2>1. Zero(t) \in Amps(t)
    BY <1>0, TransformGround
  <2>2. Plus(t, x, d, Zero(t)) \in Amps(t)
        /\ \A i \in States(t) : Plus(t, x, d, Zero(t))[i] = x[i] + d * Zero(t)[i]
    BY ZenonT(40), <1>0, <2>1, PlusIs
  <2>3. ASSUME NEW i \in States(t) PROVE y[i] = x[i] + d * Zero(t)[i]
    <3>1. PICK a \in Int : a = x[i]
      BY DEF Amps
    <3>2. y[i] = IF i = 0 THEN -a ELSE a
      BY <1>4, <1>12, <3>1 DEF NegatedOn
    <3>3. Zero(t)[i] = IF i = 0 THEN 1 ELSE 0
      BY DEF Zero
    <3>4. CASE i = 0
      <4>1. a = c /\ d = -2 * a
        BY <1>13, <3>1, <3>4
      <4>2. y[i] = -a /\ Zero(t)[i] = 1 /\ -a = a + d * 1
        BY <3>2, <3>3, <3>4, <4>1
      <4> QED
        BY <3>1, <4>2
    <3>5. CASE i # 0
      <4>1. y[i] = a /\ Zero(t)[i] = 0 /\ a = a + d * 0
        BY <3>2, <3>3, <3>5
      <4> QED
        BY <3>1, <4>1
    <3> QED
      BY <3>4, <3>5
  <2> QED
    BY <2>2, <2>3, SameAmps
<1>15. ASSUME NEW i \in States(t) PROVE z[i] = Reflected(t, v)[i]
  <2>1. PICK o \in Amps(t) : o = Zero(t)
    BY <1>0, TransformGround
  <2>2. PICK xx \in Amps(t), oo \in Amps(t) : xx = Transform(t, x, t) /\ oo = Transform(t, o, t)
    BY <1>0, TransformIs
  <2>3. z = Plus(t, xx, d, oo)
    <3>1. y = Plus(t, x, d, o)
      BY <1>14, <2>1
    <3>2. \A j \in 0 .. t : Transform(t, Plus(t, x, d, o), j)
                                 = Plus(t, Transform(t, x, j), d, Transform(t, o, j))
      BY ZenonT(40), <1>0, TransformLinear
    <3> QED
      BY <1>0, <1>5, <2>2, <3>1, <3>2
  <2>4. z[i] = xx[i] + d * oo[i]
    <3>1. \A m \in States(t) : Plus(t, xx, d, oo)[m] = xx[m] + d * oo[m]
      BY <1>0, PlusIs
    <3> QED
      BY <2>3, <3>1
  <2>5. oo[i] = 1
    BY <1>0, <2>1, <2>2, TransformGround
  <2>6. xx[i] = N * v[i]
    BY <1>0, <1>1, <1>3, <2>2, TransformTwice
  <2>7. N * v[i] \in Int
    BY DEF Amps
  <2>8. z[i] = N * v[i] - 2 * c
    BY <1>13, <2>4, <2>5, <2>6, <2>7
  <2> QED
    BY <1>1, <1>3, <1>13, <2>8 DEF Reflected
<1>16. Reflected(t, v) \in Amps(t)
  <2>1. \A i \in States(t) : Reflected(t, v)[i] \in Int
    BY <1>15 DEF Amps
  <2>2. Reflected(t, v) = [i \in States(t) |-> Reflected(t, v)[i]]
    BY DEF Reflected
  <2> QED
    BY <2>1, <2>2 DEF Amps
<1>17. z = Reflected(t, v)
  BY <1>15, <1>16, SameAmps
<1> QED
  BY <1>10, <1>11, <1>17

\* One amplitude for the states of W, another for the rest.
Pattern(t, W, x, y) == [i \in States(t) |-> IF i \in W THEN x ELSE y]

\* Its sum.
LEMMA PatternSums ==
    ASSUME NEW t \in Nat, NEW W \in SUBSET States(t), NEW x \in Int, NEW y \in Int
    PROVE  /\ Pattern(t, W, x, y) \in Amps(t)
           /\ Cardinality(W) \in 0 .. Pow2[t]
           /\ Transform(t, Pattern(t, W, x, y), t)[0]
                  = Cardinality(W) * x + (Pow2[t] - Cardinality(W)) * y
<1>1. PICK N \in Nat \ {0} : N = Pow2[t]
  BY Powers
<1>2. PICK v \in Amps(t) : v = Pattern(t, W, x, y)
  <2>1. Pattern(t, W, x, y) \in Amps(t)
    BY DEF Pattern, Amps
  <2> QED
    BY <2>1
<1> DEFINE below(k) == W \cap (0 .. k - 1)
           S == [k \in 0 .. N |-> Cardinality(below(k)) * x + (k - Cardinality(below(k))) * y]
<1>3. ASSUME NEW k \in 0 .. N
      PROVE  IsFiniteSet(below(k)) /\ Cardinality(below(k)) \in 0 .. k
  <2>1. IsFiniteSet(0 .. k - 1) /\ Cardinality(0 .. k - 1) = k
    <3>1. 0 \in Int /\ k - 1 \in Int
      OBVIOUS
    <3> QED
      BY <3>1, FS_Interval
  <2>2. below(k) \in SUBSET (0 .. k - 1)
    OBVIOUS
  <2>3. IsFiniteSet(below(k)) /\ Cardinality(below(k)) <= k
    BY <2>1, <2>2, FS_Subset
  <2>4. Cardinality(below(k)) \in Nat
    BY <2>3, FS_CardinalityType
  <2> QED
    BY <2>3, <2>4
<1>4. Cardinality(below(0)) = 0
  <2>1. below(0) = {}
    OBVIOUS
  <2> QED
    BY <2>1, FS_EmptySet
<1>5. S[0] = 0
  BY <1>1, <1>4
<1>6. \A k \in 0 .. N : S[k] \in Int
  BY <1>3
<1>7. ASSUME NEW i \in States(t) PROVE S[i] \in Int /\ S[i + 1] = S[i] + v[i]
  <2>1. i \in 0 .. N /\ i + 1 \in 0 .. N /\ i \in Nat
    BY <1>1 DEF States
  <2>2. PICK a \in Int : a = Cardinality(below(i))
    BY <1>3, <2>1
  <2>3. CASE i \in W
    <3>1. below(i + 1) = below(i) \cup {i} /\ i \notin below(i)
      BY <2>1, <2>3
    <3>2. Cardinality(below(i + 1)) = a + 1
      BY <1>3, <2>1, <2>2, <3>1, FS_AddElement
    <3>3. v[i] = x
      BY <1>2, <2>3 DEF Pattern
    <3>4. S[i] = a * x + (i - a) * y /\ S[i + 1] = (a + 1) * x + ((i + 1) - (a + 1)) * y
      BY <2>1, <2>2, <3>2
    <3>5. (a + 1) * x + ((i + 1) - (a + 1)) * y = (a * x + (i - a) * y) + x
      <4>1. (a + 1) * x = a * x + x /\ (i + 1) - (a + 1) = i - a
        BY <2>1
      <4>2. a * x \in Int /\ (i - a) * y \in Int
        BY <2>1
      <4> QED
        BY <4>1, <4>2
    <3> QED
      BY <1>6, <2>1, <3>3, <3>4, <3>5
  <2>4. CASE i \notin W
    <3>1. below(i + 1) = below(i)
      BY <2>1, <2>4
    <3>2. v[i] = y
      BY <1>2, <2>4 DEF Pattern
    <3>3. S[i] = a * x + (i - a) * y /\ S[i + 1] = a * x + ((i + 1) - a) * y
      BY <2>1, <2>2, <3>1
    <3>4. a * x + ((i + 1) - a) * y = (a * x + (i - a) * y) + y
      <4>1. PICK b \in Int : b = i - a /\ (i + 1) - a = b + 1
        BY <2>1
      <4>2. (b + 1) * y = b * y + y /\ a * x \in Int /\ b * y \in Int
        OBVIOUS
      <4> QED
        BY <4>1, <4>2
    <3> QED
      BY <1>6, <2>1, <3>2, <3>3, <3>4
  <2> QED
    BY <2>3, <2>4
<1>8. N \in 0 .. N /\ below(N) = W
  <2>1. W \subseteq 0 .. N - 1
    BY <1>1 DEF States
  <2>2. N \in 0 .. N
    OBVIOUS
  <2> QED
    BY <2>1, <2>2
<1>9. Transform(t, v, t)[0] = S[N]
  <2>1. S[Pow2[t]] \in Int
    BY <1>1, <1>6, <1>8
  <2> HIDE DEF S
  <2> QED
    BY <1>1, <1>5, <1>7, <2>1, TransformSums
<1>10. S[N] = Cardinality(W) * x + (N - Cardinality(W)) * y
  BY <1>8
<1>11. Cardinality(W) \in 0 .. N
  BY <1>3, <1>8
<1> QED
  BY <1>1, <1>2, <1>9, <1>10, <1>11

\* One turn of the textbook rotation.
TurnOf(N, m, a) == <<(N - 2 * m) * a[1] + 2 * (N - m) * a[2], (N - 2 * m) * a[2] - 2 * m * a[1]>>

\* The rotation turn by turn.
LEMMA RotatedIs ==
    ASSUME NEW N \in Int, NEW m \in Int
    PROVE  /\ Rotated(N, m, 0) = <<1, 1>>
           /\ \A k \in Nat : Rotated(N, m, k) \in Int \X Int
           /\ \A k \in Nat : Rotated(N, m, k + 1) = TurnOf(N, m, Rotated(N, m, k))
<1> DEFINE Pairs == Int \X Int
           F == [p \in Nat \X Pairs |-> TurnOf(N, m, p[2])]
<1>1. ASSUME NEW k \in Nat, NEW a \in Pairs
      PROVE  F[<<k, a>>] = TurnOf(N, m, a) /\ F[<<k, a>>] \in Pairs
  <2>1. F[<<k, a>>] = TurnOf(N, m, a)
    OBVIOUS
  <2>2. TurnOf(N, m, a) \in Pairs
    BY DEF TurnOf
  <2> QED
    BY <2>1, <2>2
<1>2. PICK f : f[0] = <<1, 1>> /\ \A k \in Nat : f[k] \in Pairs /\ f[k + 1] = F[<<k, f[k]>>]
  <2>0. <<1, 1>> \in Pairs
    OBVIOUS
  <2>1. PICK T, G, a : T = Pairs /\ G = F /\ a = <<1, 1>> /\ a \in T
    BY <2>0
  <2> HIDE DEF F, Pairs
  <2>2. \A k \in Nat : \A u \in T : G[<<k, u>>] \in T
    BY <1>1, <2>1
  <2>3. \E f : f[0] = a /\ \A k \in Nat : f[k] \in T /\ f[k + 1] = G[<<k, f[k]>>]
    BY <2>1, <2>2, Iterates
  <2> QED
    BY <2>1, <2>3
<1>3. \A k \in Nat : f[k] \in Pairs /\ f[k + 1] = TurnOf(N, m, f[k])
  <2> HIDE DEF F, Pairs
  <2> QED
    BY <1>1, <1>2
<1>4. ASSUME NEW k \in Nat PROVE Rotated(N, m, k) = f[k]
  <2> DEFINE W(s) == [i \in 0 .. k |-> IF i = 0 THEN <<1, 1>> ELSE
                  With(s[i - 1], LAMBDA a : <<(N - 2 * m) * a[1] + 2 * (N - m) * a[2],
                                              (N - 2 * m) * a[2] - 2 * m * a[1]>>)]
  <2>1. \A s : W(s) = [i \in 0 .. k |-> IF i = 0 THEN <<1, 1>> ELSE TurnOf(N, m, s[i - 1])]
    BY DEF With, TurnOf
  <2> DEFINE g == [i \in 0 .. k |-> f[i]]
  <2>2. \A i \in 0 .. k : g[i] = f[i]
    OBVIOUS
  <2>3. \A i \in 0 .. k : g[i] = IF i = 0 THEN <<1, 1>> ELSE TurnOf(N, m, g[i - 1])
    <3>1. TAKE i \in 0 .. k
    <3>2. CASE i = 0
      BY <1>2, <2>2, <3>2
    <3>3. CASE i # 0
      <4>1. i - 1 \in Nat /\ i - 1 \in 0 .. k /\ (i - 1) + 1 = i
        BY <3>3
      <4>2. f[(i - 1) + 1] = TurnOf(N, m, f[i - 1])
        BY <1>3, <4>1
      <4> QED
        BY <2>2, <3>3, <4>1, <4>2
    <3> QED
      BY <3>2, <3>3
  <2>4. g = [i \in 0 .. k |-> g[i]]
    OBVIOUS
  <2> HIDE DEF g
  <2>5. g = W(g)
    <3>1. g = [i \in 0 .. k |-> IF i = 0 THEN <<1, 1>> ELSE TurnOf(N, m, g[i - 1])]
      BY <2>3, <2>4
    <3> QED
      BY <2>1, <3>1
  <2> DEFINE amplitudes == CHOOSE s : s = W(s)
  <2>6. amplitudes = W(amplitudes)
    BY <2>5
  <2>7. Rotated(N, m, k) = amplitudes[k]
    BY DEF Rotated
  <2>8. \A i \in 0 .. k : amplitudes[i] = IF i = 0 THEN <<1, 1>> ELSE TurnOf(N, m, amplitudes[i - 1])
    <3> HIDE DEF amplitudes, W
    <3>1. amplitudes = [i \in 0 .. k |-> IF i = 0 THEN <<1, 1>> ELSE TurnOf(N, m, amplitudes[i - 1])]
      BY <2>1, <2>6
    <3> QED
      BY <3>1
  <2> HIDE DEF amplitudes
  <2> DEFINE S == {i \in Nat : amplitudes[i] = f[i]}
  <2>9. 0 \in S
    BY <1>2, <2>8
  <2>10. ASSUME NEW i \in 0 .. k - 1, i \in S PROVE i + 1 \in S
    <3>1. i + 1 \in 0 .. k /\ i + 1 # 0 /\ (i + 1) - 1 = i /\ i \in Nat /\ i + 1 \in Nat
      OBVIOUS
    <3>2. amplitudes[i + 1] = TurnOf(N, m, amplitudes[i])
      BY <2>8, <3>1
    <3>3. f[i + 1] = TurnOf(N, m, f[i])
      BY <1>3, <3>1
    <3> QED
      BY <2>10, <3>1, <3>2, <3>3
  <2>11. \A i \in 0 .. k : i \in S
    <3> HIDE DEF S
    <3> QED
      BY <2>9, <2>10, CountUp
  <2>12. k \in 0 .. k
    OBVIOUS
  <2> QED
    BY <2>7, <2>11, <2>12
<1>5. \A k \in Nat : k + 1 \in Nat
  OBVIOUS
<1> QED
  BY <1>2, <1>3, <1>4, <1>5

\* The oracle and the diffuser turn once.
LEMMA RoundMakes ==
    ASSUME NEW t \in Nat \ {0}, NEW W \in SUBSET States(t), NEW oracle \in Seq(SearchGates(t)),
           \A v \in Amps(t) : Makes(t, oracle, v, NegatedOn(t, W, v)),
           NEW a \in Int \X Int
    PROVE  LET b == TurnOf(Pow2[t], Cardinality(W), a)
           IN  /\ oracle \o Diffuser(t) \in Seq(SearchGates(t))
               /\ Makes(t, oracle \o Diffuser(t), Pattern(t, W, a[1], a[2]), Pattern(t, W, b[1], b[2]))
<1>0. t \in Nat
  OBVIOUS
<1>1. PICK N \in Nat \ {0} : N = Pow2[t]
  BY <1>0, Powers
<1>2. PICK x \in Int, y \in Int : a = <<x, y>> /\ x = a[1] /\ y = a[2]
  OBVIOUS
<1>3. PICK v \in Amps(t) : v = Pattern(t, W, x, y)
  BY <1>0, PatternSums
<1>4. PICK m \in 0 .. N : m = Cardinality(W)
  BY <1>0, <1>1, <1>2, PatternSums
<1>5. PICK nx \in Int : nx = -x
  OBVIOUS
<1>6. PICK u \in Amps(t) : u = Pattern(t, W, nx, y)
  BY <1>0, PatternSums
<1>7. u = NegatedOn(t, W, v)
  BY <1>2, <1>3, <1>5, <1>6 DEF Pattern, NegatedOn
<1>8. Makes(t, oracle, v, u)
  BY <1>7
<1>9. PICK sum \in Int : sum = Transform(t, u, t)[0] /\ sum = m * nx + (N - m) * y
  <2>1. Transform(t, Pattern(t, W, nx, y), t)[0] = Cardinality(W) * nx + (Pow2[t] - Cardinality(W)) * y
    BY <1>0, PatternSums
  <2>2. m * nx + (N - m) * y \in Int
    OBVIOUS
  <2> QED
    BY <1>1, <1>4, <1>6, <2>1, <2>2
<1>10. PICK b : b = TurnOf(N, m, a)
  OBVIOUS
<1>11. /\ b[1] = (N - 2 * m) * x + 2 * (N - m) * y /\ b[1] \in Int
       /\ b[2] = (N - 2 * m) * y - 2 * m * x /\ b[2] \in Int
  BY <1>2, <1>10 DEF TurnOf
<1>12. PICK w \in Amps(t) : w = Pattern(t, W, b[1], b[2])
  BY <1>0, <1>11, PatternSums
<1>13. PICK z : z = Reflected(t, u)
  OBVIOUS
<1>14. ASSUME NEW i \in States(t) PROVE z[i] \in Int /\ z[i] = -w[i]
  <2>1. z[i] = N * u[i] - 2 * sum
    BY <1>1, <1>9, <1>13 DEF Reflected
  <2>2. PICK A \in Int, B \in Int, C \in Int, D \in Int : A = N * x /\ B = N * y /\ C = m * x /\ D = m * y
    OBVIOUS
  <2>3. sum = B - D - C
    <3>1. m * nx = -C /\ (N - m) * y = B - D
      BY <1>5, <2>2
    <3> QED
      BY <1>9, <2>2, <3>1
  <2>4. b[1] = A - 2 * C + 2 * B - 2 * D /\ b[2] = B - 2 * D - 2 * C
    <3>1. (N - 2 * m) * x = A - 2 * C /\ 2 * (N - m) * y = 2 * B - 2 * D
      BY <2>2
    <3>2. (N - 2 * m) * y = B - 2 * D /\ 2 * m * x = 2 * C
      BY <2>2
    <3> QED
      BY <1>11, <2>2, <3>1, <3>2
  <2>5. CASE i \in W
    <3>1. u[i] = nx /\ w[i] = b[1]
      BY <1>6, <1>12, <2>5 DEF Pattern
    <3>2. N * nx = -A
      BY <1>5, <2>2
    <3>3. z[i] = -A - 2 * (B - D - C)
      BY <2>1, <2>3, <3>1, <3>2
    <3> QED
      BY <2>2, <2>4, <3>1, <3>3
  <2>6. CASE i \notin W
    <3>1. u[i] = y /\ w[i] = b[2]
      BY <1>6, <1>12, <2>6 DEF Pattern
    <3>2. z[i] = B - 2 * (B - D - C)
      BY <2>1, <2>2, <2>3, <3>1
    <3> QED
      BY <2>2, <2>4, <3>1, <3>2
  <2> QED
    BY <2>5, <2>6
<1>15. z \in Amps(t)
  <2>1. z = [i \in States(t) |-> z[i]]
    BY <1>13 DEF Reflected
  <2> QED
    BY <1>14, <2>1 DEF Amps
<1>16. Diffuser(t) \in Seq(SearchGates(t)) /\ Makes(t, Diffuser(t), u, z)
  BY <1>13, DiffuserMakes
<1>17. Makes(t, oracle \o Diffuser(t), v, z)
  BY <1>8, <1>16, MakesJoin
<1>18. Makes(t, oracle \o Diffuser(t), v, w)
  <2>1. -1 \in Int \ {0} /\ \A i \in States(t) : z[i] = -w[i] /\ w[i] \in Int
    BY <1>14 DEF Amps
  <2>2. PICK k \in Int \ {0} : k = -1
    BY <2>1
  <2>5. PICK gates : gates = oracle \o Diffuser(t)
    OBVIOUS
  <2>3. \A i \in States(t) : z[i] = k * w[i]
    BY <2>1, <2>2
  <2>4. Makes(t, gates, v, w)
    BY <1>0, <1>15, <1>17, <2>3, <2>5, MakesUpToFactor
  <2> QED
    BY <2>4, <2>5
<1>19. oracle \o Diffuser(t) \in Seq(SearchGates(t))
  BY <1>16
<1> QED
  BY <1>1, <1>2, <1>3, <1>4, <1>10, <1>12, <1>18, <1>19

\* A register at its start.
LEMMA GroundShows ==
    ASSUME NEW t \in Nat
    PROVE  Shows(t, Ground(t), Zero(t))
<1>1. PICK N \in Nat \ {0} : N = Pow2[t]
  BY Powers
<1>2. PICK f : f = [i \in 1 .. N |-> <<IF i - 1 = 0 THEN 1 ELSE 0, 0>>]
  OBVIOUS
<1>3. f \in [1 .. N -> Int \X Int]
  BY <1>2
<1>4. f \in Seq(Int \X Int) /\ Len(f) = N
  BY <1>3
<1>5. SubSeq(f, 1, N) = f
  BY <1>4
<1>6. Ground(t) = f
  BY <1>1, <1>2, <1>5 DEF Ground, Vector
<1>7. \A i \in States(t) : f[i + 1][2] = 0 /\ 1 * f[i + 1][1] = 1 * Zero(t)[i]
  <2>1. TAKE i \in States(t)
  <2>2. i + 1 \in 1 .. N /\ (i + 1) - 1 = i
    BY <1>1 DEF States
  <2>3. f[i + 1] = <<IF i = 0 THEN 1 ELSE 0, 0>>
    BY <1>2, <2>2
  <2>4. Zero(t)[i] = IF i = 0 THEN 1 ELSE 0
    BY DEF Zero
  <2> QED
    BY <2>3, <2>4
<1>8. 1 \in Nat \ {0} /\ 1 \in Int \ {0}
  OBVIOUS
<1> QED
  BY <1>1, <1>3, <1>6, <1>7, <1>8 DEF Shows

\* All rounds.
LEMMA RoundsMake ==
    ASSUME NEW t \in Nat \ {0}, NEW W \in SUBSET States(t), NEW oracle \in Seq(SearchGates(t)),
           \A v \in Amps(t) : Makes(t, oracle, v, NegatedOn(t, W, v)),
           NEW k \in Nat
    PROVE  LET a == Rotated(Pow2[t], Cardinality(W), k)
           IN  Shows(t, Evolve(t, Rounds(oracle, t, k)), Pattern(t, W, a[1], a[2]))
<1>0. t \in Nat
  OBVIOUS
<1>1. PICK N \in Int : N = Pow2[t] /\ N \in Nat
  <2>1. Pow2[t] \in Nat \ {0}
    BY <1>0, Powers
  <2> QED
    BY <2>1
<1>2. PICK m \in Int : m = Cardinality(W)
  <2>1. Cardinality(W) \in 0 .. N
    BY <1>0, <1>1, PatternSums
  <2> QED
    BY <2>1
<1>3. PICK G : G = SearchGates(t)
  OBVIOUS
<1>4. PICK round \in Seq(G) : round = oracle \o Diffuser(t)
  <2>1. <<1, 1>> \in Int \X Int
    OBVIOUS
  <2>2. oracle \o Diffuser(t) \in Seq(SearchGates(t))
    BY <2>1, RoundMakes
  <2> QED
    BY <1>3, <2>2
<1>5. PICK blocks : blocks = [r \in 1 .. k |-> round]
  OBVIOUS
<1>6. blocks \in Seq(Seq(G)) /\ Len(blocks) = k
  <2>1. blocks \in [1 .. k -> Seq(G)]
    BY <1>5
  <2> QED
    BY <2>1
<1>7. PICK w : w = [r \in 0 .. k |-> Pattern(t, W, Rotated(N, m, r)[1], Rotated(N, m, r)[2])]
  OBVIOUS
<1>8. ASSUME NEW b \in 1 .. Len(blocks) PROVE Makes(t, blocks[b], w[b - 1], w[b])
  <2>1. PICK r \in Nat : r = b - 1 /\ b = r + 1 /\ r \in 0 .. k /\ b \in 0 .. k /\ b \in 1 .. k
    BY <1>6
  <2>2. PICK a \in Int \X Int : a = Rotated(N, m, r) /\ Rotated(N, m, b) = TurnOf(N, m, a)
    <3>1. \A j \in Nat : Rotated(N, m, j) \in Int \X Int
                          /\ Rotated(N, m, j + 1) = TurnOf(N, m, Rotated(N, m, j))
      BY RotatedIs
    <3> QED
      BY <2>1, <3>1
  <2>3. PICK c : c = TurnOf(N, m, a)
    OBVIOUS
  <2>4. Makes(t, oracle \o Diffuser(t), Pattern(t, W, a[1], a[2]), Pattern(t, W, c[1], c[2]))
    BY <1>1, <1>2, <2>3, RoundMakes
  <2> QED
    BY <1>4, <1>5, <1>7, <2>1, <2>2, <2>3, <2>4
<1>9. FlattenSeq(blocks) \in Seq(G) /\ Makes(t, FlattenSeq(blocks), w[0], w[k])
  BY <1>6, <1>8, BlocksMake
<1>10. PICK hs \in Seq(G) : hs = Each("h", 0 .. t - 1, t) /\ Makes(t, hs, Zero(t), w[0])
  <2>1. Zero(t) \in Amps(t)
    BY <1>0, TransformGround
  <2>2. /\ Each("h", 0 .. t - 1, t) \in Seq(G)
        /\ Makes(t, Each("h", 0 .. t - 1, t), Zero(t), Transform(t, Zero(t), t))
    BY <1>0, <1>3, <2>1, HadamardsMake
  <2>3. Rotated(N, m, 0) = <<1, 1>>
    BY RotatedIs
  <2>4. w[0] = Pattern(t, W, 1, 1)
    BY <1>7, <2>3
  <2>5. Pattern(t, W, 1, 1) \in Amps(t) /\ \A i \in States(t) : Pattern(t, W, 1, 1)[i] = 1
    <3>0. PICK one \in Int : one = 1
      OBVIOUS
    <3>1. Pattern(t, W, one, one) \in Amps(t)
      BY <1>0, PatternSums
    <3> QED
      BY <3>0, <3>1 DEF Pattern
  <2>6. Transform(t, Zero(t), t) \in Amps(t)
    BY <1>0, <2>1, TransformIs
  <2>7. \A i \in States(t) : Transform(t, Zero(t), t)[i] = 1
    BY <1>0, TransformGround
  <2>8. Transform(t, Zero(t), t) = Pattern(t, W, 1, 1)
    BY <2>5, <2>6, <2>7, SameAmps
  <2> QED
    BY <2>2, <2>4, <2>8
<1>11. PICK rest \in Seq(G) : rest = FlattenSeq(blocks)
  BY <1>9
<1>12. Makes(t, hs \o rest, Zero(t), w[k])
  BY <1>9, <1>10, <1>11, MakesJoin
<1>13. Rounds(oracle, t, k) = hs \o rest
  BY <1>4, <1>5, <1>10, <1>11 DEF Rounds
<1>14. Shows(t, Through(t, Ground(t), hs \o rest), w[k])
  BY <1>0, <1>12, GroundShows DEF Makes
<1>15. w[k] = Pattern(t, W, Rotated(N, m, k)[1], Rotated(N, m, k)[2])
  BY <1>7
<1> QED
  BY <1>1, <1>2, <1>13, <1>14, <1>15 DEF Evolve

--------------------------------------------------------------------------------
(* Bitstrings, the oracles and the histogram.                                *)

\* Bitstrings and basis states name each other.
LEMMA StringsName ==
    ASSUME NEW t \in Nat \ {0}
    PROVE  /\ \A i \in States(t) : BitString(i, t) \in BitStrings(t) /\ Number(BitString(i, t)) = i
           /\ \A s \in BitStrings(t) : Number(s) \in States(t) /\ BitString(Number(s), t) = s
<1>0. t \in Nat /\ Pow2[t] \in Nat \ {0}
  BY Powers
<1>1. ASSUME NEW i \in States(t)
      PROVE  BitString(i, t) \in BitStrings(t) /\ Number(BitString(i, t)) = i
  <2>1. i \in Nat /\ i \in 0 .. Pow2[t] - 1
    BY <1>0 DEF States
  <2>2. \A p \in 1 .. t : Bit(i, t - p) \in {0, 1}
    <3>1. \A p \in 1 .. t : t - p \in Nat
      OBVIOUS
    <3> QED
      BY <2>1, <3>1, FlipTurns
  <2>3. Estimate([p \in 1 .. t |-> Bit(i, t - p)]) = i
    BY <2>1, EstimateIs
  <2> QED
    BY <2>2, <2>3 DEF BitString, BitStrings, Estimate
<1>2. ASSUME NEW s \in BitStrings(t)
      PROVE  Number(s) \in States(t) /\ BitString(Number(s), t) = s
  <2>1. s \in [1 .. t -> {0, 1}]
    BY DEF BitStrings
  <2>2. PICK Z : Z = {q \in 0 .. t - 1 : s[t - q] = 1}
    OBVIOUS
  <2>3. 0 \in States(t) /\ t \in 0 .. t
    BY <1>0 DEF States
  <2>4. PICK i \in States(t) : TurnedRound(t, Z, t, 0, i)
    BY <1>0, <2>3, MaskedIs
  <2>5. ASSUME NEW p \in 1 .. t PROVE Bit(i, t - p) = s[p]
    <3>1. PICK q \in 0 .. t - 1 : q = t - p /\ t - q = p /\ q < t
      OBVIOUS
    <3>2. Bit(0, q) = 0
      <4>1. PICK P \in Nat \ {0} : P = Pow2[q]
        <5>1. q \in Nat
          OBVIOUS
        <5> QED
          BY <5>1, Powers
      <4>2. 0 = P * 0 + 0 /\ 0 \in 0 .. P - 1 /\ 0 \in Int
        BY <4>1
      <4>3. 0 \div P = 0
        BY <4>1, <4>2, DivisionUnique
      <4> QED
        BY <4>1, <4>3 DEF Bit
    <3>3. Bit(i, q) = IF q \in Z THEN 1 ELSE 0
      BY <2>4, <3>1, <3>2 DEF TurnedRound
    <3>4. s[p] \in {0, 1} /\ (q \in Z <=> s[p] = 1)
      BY <2>1, <2>2, <3>1
    <3> QED
      BY <3>1, <3>3, <3>4
  <2>6. BitString(i, t) = s
    BY <2>1, <2>5 DEF BitString
  <2>7. Number(s) = i
    BY <1>1, <2>6
  <2> QED
    BY <2>6, <2>7
<1> QED
  BY <1>1, <1>2

\* The basis states of some bitstrings.
Named(t, S) == {i \in States(t) : BitString(i, t) \in S}

\* There are as many.
LEMMA NamedCount ==
    ASSUME NEW t \in Nat \ {0}, NEW S \in SUBSET BitStrings(t)
    PROVE  /\ IsFiniteSet(S) /\ Cardinality(S) = Cardinality(Named(t, S))
           /\ Named(t, S) \in SUBSET States(t)
<1>1. PICK W : W = Named(t, S)
  OBVIOUS
<1>2. W \in SUBSET States(t)
  BY <1>1 DEF Named
<1>3. IsFiniteSet(W)
  <2>1. PICK n \in Int : n = Pow2[t] - 1
    BY Powers
  <2>2. IsFiniteSet(0 .. n)
    BY FS_Interval
  <2> QED
    BY <1>2, <2>1, <2>2, FS_Subset DEF States
<1> DEFINE f == [i \in W |-> BitString(i, t)]
<1>4. f \in [W -> S]
  BY <1>1 DEF Named
<1>5. IsInjective(f)
  <2>1. ASSUME NEW i \in W, NEW j \in W, BitString(i, t) = BitString(j, t) PROVE i = j
    BY <1>2, <2>1, StringsName
  <2> QED
    BY <2>1 DEF IsInjective
<1>6. \A s \in S : \E i \in W : f[i] = s
  <2>1. TAKE s \in S
  <2>2. s \in BitStrings(t)
    OBVIOUS
  <2>3. PICK i \in States(t) : i = Number(s) /\ BitString(i, t) = s
    BY <2>2, StringsName
  <2>4. i \in W /\ f[i] = s
    BY <1>1, <2>3 DEF Named
  <2> QED
    BY <2>4
<1> HIDE DEF f
<1>7. f \in Bijection(W, S)
  BY <1>4, <1>5, <1>6 DEF Bijection, Injection, Surjection
<1>8. ExistsBijection(W, S)
  BY <1>7 DEF ExistsBijection
<1>9. IsFiniteSet(S) /\ Cardinality(S) = Cardinality(W)
  BY <1>3, <1>8, FS_Bijection
<1> QED
  BY <1>1, <1>2, <1>9

\* X, the multi-controlled Z and X again negate one marked state.
LEMMA MarkedIsChosen ==
    ASSUME NEW t \in Nat \ {0}, NEW s \in BitStrings(t)
    PROVE  Chosen(t, ZeroBits(s)) = {i \in States(t) : BitString(i, t) = s}
<1>1. s \in [1 .. t -> {0, 1}] /\ Len(s) = t
  BY DEF BitStrings
<1>2. ASSUME NEW i \in States(t)
      PROVE  (\A q \in 0 .. t - 1 : Bit(i, q) = 0 <=> q \in ZeroBits(s)) <=> BitString(i, t) = s
  <2>1. \A q \in 0 .. t - 1 : q \in ZeroBits(s) <=> s[t - q] = 0
    BY <1>1 DEF ZeroBits, Character
  <2>2. BitString(i, t) \in [1 .. t -> {0, 1}] /\ \A p \in 1 .. t : BitString(i, t)[p] = Bit(i, t - p)
    BY StringsName DEF BitStrings, BitString
  <2>3. BitString(i, t) = s <=> \A p \in 1 .. t : Bit(i, t - p) = s[p]
    BY <1>1, <2>2
  <2>4. ASSUME NEW p \in 1 .. t, \A q \in 0 .. t - 1 : Bit(i, q) = 0 <=> q \in ZeroBits(s)
        PROVE  Bit(i, t - p) = s[p]
    <3>1. PICK q \in 0 .. t - 1 : q = t - p /\ t - q = p
      OBVIOUS
    <3>2. Bit(i, q) = 0 <=> s[p] = 0
      BY <2>1, <2>4, <3>1
    <3>3. Bit(i, q) \in {0, 1} /\ s[p] \in {0, 1}
      BY <1>1, <2>2, <3>1
    <3> QED
      BY <3>1, <3>2, <3>3
  <2>5. ASSUME NEW q \in 0 .. t - 1, \A p \in 1 .. t : Bit(i, t - p) = s[p]
        PROVE  Bit(i, q) = 0 <=> q \in ZeroBits(s)
    <3>1. PICK p \in 1 .. t : p = t - q /\ t - p = q
      OBVIOUS
    <3> QED
      BY <2>1, <2>5, <3>1
  <2> QED
    BY <2>3, <2>4, <2>5
<1> QED
  BY <1>2 DEF Chosen

\* The oracle negates the marked states, each once.
LEMMA OracleMakes ==
    ASSUME NEW t \in Nat \ {0}, NEW marked \in Seq(BitStrings(t)), IsInjective(marked), NEW v \in Amps(t)
    PROVE  /\ Oracle(marked, t) \in Seq(SearchGates(t))
           /\ Makes(t, Oracle(marked, t), v, NegatedOn(t, Named(t, ToSet(marked)), v))
<1>1. PICK n \in Nat : n = Len(marked) /\ DOMAIN marked = 1 .. n
  OBVIOUS
<1>2. PICK G : G = SearchGates(t)
  OBVIOUS
<1> DEFINE block(k) == Each("x", ZeroBits(marked[k]), t) \o MCZ(t) \o Each("x", ZeroBits(marked[k]), t)
           seen(k) == {i \in States(t) : \E j \in 1 .. k : BitString(i, t) = marked[j]}
<1>3. ASSUME NEW k \in 1 .. n, NEW u \in Amps(t)
      PROVE  /\ block(k) \in Seq(G)
             /\ Makes(t, block(k), u, NegatedOn(t, {i \in States(t) : BitString(i, t) = marked[k]}, u))
  <2>1. PICK s, Z : s \in BitStrings(t) /\ s = marked[k] /\ Z = ZeroBits(s)
    <3>1. marked[k] \in BitStrings(t)
      BY <1>1
    <3> QED
      BY <3>1
  <2>2. /\ Each("x", Z, t) \o MCZ(t) \o Each("x", Z, t) \in Seq(G)
        /\ Makes(t, Each("x", Z, t) \o MCZ(t) \o Each("x", Z, t), u, NegatedOn(t, Chosen(t, Z), u))
    BY <1>2, SelectionMakes
  <2> QED
    BY <2>1, <2>2, MarkedIsChosen
<1>4. PICK blocks : blocks = [k \in 1 .. n |-> block(k)]
  OBVIOUS
<1>5. PICK w : w = [k \in 0 .. n |-> NegatedOn(t, seen(k), v)]
  OBVIOUS
<1>6. blocks \in Seq(Seq(G)) /\ Len(blocks) = n
  <2>1. \A k \in 1 .. n : block(k) \in Seq(G)
    BY <1>3
  <2> HIDE DEF block
  <2>2. blocks \in [1 .. n -> Seq(G)]
    BY <1>4, <2>1
  <2> QED
    BY <2>2
<1>7. \A k \in 0 .. n : w[k] \in Amps(t)
  BY <1>5, NegatedIs
<1>8. ASSUME NEW k \in 1 .. Len(blocks) PROVE Makes(t, blocks[k], w[k - 1], w[k])
  <2>1. k \in 1 .. n /\ k - 1 \in 0 .. n /\ k \in 0 .. n
    BY <1>6
  <2>2. PICK u \in Amps(t) : u = w[k - 1]
    BY <1>7, <2>1
  <2>3. PICK X : X = {i \in States(t) : BitString(i, t) = marked[k]}
    OBVIOUS
  <2>4. ASSUME NEW i \in States(t)
        PROVE  (IF i \in X THEN -u[i] ELSE u[i]) = IF i \in seen(k) THEN -v[i] ELSE v[i]
    <3>1. u[i] = IF i \in seen(k - 1) THEN -v[i] ELSE v[i]
      BY <1>5, <2>1, <2>2 DEF NegatedOn
    <3>2. i \in seen(k) <=> i \in seen(k - 1) \/ i \in X
      <4>1. \A j \in 1 .. k : j \in 1 .. k - 1 \/ j = k
        OBVIOUS
      <4>2. k \in 1 .. k /\ \A j \in 1 .. k - 1 : j \in 1 .. k
        OBVIOUS
      <4> QED
        BY <2>3, <4>1, <4>2
    <3>3. ~(i \in seen(k - 1) /\ i \in X)
      <4>1. SUFFICES ASSUME i \in seen(k - 1), i \in X PROVE FALSE
        OBVIOUS
      <4>2. PICK j \in 1 .. k - 1 : marked[j] = marked[k]
        BY <2>3, <4>1
      <4>3. j \in DOMAIN marked /\ k \in DOMAIN marked /\ j # k
        BY <1>1, <2>1
      <4> QED
        BY <4>2, <4>3 DEF IsInjective
    <3> QED
      BY <3>1, <3>2, <3>3
  <2>5. NegatedOn(t, X, u) = NegatedOn(t, seen(k), v)
    BY <2>4 DEF NegatedOn
  <2>6. Makes(t, block(k), u, NegatedOn(t, X, u))
    BY <1>3, <2>1, <2>3
  <2>7. blocks[k] = block(k) /\ w[k] = NegatedOn(t, seen(k), v)
    BY <1>4, <1>5, <2>1
  <2> HIDE DEF block, seen
  <2> QED
    BY <2>2, <2>5, <2>6, <2>7
<1>9. FlattenSeq(blocks) \in Seq(G) /\ Makes(t, FlattenSeq(blocks), w[0], w[n])
  BY <1>6, <1>8, BlocksMake
<1>10. w[0] = v
  <2>1. seen(0) = {}
    OBVIOUS
  <2>2. w[0] = NegatedOn(t, {}, v)
    BY <1>5, <2>1
  <2>3. w[0] = [i \in States(t) |-> v[i]]
    BY <2>2 DEF NegatedOn
  <2> QED
    BY <2>3 DEF Amps
<1>11. w[n] = NegatedOn(t, Named(t, ToSet(marked)), v)
  <2>1. seen(n) = Named(t, ToSet(marked))
    BY <1>1 DEF Named, ToSet
  <2> QED
    BY <1>5, <2>1
<1>12. Oracle(marked, t) = FlattenSeq(blocks)
  BY <1>1, <1>4 DEF Oracle
<1> QED
  BY <1>2, <1>9, <1>10, <1>11, <1>12

\* The phase oracle of an expression negates its solutions.
LEMMA SatOracleMakes ==
    ASSUME NEW variables, NEW expression, Len(variables) \in Nat \ {0}, NEW v \in Amps(Len(variables))
    PROVE  LET t == Len(variables)
               W == Named(t, CountSolutions(variables, expression))
           IN  /\ <<SatOracle(variables, expression)>> \in Seq(SearchGates(t))
               /\ Makes(t, <<SatOracle(variables, expression)>>, v, NegatedOn(t, W, v))
<1>1. PICK t \in Nat \ {0} : t = Len(variables)
  OBVIOUS
<1> DEFINE holds(b) == EvalBooleanExpression(expression, Assignment(variables, b))
           bits(i) == [k \in 1 .. t |-> Bit(i, k - 1)]
<1>2. PICK W : W = Named(t, CountSolutions(variables, expression))
  OBVIOUS
<1>3. PICK S : S = {i \in States(t) : holds(bits(i))}
  OBVIOUS
<1>4. ASSUME NEW i \in States(t) PROVE bits(i) \in BitStrings(t) /\ Reverse(bits(i)) = BitString(i, t)
  <2>1. BitString(i, t) \in [1 .. t -> {0, 1}] /\ BitString(i, t) = [p \in 1 .. t |-> Bit(i, t - p)]
    BY StringsName DEF BitStrings, BitString
  <2>2. \A k \in 1 .. t : Bit(i, k - 1) \in {0, 1}
    <3>1. TAKE k \in 1 .. t
    <3>2. PICK p \in 1 .. t : p = t + 1 - k /\ t - p = k - 1
      OBVIOUS
    <3> QED
      BY <2>1, <3>2
  <2>3. bits(i) \in [1 .. t -> {0, 1}] /\ Len(bits(i)) = t
    BY <2>2
  <2>4. \A p \in 1 .. t : bits(i)[(t - p) + 1] = Bit(i, t - p)
    <3>1. TAKE p \in 1 .. t
    <3>2. (t - p) + 1 \in 1 .. t /\ ((t - p) + 1) - 1 = t - p
      OBVIOUS
    <3> QED
      BY <3>2
  <2> HIDE DEF bits
  <2>5. Reverse(bits(i)) = [p \in 1 .. t |-> Bit(i, t - p)]
    BY <2>3, <2>4 DEF Reverse
  <2> QED
    BY <2>1, <2>3, <2>5 DEF BitStrings
<1>5. ASSUME NEW i \in States(t) PROVE i \in S <=> i \in W
  <2>1. CountSolutions(variables, expression) = {Reverse(b) : b \in {c \in BitStrings(t) : holds(c)}}
    BY <1>1 DEF CountSolutions
  <2>2. ASSUME NEW b \in BitStrings(t), Reverse(b) = BitString(i, t) PROVE b = bits(i)
    <3>1. b \in [1 .. t -> {0, 1}] /\ Len(b) = t
      BY DEF BitStrings
    <3>2. \A p \in 1 .. t : b[(t - p) + 1] = Bit(i, t - p)
      <4>1. Reverse(b) = [p \in 1 .. t |-> b[(t - p) + 1]]
        BY <3>1 DEF Reverse
      <4> QED
        BY <2>2, <4>1 DEF BitString
    <3>3. ASSUME NEW k \in 1 .. t PROVE b[k] = Bit(i, k - 1)
      <4>1. PICK p \in 1 .. t : p = t + 1 - k /\ (t - p) + 1 = k /\ t - p = k - 1
        OBVIOUS
      <4> QED
        BY <3>2, <4>1
    <3> QED
      BY <3>1, <3>3
  <2>3. i \in W <=> \E b \in BitStrings(t) : holds(b) /\ Reverse(b) = BitString(i, t)
    <3> HIDE DEF holds
    <3> QED
      BY <1>2, <2>1 DEF Named
  <2>4. i \in S <=> holds(bits(i))
    BY <1>3
  <2> HIDE DEF holds, bits
  <2> QED
    BY <1>4, <2>2, <2>3, <2>4
<1>6. PICK g : g = PhaseOracle(S)
  OBVIOUS
<1>7. SatOracle(variables, expression) = g
  BY <1>1, <1>3, <1>6 DEF SatOracle, States
<1>8. g.op = "phase" /\ g.on = {} /\ g.arg = S /\ g \in SearchGates(t)
  <2>1. S \in SUBSET States(t)
    BY <1>3
  <2> QED
    BY <1>6, <2>1 DEF PhaseOracle, SearchGates
<1>9. SearchGate(t, g)
  BY <1>8 DEF SearchGate
<1>10. Makes(t, <<g>>, v, [i \in States(t) |-> Acted(g, v, i)])
  <2>1. t \in Nat /\ v \in Amps(t)
    BY <1>1
  <2> QED
    BY <1>9, <2>1, GateMakes
<1>11. \A i : Acted(g, v, i) = IF i \in S THEN -v[i] ELSE v[i]
  BY <1>8 DEF Acted
<1>12. [i \in States(t) |-> Acted(g, v, i)] = NegatedOn(t, W, v)
  BY <1>5, <1>11 DEF NegatedOn
<1>13. <<g>> \in Seq(SearchGates(t))
  BY <1>8
<1> QED
  BY <1>1, <1>2, <1>7, <1>10, <1>12, <1>13

\* A sum of the values of f.
TotalOf(f, D) == FoldFunctionOnSet(+, 0, f, D)

\* Each element of D weighs wa or wb.
TwoWeights(f, D, A, wa, wb) == \A x \in D : f[x] = IF x \in A THEN wa ELSE wb

\* The sum over such a finite set.
LEMMA SumOfTwo ==
    ASSUME NEW D, IsFiniteSet(D), NEW A, NEW wa \in Int, NEW wb \in Int, NEW f,
           TwoWeights(f, D, A, wa, wb)
    PROVE  TotalOf(f, D) = Cardinality(D \cap A) * wa + Cardinality(D \ A) * wb
<1> DEFINE one(s) == CHOOSE x \in s : TRUE
           W(g) == [s \in SUBSET D |-> IF s = {} THEN 0 ELSE f[one(s)] + g[s \ {one(s)}]]
           value(s) == Cardinality(s \cap A) * wa + Cardinality(s \ A) * wb
           total == [s \in SUBSET D |-> value(s)]
           sum == CHOOSE g : g = W(g)
<1>0. \A x \in D : f[x] = IF x \in A THEN wa ELSE wb
  BY DEF TwoWeights
<1>1. TotalOf(f, D) = sum[D]
  BY DEF TotalOf, FoldFunctionOnSet, MapThenFoldSet
<1>2. ASSUME NEW s \in SUBSET D
      PROVE  /\ IsFiniteSet(s) /\ IsFiniteSet(s \cap A) /\ IsFiniteSet(s \ A)
             /\ Cardinality(s \cap A) \in Nat /\ Cardinality(s \ A) \in Nat /\ Cardinality(s) \in Nat
  <2>1. IsFiniteSet(s)
    BY FS_Subset
  <2>2. s \cap A \in SUBSET s /\ s \ A \in SUBSET s
    OBVIOUS
  <2>3. IsFiniteSet(s \cap A) /\ IsFiniteSet(s \ A)
    BY <2>1, <2>2, FS_Subset
  <2> QED
    BY <2>1, <2>3, FS_CardinalityType
<1>3. ASSUME NEW s \in SUBSET D, s # {}
      PROVE  /\ one(s) \in s /\ s \ {one(s)} \in SUBSET D
             /\ Cardinality(s \ {one(s)}) = Cardinality(s) - 1
             /\ value(s) = f[one(s)] + value(s \ {one(s)})
  <2>1. PICK x \in s : x = one(s)
    BY <1>3
  <2>2. x \in D
    OBVIOUS
  <2>3. Cardinality(s \ {x}) = Cardinality(s) - 1
    BY <1>2, FS_RemoveElement
  <2>4. PICK p \in Int, q \in Int : p = Cardinality(s \cap A) /\ q = Cardinality(s \ A)
    BY <1>2
  <2>5. CASE x \in A
    <3>1. (s \ {x}) \cap A = (s \cap A) \ {x} /\ (s \ {x}) \ A = s \ A /\ x \in s \cap A
      BY <2>5
    <3>2. Cardinality((s \ {x}) \cap A) = p - 1 /\ Cardinality((s \ {x}) \ A) = q
      <4>1. PICK c : c = s \cap A /\ IsFiniteSet(c) /\ x \in c
        BY <1>2, <3>1
      <4>2. Cardinality(c \ {x}) = Cardinality(c) - 1
        BY <4>1, FS_RemoveElement
      <4> QED
        BY <2>4, <3>1, <4>1, <4>2
    <3>3. value(s \ {x}) = (p - 1) * wa + q * wb /\ value(s) = p * wa + q * wb /\ f[x] = wa
      BY <1>0, <2>2, <2>4, <2>5, <3>2
    <3>4. (p - 1) * wa = p * wa - wa /\ p * wa \in Int /\ q * wb \in Int
      OBVIOUS
    <3> HIDE DEF value
    <3>5. value(s) = f[x] + value(s \ {x})
      BY <3>3, <3>4
    <3> HIDE DEF one
    <3> QED
      BY <2>1, <2>3, <3>5
  <2>6. CASE x \notin A
    <3>1. (s \ {x}) \ A = (s \ A) \ {x} /\ (s \ {x}) \cap A = s \cap A /\ x \in s \ A
      BY <2>6
    <3>2. Cardinality((s \ {x}) \cap A) = p /\ Cardinality((s \ {x}) \ A) = q - 1
      <4>1. PICK c : c = s \ A /\ IsFiniteSet(c) /\ x \in c
        BY <1>2, <3>1
      <4>2. Cardinality(c \ {x}) = Cardinality(c) - 1
        BY <4>1, FS_RemoveElement
      <4> QED
        BY <2>4, <3>1, <4>1, <4>2
    <3>3. value(s \ {x}) = p * wa + (q - 1) * wb /\ value(s) = p * wa + q * wb /\ f[x] = wb
      BY <1>0, <2>2, <2>4, <2>6, <3>2
    <3>4. (q - 1) * wb = q * wb - wb /\ p * wa \in Int /\ q * wb \in Int
      OBVIOUS
    <3> HIDE DEF value
    <3>5. value(s) = f[x] + value(s \ {x})
      BY <3>3, <3>4
    <3> HIDE DEF one
    <3> QED
      BY <2>1, <2>3, <3>5
  <2> QED
    BY <2>5, <2>6
<1>4. value({}) = 0
  <2>1. {} \cap A = {} /\ {} \ A = {} /\ Cardinality({}) = 0
    BY FS_EmptySet
  <2>2. 0 * wa + 0 * wb = 0
    OBVIOUS
  <2> QED
    BY <2>1, <2>2
<1> HIDE DEF one, value
<1>5. total = W(total)
  <2>1. \A s \in SUBSET D : total[s] = value(s)
    OBVIOUS
  <2> HIDE DEF total
  <2>2. \A s \in SUBSET D : value(s) = IF s = {} THEN 0 ELSE f[one(s)] + total[s \ {one(s)}]
    BY <1>3, <1>4, <2>1
  <2>3. total = [s \in SUBSET D |-> value(s)]
    BY DEF total
  <2> QED
    BY <2>2, <2>3
<1>6. sum = W(sum)
  <2> HIDE DEF W, total
  <2> QED
    BY <1>5
<1>7. \A s \in SUBSET D : sum[s] = IF s = {} THEN 0 ELSE f[one(s)] + sum[s \ {one(s)}]
  <2> HIDE DEF sum
  <2> QED
    BY <1>6
<1> HIDE DEF sum
<1> DEFINE S == {n \in Nat : \A s \in SUBSET D : Cardinality(s) = n => sum[s] = value(s)}
<1>8. 0 \in S
  <2>1. \A s \in SUBSET D : Cardinality(s) = 0 => s = {}
    BY <1>2, FS_EmptySet
  <2> QED
    BY <1>4, <1>7, <2>1
<1>9. ASSUME NEW n \in S PROVE n + 1 \in S
  <2>1. ASSUME NEW s \in SUBSET D, Cardinality(s) = n + 1 PROVE sum[s] = value(s)
    <3>1. s # {}
      BY <2>1, FS_EmptySet
    <3>2. Cardinality(s \ {one(s)}) = n /\ s \ {one(s)} \in SUBSET D
      <4>1. Cardinality(s \ {one(s)}) = Cardinality(s) - 1 /\ s \ {one(s)} \in SUBSET D
        BY <1>3, <3>1
      <4>2. n \in Nat /\ (n + 1) - 1 = n
        OBVIOUS
      <4> QED
        BY <2>1, <4>1, <4>2
    <3>3. sum[s \ {one(s)}] = value(s \ {one(s)})
      BY <3>2
    <3> QED
      BY <1>3, <1>7, <3>1, <3>3
  <2>2. n + 1 \in Nat
    OBVIOUS
  <2> QED
    BY <2>1, <2>2
<1>10. S \in SUBSET Nat
  OBVIOUS
<1>11. S = Nat
  <2> HIDE DEF S
  <2> QED
    BY <1>8, <1>9, <1>10, NumberInduction
<1>12. D \in SUBSET D /\ Cardinality(D) \in S
  <2>1. Cardinality(D) \in Nat
    BY <1>2
  <2> HIDE DEF S
  <2> QED
    BY <1>11, <2>1
<1>13. sum[D] = value(D)
  BY <1>12
<1> QED
  BY <1>1, <1>13 DEF value

\* The histogram is the one the rotation predicts, outcome by outcome.
Amplified(t, S, k, counts) ==
    LET N == Pow2[t]
        m == Cardinality(S)
        a == Rotated(N, m, k)
        norm == m * a[1] * a[1] + (N - m) * a[2] * a[2]
    IN  \A s \in BitStrings(t) :
            Within(counts, {s}) * norm = Shots(counts) * (IF s \in S THEN a[1] * a[1] ELSE a[2] * a[2])

\* A factor on both sides.
LEMMA Cancel ==
    ASSUME NEW c \in Nat \ {0}, NEW p \in Int, NEW q \in Int, c * p = c * q
    PROVE  p = q
<1>1. CASE p < q
  <2>1. PICK e \in Nat \ {0} : q = p + e
    <3>1. q - p \in Nat \ {0} /\ q = p + (q - p)
      BY <1>1
    <3> QED
      BY <3>1
  <2>2. c * (p + e) = c * p + c * e /\ c * e > 0 /\ c * p \in Int
    OBVIOUS
  <2> QED
    BY <2>1, <2>2
<1>2. CASE p > q
  <2>1. PICK e \in Nat \ {0} : p = q + e
    <3>1. p - q \in Nat \ {0} /\ p = q + (p - q)
      BY <1>2
    <3> QED
      BY <3>1
  <2>2. c * (q + e) = c * q + c * e /\ c * e > 0 /\ c * q \in Int
    OBVIOUS
  <2> QED
    BY <2>1, <2>2
<1> QED
  BY <1>1, <1>2

\* Weights that are the squares of proportional amplitudes.
LEMMA WeightsCompare ==
    ASSUME NEW c \in Nat \ {0}, NEW d \in Int, NEW M \in Nat, NEW K \in Nat,
           NEW X \in Int, NEW Y \in Int, NEW Z \in Int, NEW wa \in Int, NEW wb \in Int, NEW w \in Int,
           M # 0 => c * wa = d * X, K # 0 => c * wb = d * Y, c * w = d * Z
    PROVE  w * (M * X + K * Y) = (M * wa + K * wb) * Z
<1>1. c * (M * wa) = d * (M * X)
  <2>1. CASE M = 0
    BY <2>1
  <2>2. CASE M # 0
    <3>1. c * (M * wa) = M * (c * wa) /\ M * (d * X) = d * (M * X)
      OBVIOUS
    <3> QED
      BY <2>2, <3>1
  <2> QED
    BY <2>1, <2>2
<1>2. c * (K * wb) = d * (K * Y)
  <2>1. CASE K = 0
    BY <2>1
  <2>2. CASE K # 0
    <3>1. c * (K * wb) = K * (c * wb) /\ K * (d * Y) = d * (K * Y)
      OBVIOUS
    <3> QED
      BY <2>2, <3>1
  <2> QED
    BY <2>1, <2>2
<1>3. PICK P \in Int, Q \in Int, R \in Int, T \in Int : P = M * X /\ Q = K * Y /\ R = M * wa /\ T = K * wb
  OBVIOUS
<1>4. PICK norm \in Int, shots \in Int : norm = P + Q /\ shots = R + T
  OBVIOUS
<1>5. c * shots = d * norm
  <2>1. c * (R + T) = c * R + c * T /\ d * (P + Q) = d * P + d * Q
    OBVIOUS
  <2> QED
    BY <1>1, <1>2, <1>3, <1>4, <2>1
<1>6. c * (w * norm) = c * (shots * Z)
  <2>1. c * (w * norm) = (c * w) * norm /\ (d * Z) * norm = (d * norm) * Z
    OBVIOUS
  <2>2. (c * shots) * Z = c * (shots * Z)
    OBVIOUS
  <2> QED
    BY <1>5, <2>1, <2>2
<1>7. w * norm = shots * Z
  <2>1. PICK p \in Int, q \in Int : p = w * norm /\ q = shots * Z
    OBVIOUS
  <2> QED
    BY <1>6, <2>1, Cancel
<1> QED
  BY <1>3, <1>4, <1>7

\* Bitstrings are counted like basis states.
LEMMA StringsCount ==
    ASSUME NEW t \in Nat \ {0}, NEW S \in SUBSET BitStrings(t)
    PROVE  /\ IsFiniteSet(BitStrings(t)) /\ IsFiniteSet(S)
           /\ Cardinality(S) \in Nat /\ Pow2[t] - Cardinality(S) \in Nat
           /\ Cardinality(BitStrings(t) \ S) = Pow2[t] - Cardinality(S)
<1>1. PICK N \in Nat \ {0} : N = Pow2[t]
  BY Powers
<1>2. Named(t, BitStrings(t)) = States(t)
  BY StringsName DEF Named
<1>3. Cardinality(0 .. N - 1) = N
  <2>1. 0 \in Int /\ N - 1 \in Int
    OBVIOUS
  <2> QED
    BY <2>1, FS_Interval
<1>4. IsFiniteSet(BitStrings(t)) /\ Cardinality(BitStrings(t)) = N
  <2>1. PICK B : B = BitStrings(t) /\ B \in SUBSET BitStrings(t)
    OBVIOUS
  <2>2. IsFiniteSet(B) /\ Cardinality(B) = Cardinality(Named(t, B))
    BY <2>1, NamedCount
  <2> QED
    BY <1>1, <1>2, <1>3, <2>1, <2>2 DEF States
<1>5. IsFiniteSet(S) /\ Cardinality(S) <= N
  BY <1>4, FS_Subset
<1>6. Cardinality(S) \in Nat
  BY <1>5, FS_CardinalityType
<1>7. Cardinality(BitStrings(t) \ S) = N - Cardinality(S)
  <2>1. BitStrings(t) \cap S = S
    OBVIOUS
  <2>2. Cardinality(BitStrings(t) \ S) = Cardinality(BitStrings(t)) - Cardinality(BitStrings(t) \cap S)
    BY <1>4, FS_Difference
  <2> QED
    BY <1>4, <2>1, <2>2
<1> QED
  BY <1>1, <1>4, <1>5, <1>6, <1>7

\* A vector that shows the pattern of the rotation is measured as it predicts.
LEMMA HistogramAmplifies ==
    ASSUME NEW t \in Nat \ {0}, NEW S \in SUBSET BitStrings(t), NEW k \in Nat, NEW psi,
           Shows(t, psi, Pattern(t, Named(t, S), Rotated(Pow2[t], Cardinality(S), k)[1],
                                                  Rotated(Pow2[t], Cardinality(S), k)[2]))
    PROVE  Amplified(t, S, k, Histogram(t, psi))
<1>1. PICK N \in Nat \ {0} : N = Pow2[t]
  BY Powers
<1>2. PICK m \in Nat, r \in Nat :
         m = Cardinality(S) /\ r = N - m /\ Cardinality(BitStrings(t) \ S) = r
  BY <1>1, StringsCount
<1>3. PICK a \in Int \X Int : a = Rotated(N, m, k)
  <2>1. N \in Int /\ m \in Int
    OBVIOUS
  <2> QED
    BY <2>1, RotatedIs
<1>4. PICK x \in Int, y \in Int : x = a[1] /\ y = a[2]
  OBVIOUS
<1>5. PICK v : v = Pattern(t, Named(t, S), x, y)
  OBVIOUS
<1>6. psi \in [1 .. N -> Int \X Int]
  BY <1>1 DEF Shows
<1>7. PICK c0 \in Nat \ {0}, d0 \in Int \ {0} :
         \A i \in States(t) : psi[i + 1][2] = 0 /\ c0 * psi[i + 1][1] = d0 * v[i]
  BY <1>1, <1>2, <1>3, <1>4, <1>5 DEF Shows
<1>8. PICK c \in Nat \ {0}, d \in Int : c = c0 * c0 /\ d = d0 * d0
  <2>1. c0 * c0 \in Nat \ {0} /\ d0 * d0 \in Int
    OBVIOUS
  <2> QED
    BY <2>1
<1>9. PICK X \in Int, Y \in Int : X = x * x /\ Y = y * y
  OBVIOUS
<1> DEFINE weight(s) == Norm2(psi[1 + Number(s)])
<1>10. ASSUME NEW s \in BitStrings(t)
       PROVE  \E p \in Int : /\ weight(s) = p * p
                             /\ p = psi[Number(s) + 1][1]
                             /\ c0 * p = d0 * (IF s \in S THEN x ELSE y)
  <2>1. PICK i \in States(t) : i = Number(s) /\ BitString(i, t) = s
    BY StringsName
  <2>2. i + 1 \in 1 .. N /\ 1 + i = i + 1
    BY <1>1, <2>1 DEF States
  <2>3. PICK p \in Int : p = psi[i + 1][1] /\ psi[i + 1][2] = 0 /\ c0 * p = d0 * v[i]
    BY <1>6, <1>7, <2>2
  <2>4. v[i] = IF s \in S THEN x ELSE y
    BY <1>5, <2>1 DEF Pattern, Named
  <2>5. weight(s) = p * p
    <3>1. weight(s) = p * p + 0 * 0
      BY <2>1, <2>2, <2>3 DEF Norm2
    <3>2. p * p \in Int /\ 0 * 0 = 0
      OBVIOUS
    <3> QED
      BY <3>1, <3>2
  <2> QED
    BY <2>1, <2>3, <2>4, <2>5
<1>11. ASSUME NEW s \in BitStrings(t)
       PROVE  /\ weight(s) \in Nat
              /\ c * weight(s) = d * (IF s \in S THEN X ELSE Y)
  <2>1. PICK p \in Int : weight(s) = p * p /\ c0 * p = d0 * (IF s \in S THEN x ELSE y)
    BY <1>10
  <2>2. PICK z \in Int : z = (IF s \in S THEN x ELSE y) /\ z * z = IF s \in S THEN X ELSE Y
    BY <1>9
  <2>3. (c0 * p) * (c0 * p) = (c0 * c0) * (p * p) /\ (d0 * z) * (d0 * z) = (d0 * d0) * (z * z)
    OBVIOUS
  <2>4. p * p \in Nat
    <3>1. p * p >= 0
      OBVIOUS
    <3> QED
      BY <3>1
  <2>5. c * (p * p) = d * (z * z)
    BY <1>8, <2>1, <2>2, <2>3
  <2> QED
    BY <2>1, <2>2, <2>4, <2>5
<1>12. ASSUME NEW s \in BitStrings(t), NEW u \in BitStrings(t), s \in S <=> u \in S
       PROVE  weight(s) = weight(u)
  <2>1. PICK p \in Int : weight(s) = p * p /\ c0 * p = d0 * (IF s \in S THEN x ELSE y)
    BY <1>10
  <2>2. PICK q \in Int : weight(u) = q * q /\ c0 * q = d0 * (IF u \in S THEN x ELSE y)
    BY <1>10
  <2>3. c0 * p = c0 * q
    BY <1>12, <2>1, <2>2
  <2>4. p = q
    BY <2>3, Cancel
  <2> QED
    BY <2>1, <2>2, <2>4
<1> HIDE DEF weight
<1>13. PICK wa \in Nat : /\ \A s \in BitStrings(t) : s \in S => weight(s) = wa
                         /\ m # 0 => c * wa = d * X
  <2>1. CASE S = {}
    <3>1. m = 0
      BY <1>2, <2>1, FS_EmptySet
    <3> QED
      BY <2>1, <3>1
  <2>2. CASE S # {}
    <3>1. PICK u \in BitStrings(t) : u \in S
      BY <2>2
    <3>2. c * weight(u) = d * X /\ weight(u) \in Nat
      BY <1>11, <3>1
    <3>3. \A s \in BitStrings(t) : s \in S => weight(s) = weight(u)
      BY <1>12, <3>1
    <3> QED
      BY <3>2, <3>3
  <2> QED
    BY <2>1, <2>2
<1>14. PICK wb \in Nat : /\ \A s \in BitStrings(t) : s \notin S => weight(s) = wb
                         /\ r # 0 => c * wb = d * Y
  <2>1. CASE BitStrings(t) \ S = {}
    <3>1. r = 0
      BY <1>2, <2>1, FS_EmptySet
    <3> QED
      BY <2>1, <3>1
  <2>2. CASE BitStrings(t) \ S # {}
    <3>1. PICK u \in BitStrings(t) : u \notin S
      BY <2>2
    <3>2. c * weight(u) = d * Y /\ weight(u) \in Nat
      BY <1>11, <3>1
    <3>3. \A s \in BitStrings(t) : s \notin S => weight(s) = weight(u)
      BY <1>12, <3>1
    <3> QED
      BY <3>2, <3>3
  <2> QED
    BY <2>1, <2>2
<1>15. PICK D : D = {s \in BitStrings(t) : weight(s) > 0}
  OBVIOUS
<1>16. PICK counts : counts = [s \in D |-> weight(s)]
  OBVIOUS
<1>17. Histogram(t, psi) = counts
  BY <1>15, <1>16 DEF Histogram, weight
<1>18. IsFiniteSet(BitStrings(t)) /\ IsFiniteSet(S) /\ IsFiniteSet(D) /\ DOMAIN counts = D
  <2>1. D \in SUBSET BitStrings(t)
    BY <1>15
  <2> QED
    BY <1>16, <2>1, StringsCount, FS_Subset
<1>19. ASSUME NEW E \in SUBSET D
       PROVE  TotalOf(counts, E) = Cardinality(E \cap S) * wa + Cardinality(E \ S) * wb
  <2>1. IsFiniteSet(E)
    BY <1>18, FS_Subset
  <2>2. \A s \in E : counts[s] = IF s \in S THEN wa ELSE wb
    BY <1>13, <1>14, <1>15, <1>16
  <2>3. wa \in Int /\ wb \in Int
    OBVIOUS
  <2>4. PICK xa \in Int, xb \in Int : xa = wa /\ xb = wb
    BY <2>3
  <2>5. TwoWeights(counts, E, S, xa, xb)
    BY <2>2, <2>4 DEF TwoWeights
  <2>6. TotalOf(counts, E) = Cardinality(E \cap S) * xa + Cardinality(E \ S) * xb
    BY <2>1, <2>5, SumOfTwo
  <2> QED
    BY <2>4, <2>6
<1>20. Shots(counts) = m * wa + r * wb
  <2>1. Shots(counts) = TotalOf(counts, D)
    BY <1>18 DEF Shots, FoldFunction, TotalOf
  <2>2. Cardinality(D \cap S) * wa = m * wa
    <3>1. CASE wa = 0
      <4>1. Cardinality(D \cap S) \in Nat
        <5>1. IsFiniteSet(D \cap S)
          BY <1>18, FS_Intersection
        <5> QED
          BY <5>1, FS_CardinalityType
      <4> QED
        BY <3>1, <4>1
    <3>2. CASE wa # 0
      <4>1. D \cap S = S
        BY <1>13, <1>15, <3>2
      <4> QED
        BY <1>2, <4>1
    <3> QED
      BY <3>1, <3>2
  <2>3. Cardinality(D \ S) * wb = r * wb
    <3>1. CASE wb = 0
      <4>1. Cardinality(D \ S) \in Nat
        <5>1. IsFiniteSet(D \ S)
          BY <1>18, FS_Difference
        <5> QED
          BY <5>1, FS_CardinalityType
      <4> QED
        BY <3>1, <4>1
    <3>2. CASE wb # 0
      <4>1. D \ S = BitStrings(t) \ S
        BY <1>14, <1>15, <3>2
      <4> QED
        BY <1>2, <4>1
    <3> QED
      BY <3>1, <3>2
  <2>4. D \in SUBSET D
    OBVIOUS
  <2>5. TotalOf(counts, D) = Cardinality(D \cap S) * wa + Cardinality(D \ S) * wb
    BY <1>19, <2>4
  <2> QED
    BY <2>1, <2>2, <2>3, <2>5
<1>21. ASSUME NEW s \in BitStrings(t)
       PROVE  Within(counts, {s}) = weight(s)
  <2>1. Within(counts, {s}) = TotalOf(counts, {s} \cap D)
    BY <1>18 DEF Within, TotalOf
  <2>2. PICK E \in SUBSET D : E = {s} \cap D
    OBVIOUS
  <2>3. Within(counts, {s}) = Cardinality(E \cap S) * wa + Cardinality(E \ S) * wb
    BY <1>19, <2>1, <2>2
  <2>4. CASE s \notin D
    <3>1. E \cap S = {} /\ E \ S = {}
      BY <2>2, <2>4
    <3>2. Within(counts, {s}) = 0 * wa + 0 * wb
      BY <2>3, <3>1, FS_EmptySet
    <3>3. weight(s) = 0
      <4>1. weight(s) \in Nat /\ ~(weight(s) > 0)
        BY <1>11, <1>15, <2>4
      <4> QED
        BY <4>1
    <3> QED
      BY <3>2, <3>3
  <2>5. CASE s \in D /\ s \in S
    <3>1. E \cap S = {s} /\ E \ S = {} /\ weight(s) = wa
      BY <1>13, <2>2, <2>5
    <3>2. Within(counts, {s}) = 1 * wa + 0 * wb
      BY <2>3, <3>1, FS_EmptySet, FS_Singleton
    <3> QED
      BY <3>1, <3>2
  <2>6. CASE s \in D /\ s \notin S
    <3>1. E \cap S = {} /\ E \ S = {s} /\ weight(s) = wb
      BY <1>14, <2>2, <2>6
    <3>2. Within(counts, {s}) = 0 * wa + 1 * wb
      BY <2>3, <3>1, FS_EmptySet, FS_Singleton
    <3> QED
      BY <3>1, <3>2
  <2> QED
    BY <2>4, <2>5, <2>6
<1>22. ASSUME NEW s \in BitStrings(t)
       PROVE  Within(counts, {s}) * (m * a[1] * a[1] + (N - m) * a[2] * a[2])
                  = Shots(counts) * (IF s \in S THEN a[1] * a[1] ELSE a[2] * a[2])
  <2>1. PICK w \in Int : w = weight(s)
    BY <1>11
  <2>2. PICK Z \in Int : Z = IF s \in S THEN X ELSE Y
    OBVIOUS
  <2>3. c * w = d * Z
    BY <1>11, <2>1, <2>2
  <2>4. wa \in Int /\ wb \in Int
    OBVIOUS
  <2>5. w * (m * X + r * Y) = (m * wa + r * wb) * Z
    BY <1>13, <1>14, <2>3, <2>4, WeightsCompare
  <2>6. m * a[1] * a[1] + (N - m) * a[2] * a[2] = m * X + r * Y
    <3>1. m * x * x = m * X /\ r * y * y = r * Y
      BY <1>9
    <3> QED
      BY <1>2, <1>4, <3>1
  <2>7. (IF s \in S THEN a[1] * a[1] ELSE a[2] * a[2]) = Z
    BY <1>4, <1>9, <2>2
  <2> QED
    BY <1>20, <1>21, <2>1, <2>5, <2>6, <2>7
<1> QED
  BY <1>1, <1>2, <1>3, <1>17, <1>22 DEF Amplified

--------------------------------------------------------------------------------
(* Any search amplifies.                                                     *)

\* A set of numbers up to n that is not empty has a greatest.
LEMMA GreatestExists ==
    \A n \in Nat : \A S \in SUBSET (1 .. n) : S # {} => \E x \in S : \A y \in S : x >= y
<1> DEFINE T == {n \in Nat : \A S \in SUBSET (1 .. n) : S # {} => \E x \in S : \A y \in S : x >= y}
<1>1. 0 \in T
  <2>1. \A S \in SUBSET (1 .. 0) : S = {}
    OBVIOUS
  <2> QED
    BY <2>1
<1>2. ASSUME NEW n \in T PROVE n + 1 \in T
  <2>1. ASSUME NEW S \in SUBSET (1 .. n + 1), S # {} PROVE \E x \in S : \A y \in S : x >= y
    <3>1. CASE n + 1 \in S
      <4>1. \A y \in S : n + 1 >= y
        OBVIOUS
      <4> QED
        BY <3>1, <4>1
    <3>2. CASE n + 1 \notin S
      <4>1. S \in SUBSET (1 .. n)
        <5>1. \A y \in 1 .. n + 1 : y = n + 1 \/ y \in 1 .. n
          OBVIOUS
        <5> QED
          BY <3>2, <5>1
      <4> QED
        BY <2>1, <4>1
    <3> QED
      BY <3>1, <3>2
  <2>2. n + 1 \in Nat
    OBVIOUS
  <2> QED
    BY <2>1, <2>2
<1>3. T \in SUBSET Nat
  OBVIOUS
<1>4. T = Nat
  <2> HIDE DEF T
  <2> QED
    BY <1>1, <1>2, <1>3, NumberInduction
<1> QED
  BY <1>4

\* The number of rounds is a number.
LEMMA IterationsAre ==
    ASSUME NEW n \in Nat, NEW m
    PROVE  OptimalIterations(n, m) \in Nat \ {0}
<1> DEFINE S == {1} \cup {k \in 1 .. Pow2[n] : 160000 * k * k * m <= 98696 * Pow2[n]}
<1>1. Pow2[n] \in Nat \ {0}
  BY Powers
<1>2. 1 \in 1 .. Pow2[n]
  BY <1>1
<1>3. S \in SUBSET (1 .. Pow2[n]) /\ S # {}
  BY <1>2
<1>4. OptimalIterations(n, m) = Max(S)
  BY DEF OptimalIterations
<1> HIDE DEF S
<1>5. \E x \in S : \A y \in S : x >= y
  BY <1>1, <1>3, GreatestExists
<1>6. Max(S) \in S
  BY <1>5 DEF Max
<1>7. Max(S) \in 1 .. Pow2[n]
  BY <1>3, <1>6
<1>8. \A x \in 1 .. Pow2[n] : x \in Nat \ {0}
  BY <1>1
<1> QED
  BY <1>4, <1>7, <1>8

\* What AerSimulator makes of a circuit of gates.
LEMMA SimulatedGates ==
    ASSUME NEW n, NEW gates
    PROVE  Simulate(GateCircuit(n, gates)) = Histogram(n, Evolve(n, gates))
<1>1. PICK c : c = GateCircuit(n, gates)
  OBVIOUS
<1>2. c.kind = "gates" /\ c.qubits = n /\ c.gates = gates
  BY <1>1 DEF GateCircuit
<1>3. Simulate(c) = With(Evolve(n, gates), LAMBDA psi : Histogram(n, psi))
  BY <1>2 DEF Simulate
<1>4. With(Evolve(n, gates), LAMBDA psi : Histogram(n, psi)) = Histogram(n, Evolve(n, gates))
  BY DEF With
<1> QED
  BY <1>1, <1>3, <1>4

\* grover.py: whatever states are marked, among any number of qubits, k rounds
\* leave the histogram that the rotation predicts.
THEOREM GroverAmplifies ==
    ASSUME NEW n \in Nat \ {0}, NEW marked \in Seq(BitStrings(n)), IsInjective(marked), NEW k \in Nat
    PROVE  Amplified(n, ToSet(marked), k, Simulate(GateCircuit(n, GroverCircuit(marked, n, k))))
<1>1. PICK S : S = ToSet(marked)
  OBVIOUS
<1>2. S \in SUBSET BitStrings(n)
  BY <1>1 DEF ToSet
<1>3. PICK W : W = Named(n, S) /\ W \in SUBSET States(n) /\ Cardinality(W) = Cardinality(S)
  BY <1>2, NamedCount
<1>4. PICK oracle \in Seq(SearchGates(n)) :
         oracle = Oracle(marked, n) /\ \A v \in Amps(n) : Makes(n, oracle, v, NegatedOn(n, W, v))
  <2>1. \A v \in Amps(n) : /\ Oracle(marked, n) \in Seq(SearchGates(n))
                           /\ Makes(n, Oracle(marked, n), v, NegatedOn(n, W, v))
    BY <1>1, <1>3, OracleMakes
  <2>2. Zero(n) \in Amps(n)
    BY TransformGround
  <2> QED
    BY <2>1, <2>2
<1>5. PICK psi : psi = Evolve(n, Rounds(oracle, n, k))
  OBVIOUS
<1>6. Shows(n, psi, Pattern(n, W, Rotated(Pow2[n], Cardinality(W), k)[1],
                                  Rotated(Pow2[n], Cardinality(W), k)[2]))
  BY <1>3, <1>4, <1>5, RoundsMake
<1>7. Amplified(n, S, k, Histogram(n, psi))
  BY <1>2, <1>3, <1>6, HistogramAmplifies
<1>8. Simulate(GateCircuit(n, GroverCircuit(marked, n, k))) = Histogram(n, psi)
  BY <1>4, <1>5, SimulatedGates DEF GroverCircuit
<1> QED
  BY <1>1, <1>7, <1>8

\* The solutions of an expression are bitstrings.
LEMMA SolutionsAre ==
    ASSUME NEW variables, NEW expression, Len(variables) \in Nat \ {0}
    PROVE  CountSolutions(variables, expression) \in SUBSET BitStrings(Len(variables))
<1>1. PICK t \in Nat \ {0} : t = Len(variables)
  OBVIOUS
<1>2. ASSUME NEW b \in BitStrings(t) PROVE Reverse(b) \in BitStrings(t)
  <2>1. b \in [1 .. t -> {0, 1}] /\ Len(b) = t
    BY DEF BitStrings
  <2>2. \A p \in 1 .. t : (t - p) + 1 \in 1 .. t
    OBVIOUS
  <2>3. Reverse(b) = [p \in 1 .. t |-> b[(t - p) + 1]]
    BY <2>1 DEF Reverse
  <2> QED
    BY <2>1, <2>2, <2>3 DEF BitStrings
<1> QED
  BY <1>1, <1>2 DEF CountSolutions

\* sat_search.py: whatever expression is searched, over any number of variables,
\* k rounds leave the histogram that the rotation by its solutions predicts.
THEOREM SatSearchAmplifies ==
    ASSUME NEW variables, NEW expression, Len(variables) \in Nat \ {0}, NEW k \in Nat
    PROVE  Amplified(Len(variables), CountSolutions(variables, expression), k,
               Simulate(GateCircuit(Len(variables), SatCircuit(variables, expression, k))))
<1>0. PICK n \in Nat \ {0} : n = Len(variables)
  OBVIOUS
<1>1. PICK S : n = Len(variables) /\ S = CountSolutions(variables, expression)
  BY <1>0
<1>2. S \in SUBSET BitStrings(n)
  BY <1>1, SolutionsAre
<1>3. PICK W : W = Named(n, S) /\ W \in SUBSET States(n) /\ Cardinality(W) = Cardinality(S)
  BY <1>2, NamedCount
<1>4. PICK oracle \in Seq(SearchGates(n)) :
         /\ oracle = <<SatOracle(variables, expression)>>
         /\ \A v \in Amps(n) : Makes(n, oracle, v, NegatedOn(n, W, v))
  <2>1. \A v \in Amps(n) :
           /\ <<SatOracle(variables, expression)>> \in Seq(SearchGates(n))
           /\ Makes(n, <<SatOracle(variables, expression)>>, v, NegatedOn(n, W, v))
    BY <1>1, <1>3, SatOracleMakes
  <2>2. Zero(n) \in Amps(n)
    BY TransformGround
  <2> QED
    BY <2>1, <2>2
<1>5. PICK psi : psi = Evolve(n, Rounds(oracle, n, k))
  OBVIOUS
<1>6. Shows(n, psi, Pattern(n, W, Rotated(Pow2[n], Cardinality(W), k)[1],
                                  Rotated(Pow2[n], Cardinality(W), k)[2]))
  BY <1>3, <1>4, <1>5, RoundsMake
<1>7. Amplified(n, S, k, Histogram(n, psi))
  BY <1>2, <1>3, <1>6, HistogramAmplifies
<1>8. Simulate(GateCircuit(n, SatCircuit(variables, expression, k))) = Histogram(n, psi)
  BY <1>1, <1>4, <1>5, SimulatedGates DEF SatCircuit
<1> QED
  BY <1>1, <1>7, <1>8

--------------------------------------------------------------------------------
(* What searches and phase estimations answer.                               *)

\* The circuits of a phase estimation and of the two searches.
PhaseCircuitOf(r) == PhaseCircuit(r.num_counting_qubits, r.phi)
GroverCircuitOf(r) ==
    LET n == Len(r.marked_states[1])
    IN  GateCircuit(n, GroverCircuit(r.marked_states, n, OptimalIterations(n, Len(r.marked_states))))
SatCircuitOf(r) ==
    LET n == Len(r.variables)
    IN  GateCircuit(n, SatCircuit(r.variables, r.expression,
            OptimalIterations(n, Cardinality(Solutions(r)))))

\* The request has a circuit, and this is it.
RunsCircuit(r, circuit) ==
    \/ r.algorithm = "qpe" /\ circuit = PhaseCircuitOf(r)
    \/ /\ r.algorithm = "grover" /\ circuit = GroverCircuitOf(r)
       /\ Len(r.marked_states[1]) > 0 /\ ValidProblem(Len(r.marked_states[1]), r.marked_states)
    \/ r.algorithm = "sat_grover" /\ circuit = SatCircuitOf(r) /\ Solutions(r) # {}

JobOf(j) ==
    j.loop = "worker" /\ j.owner # Calibration =>
        /\ RunsCircuit(request[j.owner], j.circuit)
        /\ j.counts \in {None, Simulate(j.circuit)}

NoSolution(r) == [expression |-> r.expression, solutions |-> {}, counts |-> None]

AnswerOf(r, a) ==
    r.algorithm # "vqe" /\ a.status = "completed" =>
        \/ r.algorithm = "sat_grover" /\ a.result = NoSolution(r)
        \/ \E circuit : /\ RunsCircuit(r, circuit)
                        /\ \E counts \in {None, Simulate(circuit)} : a.result = Outcome(r, counts)

\* A request is one of those the experiment may carry; only what was taken has an
\* answer; the VQE loop runs for VQE; a job of any other experiment simulates the
\* circuit of its request, and its counts are what the answer is made of.
AnswersInv ==
    /\ \A e \in Experiments : request[e] # Nothing => request[e] \in Requests[e]
    /\ \A e \in Experiments : answer[e] # Nothing => request[e] # Nothing
    /\ stage \in {"thread", "cost", "term", "drain"} => request[running].algorithm = "vqe"
    /\ \A j \in DOMAIN jobs : JobOf(jobs[j])
    /\ \A e \in Experiments : answer[e] # Nothing => AnswerOf(request[e], answer[e])

\* The first state.
LEMMA AnswersInit == Init => AnswersInv
<1> SUFFICES ASSUME Init PROVE AnswersInv
  OBVIOUS
<1>1. jobs = <<>> /\ stage = "idle"
  BY DEF Init
<1>2. \A e \in Experiments : request[e] = Nothing /\ answer[e] = Nothing
  BY DEF Init
<1> QED
  BY <1>1, <1>2 DEF AnswersInv

\* An answer keeps it, if it is one that the request may have.
LEMMA AnswerIsOne ==
    ASSUME IInv, AnswersInv, running # Nobody, NEW a, Answer(running, a),
           UNCHANGED <<request, jobs>>, AnswerOf(request[running], a)
    PROVE  AnswersInv'
<1>1. Types /\ TurnInv
  BY DEF IInv
<1>2. running \in Experiments /\ request[running] # Nothing /\ stage' = "idle"
      /\ answer' = [answer EXCEPT ![running] = a]
  BY <1>1 DEF Types, TurnInv, Answer
<1>3. \A e \in Experiments : answer'[e] = IF e = running THEN a ELSE answer[e]
  BY <1>1, <1>2 DEF Types
<1>4. \A j \in DOMAIN jobs' : JobOf(jobs[j])'
  BY DEF AnswersInv, JobOf
<1>5. \A e \in Experiments : answer'[e] # Nothing => AnswerOf(request[e], answer[e])'
  BY <1>3 DEF AnswersInv, AnswerOf
<1> QED
  BY <1>2, <1>3, <1>4, <1>5 DEF AnswersInv

\* So does a cost call that goes on: its job is not the worker's.
LEMMA EvaluateIsNone ==
    ASSUME IInv, AnswersInv, NEW params, NEW k, NEW total, Evaluate(params, k, total),
           stage \in {"thread", "cost", "term"},
           UNCHANGED <<running, request, answer>>
    PROVE  AnswersInv'
<1>1. Types /\ TurnInv
  BY DEF IInv
<1>2. running \in Experiments /\ request[running].algorithm = "vqe"
  BY <1>1 DEF Types, TurnInv, AnswersInv
<1>3. \A e \in Experiments : answer[e] # Nothing => AnswerOf(request[e], answer[e])'
  BY DEF AnswersInv, AnswerOf
<1>4. CASE stage' = "cost" /\ UNCHANGED jobs
  <2>1. \A j \in DOMAIN jobs' : JobOf(jobs[j])'
    BY <1>4 DEF AnswersInv, JobOf
  <2> QED
    BY <1>2, <1>3, <1>4, <2>1 DEF AnswersInv
<1>5. CASE stage' = "term" /\ \E circuit : Submit(running, "cost", circuit)
  <2>1. PICK circuit : Submit(running, "cost", circuit)
    BY <1>5
  <2>2. /\ DOMAIN jobs' = 1 .. Len(jobs) + 1
        /\ DOMAIN jobs = 1 .. Len(jobs)
        /\ Len(jobs) \in Nat
        /\ \A j \in DOMAIN jobs : jobs'[j] = jobs[j]
        /\ jobs'[Len(jobs) + 1].loop = "cost"
    BY <1>2, <2>1, SubmitKeeps
  <2>3. ASSUME NEW j \in DOMAIN jobs' PROVE JobOf(jobs[j])'
    <3>1. j \in DOMAIN jobs \/ j = Len(jobs) + 1
      BY <2>2
    <3>2. CASE j \in DOMAIN jobs
      BY <2>2, <3>2 DEF AnswersInv, JobOf
    <3>3. CASE j = Len(jobs) + 1
      BY <2>2, <3>3 DEF JobOf
    <3> QED
      BY <3>1, <3>2, <3>3
  <2> QED
    BY <1>2, <1>3, <1>5, <2>3 DEF AnswersInv
<1> QED
  BY <1>4, <1>5, EvaluateDoes

\* So does a job that begins or ends.
LEMMA ChangedJobIsOne ==
    ASSUME IInv, AnswersInv, NEW j \in DOMAIN jobs, NEW r, IsJob(r),
           r.owner = jobs[j].owner, r.loop = jobs[j].loop, r.circuit = jobs[j].circuit,
           r.counts \in {None, jobs[j].counts, Simulate(jobs[j].circuit)},
           jobs' = [jobs EXCEPT ![j] = r],
           UNCHANGED <<running, request, answer, stage>>
    PROVE  AnswersInv'
<1>1. DOMAIN jobs' = DOMAIN jobs /\ \A i \in DOMAIN jobs : jobs'[i] = IF i = j THEN r ELSE jobs[i]
  BY JobChanges
<1>2. ASSUME NEW i \in DOMAIN jobs' PROVE JobOf(jobs[i])'
  <2>1. JobOf(jobs[i]) /\ JobOf(jobs[j])
    BY <1>1 DEF AnswersInv
  <2>2. CASE i = j
    <3>1. jobs'[i] = r
      BY <1>1, <2>2
    <3> QED
      BY <2>1, <3>1 DEF JobOf
  <2>3. CASE i # j
    <3>1. jobs'[i] = jobs[i]
      BY <1>1, <2>3
    <3> QED
      BY <2>1, <3>1 DEF JobOf
  <2> QED
    BY <2>2, <2>3
<1>3. \A e \in Experiments : answer[e] # Nothing => AnswerOf(request[e], answer[e])'
  BY DEF AnswersInv, AnswerOf
<1> QED
  BY <1>2, <1>3 DEF AnswersInv

\* So does a task that is taken.
LEMMA TakenIsOne ==
    ASSUME IInv, AnswersInv, NEW e \in Experiments, NEW r \in Requests[e], ExecuteTask(e, r)
    PROVE  AnswersInv'
<1>1. Types /\ TurnInv
  BY DEF IInv
<1>2. /\ running = Nobody /\ stage = "idle" /\ request[e] = Nothing /\ r # Nothing
      /\ request' = [request EXCEPT ![e] = r]
  BY <1>1, ExecutionAssumption DEF ExecuteTask, TurnInv
<1>3. \A x \in Experiments : request'[x] = IF x = e THEN r ELSE request[x]
  BY <1>1, <1>2 DEF Types
<1>4. \A x \in Experiments : request'[x] # Nothing => request'[x] \in Requests[x]
  BY <1>3 DEF AnswersInv
<1>5. answer[e] = Nothing
  BY <1>2 DEF AnswersInv
<1>6. ASSUME NEW j \in DOMAIN jobs
      PROVE  /\ jobs[j].owner # Calibration => request'[jobs[j].owner] = request[jobs[j].owner]
             /\ JobOf(jobs[j])
  BY <1>1, <1>2, <1>3 DEF TurnInv, Owned, AnswersInv
<1>7. ASSUME NEW circuit, Launch(e, circuit), RunsCircuit(r, circuit)
      PROVE  AnswersInv'
  <2>1. Submit(e, "worker", circuit) /\ stage' = "wait" /\ UNCHANGED answer
    BY <1>7 DEF Launch
  <2>2. /\ DOMAIN jobs' = 1 .. Len(jobs) + 1
        /\ DOMAIN jobs = 1 .. Len(jobs)
        /\ Len(jobs) \in Nat
        /\ \A j \in DOMAIN jobs : jobs'[j] = jobs[j]
        /\ jobs'[Len(jobs) + 1].owner = e
        /\ jobs'[Len(jobs) + 1].circuit = circuit
        /\ jobs'[Len(jobs) + 1].counts = None
    BY <2>1, SubmitKeeps
  <2>3. ASSUME NEW j \in DOMAIN jobs' PROVE JobOf(jobs[j])'
    <3>1. j \in DOMAIN jobs \/ j = Len(jobs) + 1
      BY <2>2
    <3>2. CASE j \in DOMAIN jobs
      <4>1. /\ jobs'[j] = jobs[j] /\ JobOf(jobs[j])
            /\ jobs[j].owner # Calibration => request'[jobs[j].owner] = request[jobs[j].owner]
        BY <1>6, <2>2, <3>2
      <4> QED
        BY <4>1 DEF JobOf
    <3>3. CASE j = Len(jobs) + 1
      <4>1. request'[e] = r
        BY <1>3
      <4> QED
        BY <1>7, <2>2, <3>3, <4>1 DEF JobOf
    <3> QED
      BY <3>1, <3>2, <3>3
  <2>4. \A x \in Experiments : answer'[x] # Nothing => AnswerOf(request[x], answer[x])'
    BY <1>3, <1>5, <2>1 DEF AnswersInv, AnswerOf
  <2>5. \A x \in Experiments : answer'[x] # Nothing => request'[x] # Nothing
    BY <1>2, <1>3, <2>1 DEF AnswersInv
  <2> QED
    BY <1>4, <2>1, <2>3, <2>4, <2>5 DEF AnswersInv
<1>8. ASSUME NEW a, Answer(e, a), UNCHANGED jobs, AnswerOf(r, a)
      PROVE  AnswersInv'
  <2>1. stage' = "idle" /\ answer' = [answer EXCEPT ![e] = a]
    BY <1>8 DEF Answer
  <2>2. \A x \in Experiments : answer'[x] = IF x = e THEN a ELSE answer[x]
    BY <1>1, <2>1 DEF Types
  <2>3. \A j \in DOMAIN jobs' : JobOf(jobs[j])'
    BY <1>6, <1>8 DEF JobOf
  <2>4. \A x \in Experiments : answer'[x] # Nothing => AnswerOf(request[x], answer[x])'
    BY <1>3, <1>8, <2>2 DEF AnswersInv, AnswerOf
  <2>5. \A x \in Experiments : answer'[x] # Nothing => request'[x] # Nothing
    BY <1>2, <1>3, <2>2 DEF AnswersInv
  <2> QED
    BY <1>4, <2>1, <2>3, <2>4, <2>5 DEF AnswersInv
<1>9. AnswerOf(r, Failed)
  BY DEF AnswerOf, Failed
<1>10. CASE RunGrover(e, r)
  <2>1. r.algorithm = "grover"
    BY <1>10 DEF RunGrover
  <2>2. \/ /\ Len(r.marked_states[1]) > 0 /\ ValidProblem(Len(r.marked_states[1]), r.marked_states)
           /\ Launch(e, GroverCircuitOf(r))
        \/ Answer(e, Failed) /\ UNCHANGED jobs
    BY <1>10 DEF RunGrover, GroverCircuitOf, ValidProblem
  <2> QED
    BY <1>7, <1>8, <1>9, <2>1, <2>2 DEF RunsCircuit
<1>11. CASE RunSat(e, r)
  <2>1. r.algorithm = "sat_grover"
    BY <1>11 DEF RunSat
  <2>2. \/ Solutions(r) # {} /\ Launch(e, SatCircuitOf(r))
        \/ Answer(e, Failed) /\ UNCHANGED jobs
        \/ Answer(e, Completed(NoSolution(r))) /\ UNCHANGED jobs
    BY <1>11 DEF RunSat, SatCircuitOf, NoSolution
  <2>3. AnswerOf(r, Completed(NoSolution(r)))
    BY <2>1 DEF AnswerOf, Completed
  <2> QED
    BY <1>7, <1>8, <1>9, <2>1, <2>2, <2>3 DEF RunsCircuit
<1>12. CASE RunQpe(e, r)
  <2>1. r.algorithm = "qpe" /\ Launch(e, PhaseCircuitOf(r))
    BY <1>12 DEF RunQpe, PhaseCircuitOf
  <2> QED
    BY <1>7, <2>1 DEF RunsCircuit
<1>13. CASE RunVqe(e, r)
  <2>1. r.algorithm = "vqe" /\ running' = e /\ stage' = "thread" /\ UNCHANGED <<answer, jobs>>
    BY <1>13 DEF RunVqe
  <2>2. \A j \in DOMAIN jobs' : JobOf(jobs[j])'
    BY <1>6, <2>1 DEF JobOf
  <2>3. \A x \in Experiments : answer'[x] # Nothing => AnswerOf(request[x], answer[x])'
    BY <1>3, <1>5, <2>1 DEF AnswersInv, AnswerOf
  <2>4. \A x \in Experiments : answer'[x] # Nothing => request'[x] # Nothing
    BY <1>2, <1>3, <2>1 DEF AnswersInv
  <2>5. request'[running'] = r
    BY <1>3, <2>1
  <2> QED
    BY <1>4, <2>1, <2>2, <2>3, <2>4, <2>5 DEF AnswersInv
<1> QED
  BY <1>10, <1>11, <1>12, <1>13 DEF ExecuteTask

\* Every step.
LEMMA AnswersStep == IInv /\ AnswersInv /\ [Next]_vars => AnswersInv'
<1> SUFFICES ASSUME IInv, AnswersInv, [Next]_vars PROVE AnswersInv'
  OBVIOUS
<1>1. Types /\ TurnInv
  BY DEF IInv
<1>2. stage \in {"thread", "cost", "term", "drain"} =>
          running # Nobody /\ request[running].algorithm = "vqe"
  BY <1>1 DEF TurnInv, AnswersInv
<1>3. ASSUME NEW a, Return(a), stage \in {"cost", "term", "thread", "drain"},
             UNCHANGED <<request, jobs>>
      PROVE  AnswersInv'
  BY <1>2, <1>3, AnswerIsOne DEF Return, AnswerOf
<1>4. ASSUME NEW e \in Experiments, NEW r \in Requests[e], ExecuteTask(e, r) PROVE AnswersInv'
  BY <1>4, TakenIsOne
<1>5. ASSUME NEW j \in DOMAIN jobs, StartJob(j) PROVE AnswersInv'
  <2>1. IsJob(jobs[j])
    BY <1>1 DEF Types
  <2>2. PICK r : r = [jobs[j] EXCEPT !.status = "running"]
    OBVIOUS
  <2>3. IsJob(r) /\ r.owner = jobs[j].owner /\ r.loop = jobs[j].loop
        /\ r.circuit = jobs[j].circuit /\ r.counts = jobs[j].counts
    BY <2>1, <2>2 DEF IsJob
  <2>4. jobs' = [jobs EXCEPT ![j] = r] /\ UNCHANGED <<running, request, answer, stage>>
    BY <1>5, <2>2 DEF StartJob, task
  <2> QED
    BY <2>1, <2>3, <2>4, ChangedJobIsOne
<1>6. ASSUME NEW j \in DOMAIN jobs, NEW ok \in BOOLEAN, EndJob(j, ok) PROVE AnswersInv'
  <2>1. IsJob(jobs[j])
    BY <1>1 DEF Types
  <2>2. PICK r : r = [jobs[j] EXCEPT !.status = IF ok THEN "completed" ELSE "failed",
                                     !.counts = IF ok THEN Simulate(jobs[j].circuit) ELSE None]
    OBVIOUS
  <2>3. IsJob(r) /\ r.owner = jobs[j].owner /\ r.loop = jobs[j].loop
        /\ r.circuit = jobs[j].circuit /\ r.counts \in {None, Simulate(jobs[j].circuit)}
    BY <2>1, <2>2 DEF IsJob
  <2>4. jobs' = [jobs EXCEPT ![j] = r] /\ UNCHANGED <<running, request, answer, stage>>
    BY <1>6, <2>2 DEF EndJob, task
  <2> QED
    BY <2>3, <2>4, ChangedJobIsOne
<1>7. CASE Poll
  <2>1. /\ stage = "wait" /\ running # Nobody /\ UNCHANGED <<request, jobs>>
        /\ Answer(running, Completed(Outcome(request[running], Job.counts)))
    BY <1>1, <1>7 DEF Poll, TurnInv
  <2>2. Job.owner = running /\ Job.loop = "worker" /\ handle \in DOMAIN jobs
        /\ running # Calibration
    BY <1>1, <2>1, ExecutionAssumption DEF Types, TurnInv, Waiting
  <2>3. JobOf(Job)
    BY <2>2 DEF AnswersInv, Job
  <2>4. AnswerOf(request[running], Completed(Outcome(request[running], Job.counts)))
    BY <2>2, <2>3 DEF JobOf, AnswerOf, Completed
  <2> QED
    BY <2>1, <2>4, AnswerIsOne
<1>8. CASE Timeout
  <2>1. stage = "wait" /\ running # Nobody /\ UNCHANGED <<request, jobs>> /\ Answer(running, Failed)
    BY <1>1, <1>8 DEF Timeout, TurnInv
  <2>2. AnswerOf(request[running], Failed)
    BY DEF AnswerOf, Failed
  <2> QED
    BY <2>1, <2>2, AnswerIsOne
<1>9. CASE StartVqe \/ NextCost \/ PollTerm
  <2>1. stage \in {"thread", "cost", "term"} /\ UNCHANGED request
    BY <1>9 DEF StartVqe, NextCost, PollTerm
  <2>2. \/ /\ \E params, k, total : Evaluate(params, k, total)
           /\ UNCHANGED <<running, answer>>
        \/ Return(Failed) /\ UNCHANGED jobs
    BY <1>9 DEF StartVqe, NextCost, PollTerm
  <2> QED
    BY <1>3, <2>1, <2>2, EvaluateIsNone
<1>10. CASE TimeoutTerm
  <2>1. stage = "term" /\ UNCHANGED <<running, request, answer, jobs>>
    BY <1>10 DEF TimeoutTerm
  <2>2. \A j \in DOMAIN jobs' : JobOf(jobs[j])'
    BY <2>1 DEF AnswersInv, JobOf
  <2>3. \A e \in Experiments : answer[e] # Nothing => AnswerOf(request[e], answer[e])'
    BY <2>1 DEF AnswersInv, AnswerOf
  <2> QED
    BY <1>2, <2>1, <2>2, <2>3 DEF AnswersInv
<1>11. CASE Drain
  BY <1>3, <1>11 DEF Drain
<1>12. CASE Finish
  <2>1. stage = "cost" /\ UNCHANGED <<request, jobs>> /\ \E a : Return(a)
    BY <1>12 DEF Finish
  <2> QED
    BY <1>3, <2>1
<1>13. CASE UNCHANGED vars
  <2>1. UNCHANGED <<running, request, answer, stage, jobs>>
    BY <1>13 DEF vars, task
  <2> QED
    BY <2>1 DEF AnswersInv, JobOf, AnswerOf
<1>14. CASE StartProbe
  <2>1. /\ Submit(Calibration, "worker", GateCircuit(2, BellCircuit))
        /\ UNCHANGED <<running, request, answer, stage>>
    BY <1>14 DEF StartProbe, task
  <2>2. /\ DOMAIN jobs' = 1 .. Len(jobs) + 1
        /\ DOMAIN jobs = 1 .. Len(jobs)
        /\ Len(jobs) \in Nat
        /\ \A j \in DOMAIN jobs : jobs'[j] = jobs[j]
        /\ jobs'[Len(jobs) + 1].owner = Calibration
    BY <2>1, SubmitKeeps
  <2>3. ASSUME NEW j \in DOMAIN jobs' PROVE JobOf(jobs[j])'
    <3>1. CASE j \in DOMAIN jobs
      BY <2>1, <2>2, <3>1 DEF AnswersInv, JobOf
    <3>2. CASE j = Len(jobs) + 1
      BY <2>2, <3>2 DEF JobOf
    <3> QED
      BY <2>2, <3>1, <3>2
  <2>4. \A e \in Experiments : answer[e] # Nothing => AnswerOf(request[e], answer[e])'
    BY <2>1 DEF AnswersInv, AnswerOf
  <2> QED
    BY <2>1, <2>3, <2>4 DEF AnswersInv
<1>15. CASE PollProbe \/ TimeoutProbe
  <2>1. UNCHANGED <<running, request, answer, stage, jobs>>
    BY <1>15 DEF PollProbe, TimeoutProbe, task
  <2> QED
    BY <2>1 DEF AnswersInv, JobOf, AnswerOf
<1> QED
  BY <1>4, <1>5, <1>6, <1>7, <1>8, <1>9, <1>10, <1>11, <1>12, <1>13, <1>14, <1>15
     DEF Next, Simulation

\* qpe.py with execution.py and aer_backend.py, for any number of counting qubits,
\* any phase they can express, and whatever else the worker runs: an answer of a
\* phase estimation that has results has one, the phase of the request.
THEOREM PhasesAreRead == Spec => []PhaseIsRead
<1>1. AnswersInv => PhaseIsRead
  <2> SUFFICES ASSUME AnswersInv, NEW e \in Of("qpe"), answer[e].status = "completed",
                      answer[e].result.results # None
               PROVE  {answer[e].result.results[s] : s \in DOMAIN answer[e].result.results}
                          = {request[e].phi}
    BY DEF PhaseIsRead
  <2>1. e \in Experiments /\ answer[e] # Nothing /\ request[e].algorithm = "qpe"
    BY DEF Of
  <2>2. PICK r : r = request[e] /\ r \in Requests[e] /\ r.algorithm = "qpe"
    BY <2>1 DEF AnswersInv
  <2>3. PICK t, k : /\ t = r.num_counting_qubits /\ t \in Nat \ {0}
                    /\ k = r.phi /\ k \in 0 .. Pow2[t] - 1
    BY <2>1, <2>2, ExecutionAssumption
  <2>4. PICK counts \in {None, Simulate(PhaseCircuitOf(r))} : answer[e].result = Outcome(r, counts)
    <3>1. AnswerOf(r, answer[e])
      BY <2>1, <2>2 DEF AnswersInv
    <3>2. PICK circuit : /\ RunsCircuit(r, circuit)
                         /\ \E counts \in {None, Simulate(circuit)} : answer[e].result = Outcome(r, counts)
      BY <2>2, <3>1 DEF AnswerOf
    <3>3. circuit = PhaseCircuitOf(r)
      BY <2>2, <3>2 DEF RunsCircuit
    <3> QED
      BY <3>2, <3>3
  <2>5. Outcome(r, counts).results = IF counts = None THEN None ELSE [s \in DOMAIN counts |-> Estimate(s)]
    BY <2>2 DEF Outcome
  <2>6. counts = Simulate(PhaseCircuitOf(r)) /\ counts # None
    BY <2>4, <2>5
  <2>7. counts = [s \in {PhaseBits(t, k)} |-> 1]
    BY <2>3, <2>6 DEF Simulate, PhaseCircuitOf, PhaseCircuit
  <2>8. answer[e].result.results = [s \in {PhaseBits(t, k)} |-> Estimate(s)]
    BY <2>4, <2>5, <2>6, <2>7
  <2>9. Estimate(PhaseBits(t, k)) = k
    BY <2>3, PhaseEstimationIsExact
  <2> QED
    BY <2>2, <2>3, <2>8, <2>9
<1> QED
  BY <1>1, ExecInit, ExecStep, AnswersInit, AnswersStep, PTL DEF Spec

\* grover.py and sat_search.py with execution.py and aer_backend.py, for any number
\* of qubits, any marked states and any boolean expression, and whatever else the
\* worker runs: an answer of a search that has counts has the histogram that the
\* rotation by N and M predicts for the number of rounds it reports.
THEOREM SearchesAmplify == Spec => []SearchAmplifies
<1>1. ASSUME AnswersInv, NEW e \in Searches, Distinct(request[e])
      PROVE  Amplified(QubitsOf(request[e]), Wanted(request[e]),
                 answer[e].result.iterations, answer[e].result.counts)
  <2>1. PICK r : r = request[e] /\ r \in Requests[e] /\ r.algorithm \in {"grover", "sat_grover"}
    BY <1>1 DEF Searches, Of, AnswersInv
  <2>2. e \in Experiments /\ answer[e] # Nothing /\ answer[e].status = "completed"
        /\ answer[e].result.counts # None
    BY <1>1 DEF Searches, Of
  <2>3. answer[e].result # NoSolution(r)
    BY <2>2 DEF NoSolution
  <2>4. AnswerOf(r, answer[e])
    BY <1>1, <2>1, <2>2 DEF AnswersInv
  <2>5. PICK circuit, counts : /\ RunsCircuit(r, circuit)
                               /\ counts \in {None, Simulate(circuit)}
                               /\ answer[e].result = Outcome(r, counts)
    BY <2>1, <2>2, <2>3, <2>4 DEF AnswerOf
  <2>6. CASE r.algorithm = "grover"
    <3>1. PICK n, marked : n = Len(r.marked_states[1]) /\ marked = r.marked_states
      OBVIOUS
    <3>2. circuit = GroverCircuitOf(r) /\ n > 0 /\ ValidProblem(n, marked)
      BY <2>5, <2>6, <3>1 DEF RunsCircuit
    <3>3. marked \in Seq(Seq({0, 1, 2})) /\ marked # <<>>
      BY <2>1, <2>2, <2>6, <3>1, <3>2, ExecutionAssumption DEF ValidProblem
    <3>4. marked[1] \in Seq({0, 1, 2}) /\ n \in Nat \ {0}
      BY <3>1, <3>2, <3>3
    <3>5. marked \in Seq(BitStrings(n))
      <4>1. ASSUME NEW i \in DOMAIN marked PROVE marked[i] \in BitStrings(n)
        <5>1. PICK s : s = marked[i] /\ s \in Seq({0, 1, 2}) /\ Len(s) = n /\ ToSet(s) \subseteq {0, 1}
          BY <3>2, <3>3 DEF ValidProblem
        <5>2. \A p \in 1 .. n : s[p] \in {0, 1}
          BY <5>1 DEF ToSet
        <5> QED
          BY <5>1, <5>2 DEF BitStrings
      <4> QED
        BY <3>3, <4>1
    <3>6. IsInjective(marked)
      BY <1>1, <2>1, <2>6, <3>1 DEF Distinct
    <3>7. PICK k \in Nat : k = OptimalIterations(n, Len(marked))
      BY <3>4, IterationsAre
    <3>8. answer[e].result.counts = counts /\ answer[e].result.iterations = k
      BY <2>5, <2>6, <3>1, <3>7 DEF Outcome
    <3>9. counts = Simulate(GateCircuit(n, GroverCircuit(marked, n, k)))
      BY <2>2, <2>5, <3>1, <3>2, <3>7, <3>8 DEF GroverCircuitOf
    <3>10. QubitsOf(r) = n /\ Wanted(r) = ToSet(marked)
      BY <2>6, <3>1 DEF QubitsOf, Wanted
    <3> QED
      BY <2>1, <3>4, <3>5, <3>6, <3>8, <3>9, <3>10, GroverAmplifies
  <2>7. CASE r.algorithm = "sat_grover"
    <3>1. PICK n, variables, expression :
             n = Len(r.variables) /\ variables = r.variables /\ expression = r.expression
      OBVIOUS
    <3>2. circuit = SatCircuitOf(r)
      BY <2>5, <2>7 DEF RunsCircuit
    <3>3. n \in Nat \ {0}
      BY <2>1, <2>2, <2>7, <3>1, ExecutionAssumption
    <3>4. PICK k \in Nat : k = OptimalIterations(n, Cardinality(Solutions(r)))
      BY <3>3, IterationsAre
    <3>5. answer[e].result.counts = counts /\ answer[e].result.iterations = k
      BY <2>5, <2>7, <3>1, <3>4 DEF Outcome
    <3>6. counts = Simulate(GateCircuit(n, SatCircuit(variables, expression, k)))
      BY <2>2, <2>5, <3>1, <3>2, <3>4, <3>5 DEF SatCircuitOf
    <3>7. QubitsOf(r) = n /\ Wanted(r) = CountSolutions(variables, expression)
      BY <2>7, <3>1 DEF QubitsOf, Wanted, Solutions
    <3> QED
      BY <2>1, <3>1, <3>3, <3>5, <3>6, <3>7, SatSearchAmplifies
  <2> QED
    BY <2>1, <2>6, <2>7
<1>2. AnswersInv => SearchAmplifies
  BY <1>1 DEF SearchAmplifies, Amplified
<1> QED
  BY <1>2, ExecInit, ExecStep, AnswersInit, AnswersStep, PTL DEF Spec
===============================================================================
