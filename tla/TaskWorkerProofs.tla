---------------------------- MODULE TaskWorkerProofs ----------------------------
(* Proofs about the task path for any tasks, workers, limits and faults: types, *)
(* what a handler knows at each await, that no task is lost, what the headers   *)
(* of its copies say, how often it may run, and that the task path implements   *)
(* TaskLedger.                                                                  *)
EXTENDS TaskWorker, FiniteSetTheorems, TLAPS

\* Publishing adds one element to a queue's contents.
LEMMA ToSetAppend ==
    ASSUME NEW S, NEW s \in Seq(S), NEW e \in S
    PROVE  Append(s, e) \in Seq(S) /\ ToSet(Append(s, e)) = ToSet(s) \cup {e}
<1>1. Append(s, e) \in Seq(S)
    OBVIOUS
<1>2. Len(Append(s, e)) = Len(s) + 1 /\ DOMAIN Append(s, e) = 1 .. Len(s) + 1
    OBVIOUS
<1>3. \A i \in 1 .. Len(s) : Append(s, e)[i] = s[i]
    OBVIOUS
<1>4. Append(s, e)[Len(s) + 1] = e
    OBVIOUS
<1>5. Len(s) \in Nat /\ DOMAIN s = 1 .. Len(s)
    OBVIOUS
<1>. QED
    BY <1>1, <1>2, <1>3, <1>4, <1>5 DEF ToSet

\* Taking the head removes at most that element.
LEMMA ToSetTail ==
    ASSUME NEW S, NEW s \in Seq(S), s # <<>>
    PROVE  /\ Head(s) \in S /\ Tail(s) \in Seq(S)
           /\ ToSet(s) = {Head(s)} \cup ToSet(Tail(s))
<1>1. Head(s) \in S /\ Tail(s) \in Seq(S) /\ Head(s) = s[1]
    OBVIOUS
<1>2. Len(s) \in Nat \ {0} /\ DOMAIN s = 1 .. Len(s) /\ DOMAIN Tail(s) = 1 .. Len(s) - 1
    OBVIOUS
<1>3. \A i \in 1 .. Len(s) - 1 : Tail(s)[i] = s[i + 1]
    OBVIOUS
<1>4. ASSUME NEW i \in 1 .. Len(s), i # 1
      PROVE  i - 1 \in 1 .. Len(s) - 1 /\ s[i] = Tail(s)[i - 1]
    BY <1>2, <1>3, <1>4
<1>5. ToSet(s) \subseteq {Head(s)} \cup ToSet(Tail(s))
    <2>. SUFFICES ASSUME NEW i \in 1 .. Len(s)
                  PROVE  s[i] \in {Head(s)} \cup ToSet(Tail(s))
        BY <1>2 DEF ToSet
    <2>1. CASE i = 1
        BY <1>1, <2>1
    <2>2. CASE i # 1
        <3>1. i - 1 \in DOMAIN Tail(s) /\ s[i] = Tail(s)[i - 1]
            BY <1>2, <1>4, <2>2
        <3>. QED
            BY <3>1 DEF ToSet
    <2>. QED
        BY <2>1, <2>2
<1>6. ToSet(Tail(s)) \subseteq ToSet(s)
    <2>. SUFFICES ASSUME NEW i \in 1 .. Len(s) - 1
                  PROVE  Tail(s)[i] \in ToSet(s)
        BY <1>2 DEF ToSet
    <2>. QED
        BY <1>2, <1>3 DEF ToSet
<1>7. Head(s) \in ToSet(s)
    BY <1>1, <1>2 DEF ToSet
<1>. QED
    BY <1>1, <1>5, <1>6, <1>7

\* A requeue at the head adds one element.
LEMMA ToSetPush ==
    ASSUME NEW S, NEW s \in Seq(S), NEW e \in S
    PROVE  <<e>> \o s \in Seq(S) /\ ToSet(<<e>> \o s) = {e} \cup ToSet(s)
<1>1. <<e>> \o s \in Seq(S)
    OBVIOUS
<1>2. Len(s) \in Nat /\ DOMAIN s = 1 .. Len(s) /\ DOMAIN (<<e>> \o s) = 1 .. Len(s) + 1
    OBVIOUS
<1>3. (<<e>> \o s)[1] = e /\ \A i \in 1 .. Len(s) : (<<e>> \o s)[i + 1] = s[i]
    OBVIOUS
<1>4. ASSUME NEW i \in 1 .. Len(s) + 1, i # 1
      PROVE  i - 1 \in 1 .. Len(s) /\ (<<e>> \o s)[i] = s[i - 1]
    BY <1>2, <1>3, <1>4
<1>5. ToSet(<<e>> \o s) \subseteq {e} \cup ToSet(s)
    <2>. SUFFICES ASSUME NEW i \in 1 .. Len(s) + 1
                  PROVE  (<<e>> \o s)[i] \in {e} \cup ToSet(s)
        BY <1>2 DEF ToSet
    <2>1. CASE i = 1
        BY <1>3, <2>1
    <2>2. CASE i # 1
        <3>1. i - 1 \in DOMAIN s /\ (<<e>> \o s)[i] = s[i - 1]
            BY <1>2, <1>4, <2>2
        <3>. QED
            BY <3>1 DEF ToSet
    <2>. QED
        BY <2>1, <2>2
<1>6. ToSet(s) \subseteq ToSet(<<e>> \o s)
    <2>. SUFFICES ASSUME NEW i \in 1 .. Len(s)
                  PROVE  s[i] \in ToSet(<<e>> \o s)
        BY <1>2 DEF ToSet
    <2>1. i + 1 \in DOMAIN (<<e>> \o s) /\ s[i] = (<<e>> \o s)[i + 1]
        BY <1>2, <1>3
    <2>. QED
        BY <2>1 DEF ToSet
<1>7. e \in ToSet(<<e>> \o s)
    <2>1. 1 \in DOMAIN (<<e>> \o s) /\ e = (<<e>> \o s)[1]
        BY <1>2, <1>3
    <2>. QED
        BY <2>1 DEF ToSet
<1>. QED
    BY <1>1, <1>5, <1>6, <1>7

-------------------------------------------------------------------------------
(* Types and control.                                                          *)

\* What a retry copy and a waiting copy keep of the original.
LEMMA CopyTypes ==
    ASSUME NEW m \in Message
    PROVE  /\ RetryCopy(m) \in Message
           /\ RetryCopy(m).task = m.task /\ RetryCopy(m).wait = m.wait
           /\ RetryCopy(m).retry = m.retry + 1 /\ ~RetryCopy(m).redelivered
           /\ WaitCopy(m) \in Message
           /\ WaitCopy(m).task = m.task /\ WaitCopy(m).wait = m.wait + 1
           /\ WaitCopy(m).retry = m.retry /\ ~WaitCopy(m).redelivered
<1>1. /\ m.task \in Tasks /\ m.retry \in Nat /\ m.wait \in Nat
      /\ m.retry + 1 \in Nat /\ m.wait + 1 \in Nat
    BY DEF Message
<1>2. RetryCopy(m) \in Message
    BY <1>1 DEF RetryCopy, Message
<1>3. WaitCopy(m) \in Message
    BY <1>1 DEF WaitCopy, Message
<1>. QED
    BY <1>1, <1>2, <1>3 DEF RetryCopy, WaitCopy, Message

\* What a requeue does to the task queue and to the history.
LEMMA RequeueType ==
    ASSUME TypeOK, ControlOK, NEW w \in Workers, pc[w] \in Handling, Requeue(w)
    PROVE  /\ taskQ' \in Seq(Message)
           /\ disruptions' \in [Tasks -> Nat]
           /\ ToSet(taskQ') = {[held[w] EXCEPT !.redelivered = TRUE]} \cup ToSet(taskQ)
<1>1. held[w] \in Message /\ held[w].task \in Tasks
    BY DEF ControlOK, Message
<1>2. [held[w] EXCEPT !.redelivered = TRUE] \in Message
    BY <1>1 DEF Message
<1>3. taskQ \in Seq(Message) /\ disruptions \in [Tasks -> Nat]
    BY DEF TypeOK
<1>4. disruptions' \in [Tasks -> Nat]
    BY <1>1, <1>3 DEF Requeue
<1>5. taskQ' = <<[held[w] EXCEPT !.redelivered = TRUE]>> \o taskQ
    BY DEF Requeue
<1>. HIDE DEF Requeue
<1>. QED
    BY <1>2, <1>3, <1>4, <1>5, ToSetPush

\* Where a delivery leads, and what the worker then knows.
LEMMA FirstStepControl ==
    ASSUME NEW m \in Message
    PROVE  /\ FirstStep(m) \in {"deadletter", "backoff", "gate", "execute"}
           /\ FirstStep(m) = "deadletter" => m.task \in Malformed \/ (m.redelivered /\ m.retry >= MaxRetries)
           /\ FirstStep(m) = "backoff" => m.redelivered /\ m.retry < MaxRetries
<1>. m.redelivered \in BOOLEAN /\ m.retry \in Nat
    BY DEF Message
<1>1. CASE ~m.redelivered
    BY <1>1 DEF FirstStep, FreshStep
<1>2. CASE m.redelivered
    BY <1>2, TaskWorkerAssumption DEF FirstStep
<1>. QED
    BY <1>1, <1>2

\* Counting an execution keeps the history's type.
LEMMA BeginType ==
    ASSUME TypeOK, NEW t \in Tasks, NEW step, Begin(t, step)
    PROVE  attempts' \in [Tasks -> Nat]
BY DEF Begin, TypeOK

\* The initial state has the types and the control knowledge.
LEMMA InitType == Init => TypeOK /\ ControlOK
<1>. SUFFICES ASSUME Init PROVE TypeOK /\ ControlOK
    OBVIOUS
<1>1. TypeOK
    BY DEF Init, TypeOK
<1>2. ControlOK
    BY TaskWorkerAssumption DEF Init, ControlOK, Handling
<1>. QED
    BY <1>1, <1>2

\* Every step keeps them: one case per action.
LEMMA NextType == TypeOK /\ ControlOK /\ [Next]_vars => TypeOK' /\ ControlOK'
<1>. SUFFICES ASSUME TypeOK, ControlOK, [Next]_vars
              PROVE  TypeOK' /\ ControlOK'
    OBVIOUS
<1>. USE DEF brokerVars, workerVars, historyVars
<1>1. ASSUME NEW t \in Tasks, PublishTask(t)
      PROVE  TypeOK' /\ ControlOK'
    <2>1. NewMessage(t) \in Message
        BY DEF NewMessage, Message
    <2>2. taskQ' \in Seq(Message)
        BY <1>1, <2>1, ToSetAppend DEF PublishTask, TypeOK
    <2>. QED
        BY <1>1, <2>2 DEF PublishTask, TypeOK, ControlOK
<1>2. CASE TakeResult
    <2>1. results' \in Seq([task : Tasks, status : Terminal \cup {"waiting_for_calibration"}])
        BY <1>2, ToSetTail DEF TakeResult, TypeOK
    <2>. QED
        BY <1>2, <2>1 DEF TakeResult, TypeOK, ControlOK
<1>3. CASE Expire
    <2>1. Head(waitQ) \in Message /\ waitQ' \in Seq(Message)
        BY <1>3, ToSetTail DEF Expire, TypeOK
    <2>2. [Head(waitQ) EXCEPT !.redelivered = FALSE] \in Message
        BY <2>1 DEF Message
    <2>3. taskQ' \in Seq(Message)
        BY <1>3, <2>2, ToSetAppend DEF Expire, TypeOK
    <2>. QED
        BY <1>3, <2>1, <2>3 DEF Expire, TypeOK, ControlOK
<1>4. ASSUME NEW w \in Workers, TakeTrigger(w)
      PROVE  TypeOK' /\ ControlOK'
    BY <1>4 DEF TakeTrigger, TypeOK, ControlOK
<1>5. ASSUME NEW w \in Workers, Deliver(w)
      PROVE  TypeOK' /\ ControlOK'
    <2>. DEFINE m == Head(taskQ)
    <2>1. m \in Message /\ taskQ' \in Seq(Message)
        BY <1>5, ToSetTail DEF Deliver, TypeOK
    <2>2. attempts' \in [Tasks -> Nat]
        BY <1>5, <2>1, BeginType DEF Deliver, Message
    <2>3. pc' = [pc EXCEPT ![w] = FirstStep(m)] /\ held' = [held EXCEPT ![w] = m]
        BY <1>5 DEF Deliver
    <2>. HIDE DEF m
    <2>4. TypeOK'
        BY <1>5, <2>1, <2>2, <2>3, FirstStepControl DEF Deliver, TypeOK, Handling
    <2>5. ControlOK'
        <3>. DEFINE step == FirstStep(m)
        <3>1. /\ step \in {"deadletter", "backoff", "gate", "execute"}
              /\ step = "deadletter" =>
                    m.task \in Malformed \/ (m.redelivered /\ m.retry >= MaxRetries)
              /\ step = "backoff" => m.redelivered /\ m.retry < MaxRetries
            BY <2>1, FirstStepControl
        <3>2. pc' = [pc EXCEPT ![w] = step] /\ ~lost[w] /\ UNCHANGED <<lost, verdict>>
            BY <1>5, <2>3 DEF Deliver, ControlOK, Handling
        <3>. HIDE DEF step
        <3>3. /\ pc'[w] = step /\ held'[w] = m
              /\ \A v \in Workers : v # w => pc'[v] = pc[v] /\ held'[v] = held[v]
            BY <2>3, <3>2 DEF TypeOK
        <3>4. ASSUME NEW v \in Workers, v # w
              PROVE  ControlOK!(v)'
            BY <3>2, <3>3, <3>4 DEF ControlOK
        <3>5. ControlOK!(w)'
            <4>1. /\ step \in Handling /\ step # "answer"
                  /\ step \notin {"announce", "reschedule"}
                BY <3>1 DEF Handling
            <4>2. ~lost'[w]
                BY <3>2
            <4>. QED
                BY <2>1, <3>1, <3>3, <4>1, <4>2, Zenon
        <3>. QED
            BY <3>4, <3>5 DEF ControlOK
    <2>. QED
        BY <2>4, <2>5
<1>6. ASSUME NEW w \in Workers, PublishDeadLetter(w)
      PROVE  TypeOK' /\ ControlOK'
    BY <1>6 DEF PublishDeadLetter, TypeOK, ControlOK, Handling, Message
<1>7. ASSUME NEW w \in Workers, PublishRetry(w)
      PROVE  TypeOK' /\ ControlOK'
    <2>1. RetryCopy(held[w]) \in Message
        BY <1>7, CopyTypes DEF PublishRetry, ControlOK, Handling
    <2>2. taskQ' \in Seq(Message)
        BY <1>7, <2>1, ToSetAppend DEF PublishRetry, TypeOK
    <2>. QED
        BY <1>7, <2>2 DEF PublishRetry, TypeOK, ControlOK, Handling
<1>8. ASSUME NEW w \in Workers, NEW d \in Decisions, Gate(w, d)
      PROVE  TypeOK' /\ ControlOK'
    <2>1. held[w] \in Message /\ held[w].task \in Tasks /\ held[w].wait \in Nat
        BY <1>8 DEF Gate, ControlOK, Handling, Message
    <2>. DEFINE step == CASE d = "allow"  -> "execute"
                          [] d = "reject" -> "answer"
                          [] OTHER -> IF held[w].wait >= MaxWaits THEN "answer" ELSE "announce"
    <2>2. /\ pc' = [pc EXCEPT ![w] = step]
          /\ verdict' = [verdict EXCEPT ![w] = IF step = "answer" THEN "failed" ELSE @]
          /\ trigger' = [trigger EXCEPT ![w] = @ \/ step = "announce"]
          /\ Begin(held[w].task, step)
        BY <1>8 DEF Gate
    <2>7. step \in {"execute", "answer", "announce"}
        OBVIOUS
    <2>8. step = "announce" => held[w].wait < MaxWaits
        BY <2>1, TaskWorkerAssumption
    <2>. HIDE DEF step
    <2>3. attempts' \in [Tasks -> Nat]
        BY <2>1, <2>2, BeginType
    <2>4. trigger' \in [Workers -> BOOLEAN]
        BY <2>2 DEF TypeOK
    <2>5. verdict' \in [Workers -> Terminal \cup {"none"}]
        BY <2>2 DEF TypeOK, Terminal
    <2>. QED
        BY <1>8, <2>2, <2>3, <2>4, <2>5, <2>7, <2>8 DEF Gate, TypeOK, ControlOK, Handling, Terminal
<1>9. ASSUME NEW w \in Workers, PublishWaiting(w)
      PROVE  TypeOK' /\ ControlOK'
    <2>1. held[w].task \in Tasks
        BY <1>9 DEF PublishWaiting, ControlOK, Handling, Message
    <2>2. results' \in Seq([task : Tasks, status : Terminal \cup {"waiting_for_calibration"}])
        BY <1>9, <2>1, ToSetAppend DEF PublishWaiting, TypeOK
    <2>. QED
        BY <1>9, <2>2 DEF PublishWaiting, TypeOK, ControlOK, Handling
<1>10. ASSUME NEW w \in Workers, Reschedule(w)
       PROVE  TypeOK' /\ ControlOK'
    <2>1. WaitCopy(held[w]) \in Message
        BY <1>10, CopyTypes DEF Reschedule, ControlOK, Handling
    <2>2. waitQ' \in Seq(Message)
        BY <1>10, <2>1, ToSetAppend DEF Reschedule, TypeOK
    <2>. QED
        BY <1>10, <2>2 DEF Reschedule, TypeOK, ControlOK, Handling
<1>11. ASSUME NEW w \in Workers, Execute(w)
       PROVE  TypeOK' /\ ControlOK'
    BY <1>11 DEF Execute, TypeOK, ControlOK, Handling, Terminal
<1>12. ASSUME NEW w \in Workers, PublishResult(w)
       PROVE  TypeOK' /\ ControlOK'
    <2>1. held[w].task \in Tasks /\ verdict[w] \in Terminal
        BY <1>12 DEF PublishResult, ControlOK, Handling, Message
    <2>2. results' \in Seq([task : Tasks, status : Terminal \cup {"waiting_for_calibration"}])
        BY <1>12, <2>1, ToSetAppend DEF PublishResult, TypeOK
    <2>. QED
        BY <1>12, <2>1, <2>2 DEF PublishResult, TypeOK, ControlOK, Handling
<1>13. ASSUME NEW w \in Workers, Ack(w)
       PROVE  TypeOK' /\ ControlOK'
    BY <1>13, TaskWorkerAssumption DEF Ack, TypeOK, ControlOK, Handling
<1>14. ASSUME NEW w \in Workers, Crash(w)
       PROVE  TypeOK' /\ ControlOK'
    <2>1. taskQ' \in Seq(Message) /\ disruptions' \in [Tasks -> Nat]
        BY <1>14, RequeueType DEF Crash, Fault
    <2>. QED
        BY <1>14, <2>1, TaskWorkerAssumption
           DEF Crash, Fault, Exit, TypeOK, ControlOK, Handling
<1>15. ASSUME NEW w \in Workers, PoisonCrash(w)
       PROVE  TypeOK' /\ ControlOK'
    <2>1. taskQ' \in Seq(Message) /\ disruptions' \in [Tasks -> Nat]
        BY <1>15, RequeueType DEF PoisonCrash, Handling
    <2>. QED
        BY <1>15, <2>1, TaskWorkerAssumption
           DEF PoisonCrash, Exit, TypeOK, ControlOK, Handling
<1>16. ASSUME NEW w \in Workers, Disconnect(w)
       PROVE  TypeOK' /\ ControlOK'
    <2>1. taskQ' \in Seq(Message) /\ disruptions' \in [Tasks -> Nat]
        BY <1>16, RequeueType DEF Disconnect, Fault
    <2>. QED
        BY <1>16, <2>1 DEF Disconnect, Fault, TypeOK, ControlOK
<1>17. ASSUME NEW w \in Workers, ExitDisconnected(w)
       PROVE  TypeOK' /\ ControlOK'
    BY <1>17, TaskWorkerAssumption DEF ExitDisconnected, Exit, TypeOK, ControlOK, Handling
<1>18. ASSUME NEW w \in Workers, Restart(w)
       PROVE  TypeOK' /\ ControlOK'
    BY <1>18 DEF Restart, TypeOK, ControlOK, Handling
<1>19. CASE UNCHANGED vars
    BY <1>19 DEF vars, TypeOK, ControlOK
<1>. QED
    BY <1>1, <1>2, <1>3, <1>4, <1>5, <1>6, <1>7, <1>8, <1>9, <1>10, <1>11, <1>12,
       <1>13, <1>14, <1>15, <1>16, <1>17, <1>18, <1>19 DEF Next, Handle, Fail

-------------------------------------------------------------------------------
(* No task is lost.                                                            *)

\* Copies with the broker are messages, and have a rank.
LEMMA RankType ==
    /\ \A m \in Message : Rank(m) \in Nat
    /\ TypeOK /\ ControlOK => LiveCopies \subseteq Message
<1>1. \A m \in Message : Rank(m) \in Nat
    BY DEF Rank, Message
<1>2. ASSUME TypeOK, ControlOK PROVE LiveCopies \subseteq Message
    <2>1. ToSet(taskQ) \subseteq Message /\ ToSet(waitQ) \subseteq Message
        BY <1>2 DEF TypeOK, ToSet
    <2>. QED
        BY <1>2, <2>1 DEF LiveCopies, Owned, ControlOK
<1>. QED
    BY <1>1, <1>2

\* Same task, same rank: what a requeue or an expiry leaves of a message.
Alike(m, n) == n.task = m.task /\ Rank(n) = Rank(m)

\* No live copy disappears in this step.
Preserved == \A m \in LiveCopies : \E n \in LiveCopies' : Alike(m, n)

\* A worker that reaches its ack in this step settled its task or left a
\* successor with the broker.
AcksCovered ==
    \A v \in Workers :
        (pc'[v] = "ack" /\ ~lost'[v]) =>
            \/ pc[v] = "ack" /\ ~lost[v] /\ held'[v] = held[v]
            \/ Succeeded(held[v])'

PublishedCovered ==
    \A t \in published' : t \in published \/ \E m \in LiveCopies' : m.task = t

\* The two invariants survive any step that preserves the live copies and
\* covers its acks and its publications.
LEMMA Carry ==
    ASSUME NoTaskLost, AckHasSuccessor, Preserved, AcksCovered, PublishedCovered,
           answered \subseteq answered', dlq \subseteq dlq'
    PROVE  NoTaskLost' /\ AckHasSuccessor'
<1>1. \A t : Settled(t) => Settled(t)'
    BY DEF Settled
<1>2. NoTaskLost'
    <2>. SUFFICES ASSUME NEW t \in published', ~Settled(t)'
                  PROVE  \E m \in LiveCopies' : m.task = t
        BY DEF NoTaskLost
    <2>1. CASE t \in published
        <3>1. PICK m \in LiveCopies : m.task = t
            BY <1>1, <2>1 DEF NoTaskLost
        <3>. QED
            BY <3>1 DEF Preserved, Alike
    <2>2. CASE t \notin published
        BY <2>2 DEF PublishedCovered
    <2>. QED
        BY <2>1, <2>2
<1>3. ASSUME NEW h, Succeeded(h)
      PROVE  Succeeded(h)'
    <2>1. CASE Settled(h.task)
        BY <1>1, <2>1 DEF Succeeded
    <2>2. CASE \E m \in LiveCopies : m.task = h.task /\ Rank(m) > Rank(h)
        <3>1. PICK m \in LiveCopies : m.task = h.task /\ Rank(m) > Rank(h)
            BY <2>2
        <3>2. PICK n \in LiveCopies' : Alike(m, n)
            BY DEF Preserved
        <3>. QED
            BY <3>1, <3>2 DEF Alike, Succeeded
    <2>. QED
        BY <1>3, <2>1, <2>2 DEF Succeeded
<1>4. AckHasSuccessor'
    <2>. SUFFICES ASSUME NEW v \in Workers, pc'[v] = "ack", ~lost'[v]
                  PROVE  Succeeded(held[v])'
        BY DEF AckHasSuccessor
    <2>1. CASE pc[v] = "ack" /\ ~lost[v] /\ held'[v] = held[v]
        <3>. DEFINE h == held[v]
        <3>1. Succeeded(h)
            BY <2>1 DEF AckHasSuccessor
        <3>2. PICK k : k = held[v]
            OBVIOUS
        <3>3. Succeeded(k)'
            BY <1>3, <3>1, <3>2
        <3>. QED
            BY <2>1, <3>2, <3>3 DEF Succeeded, Settled
    <2>2. CASE ~(pc[v] = "ack" /\ ~lost[v] /\ held'[v] = held[v])
        BY <2>2 DEF AcksCovered
    <2>. QED
        BY <2>1, <2>2
<1>. QED
    BY <1>2, <1>4

\* Queues only grow, and an owned delivery stays owned or is requeued.
LEMMA Preserve ==
    ASSUME \A m \in ToSet(taskQ) :
              m \in ToSet(taskQ') \/ \E v \in Workers : Owned(v)' /\ held'[v] = m,
           \A m \in ToSet(waitQ) :
              m \in ToSet(waitQ') \/ \E n \in ToSet(taskQ') : Alike(m, n),
           \A v \in Workers : Owned(v) =>
              \/ Owned(v)' /\ held'[v] = held[v]
              \/ \E n \in ToSet(taskQ') : Alike(held[v], n)
    PROVE  Preserved
<1>. SUFFICES ASSUME NEW m \in LiveCopies
              PROVE  \E n \in LiveCopies' : Alike(m, n)
    BY DEF Preserved
<1>1. ToSet(taskQ') \subseteq LiveCopies' /\ ToSet(waitQ') \subseteq LiveCopies'
    BY DEF LiveCopies
<1>2. \A v \in Workers : Owned(v)' => held'[v] \in LiveCopies'
    BY DEF LiveCopies
<1>3. Alike(m, m)
    BY DEF Alike
<1>4. CASE m \in ToSet(taskQ)
    BY <1>1, <1>2, <1>3, <1>4
<1>5. CASE m \in ToSet(waitQ)
    BY <1>1, <1>3, <1>5
<1>6. CASE \E v \in Workers : Owned(v) /\ held[v] = m
    BY <1>1, <1>2, <1>3, <1>6
<1>. QED
    BY <1>4, <1>5, <1>6 DEF LiveCopies

\* A requeued delivery is a copy like the one that was held.
LEMMA RequeueAlike ==
    ASSUME TypeOK, ControlOK, NEW w \in Workers, pc[w] \in Handling, Requeue(w)
    PROVE  /\ ToSet(taskQ) \subseteq ToSet(taskQ')
           /\ \E n \in ToSet(taskQ') : Alike(held[w], n)
<1>1. held[w] \in Message
    BY DEF ControlOK
<1>2. Alike(held[w], [held[w] EXCEPT !.redelivered = TRUE])
    BY <1>1 DEF Alike, Rank, Message
<1>. QED
    BY <1>2, RequeueType

LossInv == TypeOK /\ ControlOK /\ NoTaskLost /\ AckHasSuccessor

\* A handler step that leaves both queues' contents in place and keeps the
\* worker's own message with it.
LEMMA HandlerPreserves ==
    ASSUME TypeOK, NEW w \in Workers, pc[w] \in Handling, pc'[w] \in Handling,
           \A v \in Workers : v # w => pc'[v] = pc[v],
           UNCHANGED <<held, lost>>,
           ToSet(taskQ) \subseteq ToSet(taskQ'), ToSet(waitQ) \subseteq ToSet(waitQ')
    PROVE  Preserved
<1>1. \A v \in Workers : Owned(v) => Owned(v)' /\ held'[v] = held[v]
    BY DEF Owned
<1>. QED
    BY <1>1, Preserve

\* Every step keeps both invariants.  Ack is the one that needs the ranks.
LEMMA NextLoss == LossInv /\ [Next]_vars => NoTaskLost' /\ AckHasSuccessor'
<1>. SUFFICES ASSUME LossInv, [Next]_vars
              PROVE  NoTaskLost' /\ AckHasSuccessor'
    OBVIOUS
<1>. USE DEF brokerVars, workerVars, historyVars
<1>0. TypeOK /\ ControlOK /\ NoTaskLost /\ AckHasSuccessor
    BY DEF LossInv
<1>1. ASSUME NEW t \in Tasks, PublishTask(t)
      PROVE  NoTaskLost' /\ AckHasSuccessor'
    <2>1. NewMessage(t) \in Message /\ NewMessage(t).task = t
        BY DEF NewMessage, Message
    <2>2. ToSet(taskQ') = ToSet(taskQ) \cup {NewMessage(t)}
        BY <1>0, <1>1, <2>1, ToSetAppend DEF PublishTask, TypeOK
    <2>3. UNCHANGED <<waitQ, pc, held, lost, answered, dlq>> /\ published' = published \cup {t}
        BY <1>1 DEF PublishTask
    <2>4. Preserved
        <3>1. \A v \in Workers : Owned(v) => Owned(v)' /\ held'[v] = held[v]
            BY <2>3 DEF Owned
        <3>. QED
            BY <2>2, <2>3, <3>1, Preserve
    <2>5. AcksCovered
        BY <2>3 DEF AcksCovered
    <2>6. PublishedCovered
        BY <2>1, <2>2, <2>3 DEF PublishedCovered, LiveCopies
    <2>. QED
        BY <1>0, <2>3, <2>4, <2>5, <2>6, Carry
<1>2. CASE TakeResult
    <2>1. UNCHANGED <<taskQ, waitQ, pc, held, lost, answered, dlq, published>>
        BY <1>2 DEF TakeResult
    <2>. QED
        BY <1>0, <2>1 DEF NoTaskLost, AckHasSuccessor, Succeeded, Settled, LiveCopies, Owned
<1>3. CASE Expire
    <2>. DEFINE n == [Head(waitQ) EXCEPT !.redelivered = FALSE]
    <2>1. /\ Head(waitQ) \in Message
          /\ ToSet(waitQ) = {Head(waitQ)} \cup ToSet(waitQ')
        BY <1>0, <1>3, ToSetTail DEF Expire, TypeOK
    <2>2. n \in Message /\ Alike(Head(waitQ), n)
        BY <2>1 DEF Alike, Rank, Message
    <2>7. taskQ' = Append(taskQ, n)
        BY <1>3 DEF Expire
    <2>. HIDE DEF n
    <2>3. ToSet(taskQ') = ToSet(taskQ) \cup {n}
        BY <1>0, <2>2, <2>7, ToSetAppend DEF TypeOK
    <2>4. UNCHANGED <<pc, held, lost, answered, dlq, published>>
        BY <1>3 DEF Expire
    <2>5. Preserved
        <3>1. \A v \in Workers : Owned(v) => Owned(v)' /\ held'[v] = held[v]
            BY <2>4 DEF Owned
        <3>. QED
            BY <2>1, <2>2, <2>3, <2>4, <3>1, Preserve
    <2>6. AcksCovered /\ PublishedCovered
        BY <2>4 DEF AcksCovered, PublishedCovered
    <2>. QED
        BY <1>0, <2>4, <2>5, <2>6, Carry
<1>4. ASSUME NEW w \in Workers, TakeTrigger(w)
      PROVE  NoTaskLost' /\ AckHasSuccessor'
    <2>1. UNCHANGED <<taskQ, waitQ, pc, held, lost, answered, dlq, published>>
        BY <1>4 DEF TakeTrigger
    <2>. QED
        BY <1>0, <2>1 DEF NoTaskLost, AckHasSuccessor, Succeeded, Settled, LiveCopies, Owned
<1>5. ASSUME NEW w \in Workers, Deliver(w)
      PROVE  NoTaskLost' /\ AckHasSuccessor'
    <2>. DEFINE m == Head(taskQ)
    <2>1. m \in Message /\ ToSet(taskQ) = {m} \cup ToSet(taskQ')
        BY <1>0, <1>5, ToSetTail DEF Deliver, TypeOK
    <2>2. /\ held' = [held EXCEPT ![w] = m]
          /\ pc' = [pc EXCEPT ![w] = FirstStep(m)]
          /\ pc[w] = "idle"
          /\ UNCHANGED <<waitQ, lost, answered, dlq, published>>
        BY <1>5 DEF Deliver
    <2>3. FirstStep(m) \in Handling \ {"ack"}
        BY <2>1, FirstStepControl DEF Handling
    <2>. HIDE DEF m
    <2>4. Owned(w)' /\ held'[w] = m
        BY <1>0, <2>2, <2>3 DEF Owned, ControlOK, TypeOK, Handling
    <2>5. \A v \in Workers : Owned(v) => Owned(v)' /\ held'[v] = held[v]
        BY <1>0, <2>2 DEF Owned, TypeOK, Handling
    <2>6. Preserved
        BY <2>1, <2>2, <2>4, <2>5, Preserve
    <2>7. AcksCovered /\ PublishedCovered
        BY <1>0, <2>2, <2>3 DEF AcksCovered, PublishedCovered, TypeOK
    <2>. QED
        BY <1>0, <2>2, <2>6, <2>7, Carry
<1>6. ASSUME NEW w \in Workers, PublishDeadLetter(w)
      PROVE  NoTaskLost' /\ AckHasSuccessor'
    <2>1. /\ pc' = [pc EXCEPT ![w] = "ack"] /\ pc[w] \in Handling
          /\ dlq' = dlq \cup {held[w].task}
          /\ UNCHANGED <<taskQ, waitQ, held, lost, answered, published>>
        BY <1>6 DEF PublishDeadLetter, Handling
    <2>2. Preserved
        BY <1>0, <2>1, HandlerPreserves DEF TypeOK, Handling
    <2>3. AcksCovered /\ PublishedCovered
        BY <1>0, <2>1 DEF AcksCovered, PublishedCovered, Succeeded, Settled, TypeOK
    <2>. QED
        BY <1>0, <2>1, <2>2, <2>3, Carry
<1>7. ASSUME NEW w \in Workers, PublishRetry(w)
      PROVE  NoTaskLost' /\ AckHasSuccessor'
    <2>. DEFINE n == RetryCopy(held[w])
    <2>1. /\ pc' = [pc EXCEPT ![w] = "ack"] /\ pc[w] \in Handling
          /\ taskQ' = Append(taskQ, n)
          /\ UNCHANGED <<waitQ, held, lost, answered, dlq, published>>
        BY <1>7 DEF PublishRetry, Handling
    <2>2. held[w] \in Message
        BY <1>0, <2>1 DEF ControlOK
    <2>3. n \in Message /\ n.task = held[w].task /\ Rank(n) > Rank(held[w])
        <3>1. held[w].retry \in Nat /\ held[w].wait \in Nat
            BY <2>2 DEF Message
        <3>. QED
            BY <2>2, <3>1, CopyTypes DEF Rank
    <2>. HIDE DEF n
    <2>4. ToSet(taskQ') = ToSet(taskQ) \cup {n}
        BY <1>0, <2>1, <2>3, ToSetAppend DEF TypeOK
    <2>5. Preserved
        BY <1>0, <2>1, <2>4, HandlerPreserves DEF TypeOK, Handling
    <2>6. Succeeded(held[w])'
        BY <2>1, <2>3, <2>4 DEF Succeeded, LiveCopies, Rank
    <2>7. AcksCovered /\ PublishedCovered
        BY <1>0, <2>1, <2>6 DEF AcksCovered, PublishedCovered, TypeOK
    <2>. QED
        BY <1>0, <2>1, <2>5, <2>7, Carry
<1>8. ASSUME NEW w \in Workers, NEW d \in Decisions, Gate(w, d)
      PROVE  NoTaskLost' /\ AckHasSuccessor'
    <2>1. /\ pc[w] \in Handling
          /\ UNCHANGED <<taskQ, waitQ, held, lost, answered, dlq, published>>
        BY <1>8 DEF Gate, Handling
    <2>2. PICK step \in {"execute", "answer", "announce"} : pc' = [pc EXCEPT ![w] = step]
        BY <1>8 DEF Gate
    <2>3. Preserved
        BY <1>0, <2>1, <2>2, HandlerPreserves DEF TypeOK, Handling
    <2>4. AcksCovered /\ PublishedCovered
        BY <1>0, <2>1, <2>2 DEF AcksCovered, PublishedCovered, TypeOK
    <2>. QED
        BY <1>0, <2>1, <2>3, <2>4, Carry
<1>9. ASSUME NEW w \in Workers, PublishWaiting(w) \/ Execute(w)
      PROVE  NoTaskLost' /\ AckHasSuccessor'
    <2>1. /\ pc[w] \in Handling
          /\ UNCHANGED <<taskQ, waitQ, held, lost, answered, dlq, published>>
        BY <1>9 DEF PublishWaiting, Execute, Handling
    <2>2. PICK step \in {"reschedule", "answer"} : pc' = [pc EXCEPT ![w] = step]
        BY <1>9 DEF PublishWaiting, Execute
    <2>3. Preserved
        BY <1>0, <2>1, <2>2, HandlerPreserves DEF TypeOK, Handling
    <2>4. AcksCovered /\ PublishedCovered
        BY <1>0, <2>1, <2>2 DEF AcksCovered, PublishedCovered, TypeOK
    <2>. QED
        BY <1>0, <2>1, <2>3, <2>4, Carry
<1>10. ASSUME NEW w \in Workers, Reschedule(w)
       PROVE  NoTaskLost' /\ AckHasSuccessor'
    <2>. DEFINE n == WaitCopy(held[w])
    <2>1. /\ pc' = [pc EXCEPT ![w] = "ack"] /\ pc[w] \in Handling
          /\ waitQ' = Append(waitQ, n)
          /\ UNCHANGED <<taskQ, held, lost, answered, dlq, published>>
        BY <1>10 DEF Reschedule, Handling
    <2>2. held[w] \in Message
        BY <1>0, <2>1 DEF ControlOK
    <2>3. n \in Message /\ n.task = held[w].task /\ Rank(n) > Rank(held[w])
        <3>1. held[w].retry \in Nat /\ held[w].wait \in Nat
            BY <2>2 DEF Message
        <3>. QED
            BY <2>2, <3>1, CopyTypes DEF Rank
    <2>. HIDE DEF n
    <2>4. ToSet(waitQ') = ToSet(waitQ) \cup {n}
        BY <1>0, <2>1, <2>3, ToSetAppend DEF TypeOK
    <2>5. Preserved
        BY <1>0, <2>1, <2>4, HandlerPreserves DEF TypeOK, Handling
    <2>6. Succeeded(held[w])'
        BY <2>1, <2>3, <2>4 DEF Succeeded, LiveCopies, Rank
    <2>7. AcksCovered /\ PublishedCovered
        BY <1>0, <2>1, <2>6 DEF AcksCovered, PublishedCovered, TypeOK
    <2>. QED
        BY <1>0, <2>1, <2>5, <2>7, Carry
<1>12. ASSUME NEW w \in Workers, PublishResult(w)
       PROVE  NoTaskLost' /\ AckHasSuccessor'
    <2>1. /\ pc' = [pc EXCEPT ![w] = "ack"] /\ pc[w] \in Handling
          /\ answered' = answered \cup {held[w].task}
          /\ UNCHANGED <<taskQ, waitQ, held, lost, dlq, published>>
        BY <1>12 DEF PublishResult, Handling
    <2>2. Preserved
        BY <1>0, <2>1, HandlerPreserves DEF TypeOK, Handling
    <2>3. AcksCovered /\ PublishedCovered
        BY <1>0, <2>1 DEF AcksCovered, PublishedCovered, Succeeded, Settled, TypeOK
    <2>. QED
        BY <1>0, <2>1, <2>2, <2>3, Carry
<1>13. ASSUME NEW w \in Workers, Ack(w)
       PROVE  NoTaskLost' /\ AckHasSuccessor'
    <2>1. /\ pc[w] = "ack" /\ ~lost[w]
          /\ pc' = [pc EXCEPT ![w] = "idle"] /\ held' = [held EXCEPT ![w] = NoMessage]
          /\ UNCHANGED <<taskQ, waitQ, lost, answered, dlq, published>>
        BY <1>13 DEF Ack
    <2>2. \A v \in Workers : v # w => pc'[v] = pc[v] /\ held'[v] = held[v]
        BY <1>0, <2>1 DEF TypeOK
    <2>3. pc'[w] = "idle"
        BY <1>0, <2>1 DEF TypeOK
    <2>4. \A m \in LiveCopies : m \in LiveCopies' \/ m = held[w]
        BY <2>1, <2>2 DEF LiveCopies, Owned
    <2>5. \A m \in LiveCopies : Rank(m) \in Nat
        BY <1>0, RankType
    <2>6. held[w] \in LiveCopies
        BY <2>1 DEF LiveCopies, Owned, Handling
    <2>7. \A t : Settled(t) <=> Settled(t)'
        BY <2>1 DEF Settled
    \* Whoever relied on the acked copy can rely on what the acked copy relied on.
    <2>8. ASSUME NEW m \in LiveCopies, ~Settled(m.task)
          PROVE  \E n \in LiveCopies' :
                    n \in LiveCopies /\ n.task = m.task /\ Rank(n) >= Rank(m)
        <3>1. CASE m # held[w]
            BY <2>4, <2>5, <3>1
        <3>2. CASE m = held[w]
            <4>1. PICK n \in LiveCopies : n.task = m.task /\ Rank(n) > Rank(m)
                BY <1>0, <2>1, <2>8, <3>2 DEF AckHasSuccessor, Succeeded
            <4>2. n # held[w]
                BY <2>5, <3>2, <4>1
            <4>. QED
                BY <2>4, <2>5, <4>1, <4>2
        <3>. QED
            BY <3>1, <3>2
    <2>9. NoTaskLost'
        <3>. SUFFICES ASSUME NEW t \in published, ~Settled(t)
                      PROVE  \E n \in LiveCopies' : n.task = t
            BY <2>1, <2>7 DEF NoTaskLost
        <3>. QED
            BY <1>0, <2>8 DEF NoTaskLost
    <2>10. AckHasSuccessor'
        <3>. SUFFICES ASSUME NEW v \in Workers, pc'[v] = "ack", ~lost'[v]
                      PROVE  Succeeded(held[v])'
            BY DEF AckHasSuccessor
        <3>1. v # w
            BY <2>3
        <3>2. pc[v] = "ack" /\ ~lost[v] /\ held'[v] = held[v]
            BY <2>1, <2>2, <3>1
        <3>3. Succeeded(held[v])
            BY <1>0, <3>2 DEF AckHasSuccessor
        <3>4. CASE Settled(held[v].task)
            BY <2>1, <3>2, <3>4 DEF Succeeded, Settled
        <3>5. CASE ~Settled(held[v].task)
            <4>1. PICK m \in LiveCopies : m.task = held[v].task /\ Rank(m) > Rank(held[v])
                BY <3>3, <3>5 DEF Succeeded
            <4>2. PICK n \in LiveCopies' :
                    n \in LiveCopies /\ n.task = m.task /\ Rank(n) >= Rank(m)
                BY <2>8, <3>5, <4>1
            <4>3. held[v] \in LiveCopies
                BY <3>2 DEF LiveCopies, Owned, Handling
            <4>5. Rank(n) > Rank(held[v])
                BY <2>5, <4>1, <4>2, <4>3
            <4>. QED
                BY <3>2, <4>1, <4>2, <4>5 DEF Succeeded, Rank
        <3>. QED
            BY <3>4, <3>5
    <2>. QED
        BY <2>9, <2>10
<1>14. ASSUME NEW w \in Workers, Crash(w) \/ PoisonCrash(w)
       PROVE  NoTaskLost' /\ AckHasSuccessor'
    <2>1. /\ pc[w] \in Handling
          /\ Requeue(w)
          /\ pc' = [pc EXCEPT ![w] = "down"]
          /\ held' = [held EXCEPT ![w] = NoMessage]
          /\ lost' = [lost EXCEPT ![w] = FALSE]
          /\ UNCHANGED <<waitQ, dlq, published, answered>>
        BY <1>14 DEF Crash, PoisonCrash, Fault, Exit, Handling
    <2>2. /\ ToSet(taskQ) \subseteq ToSet(taskQ')
          /\ \E n \in ToSet(taskQ') : Alike(held[w], n)
        BY <1>0, <2>1, RequeueAlike
    <2>3. \A v \in Workers : v # w => pc'[v] = pc[v] /\ held'[v] = held[v] /\ lost'[v] = lost[v]
        BY <1>0, <2>1 DEF TypeOK
    <2>4. Preserved
        <3>1. \A v \in Workers : v # w /\ Owned(v) => Owned(v)' /\ held'[v] = held[v]
            BY <2>3 DEF Owned
        <3>. QED
            BY <2>1, <2>2, <3>1, Preserve
    <2>5. AcksCovered /\ PublishedCovered
        BY <1>0, <2>1, <2>3 DEF AcksCovered, PublishedCovered, TypeOK
    <2>. QED
        BY <1>0, <2>1, <2>4, <2>5, Carry
<1>16. ASSUME NEW w \in Workers, Disconnect(w)
       PROVE  NoTaskLost' /\ AckHasSuccessor'
    <2>1. /\ pc[w] \in Handling
          /\ Requeue(w)
          /\ lost' = [lost EXCEPT ![w] = TRUE]
          /\ UNCHANGED <<waitQ, dlq, published, answered, pc, held>>
        BY <1>16 DEF Disconnect, Fault
    <2>2. /\ ToSet(taskQ) \subseteq ToSet(taskQ')
          /\ \E n \in ToSet(taskQ') : Alike(held[w], n)
        BY <1>0, <2>1, RequeueAlike
    <2>3. lost'[w] /\ \A v \in Workers : v # w => lost'[v] = lost[v]
        BY <1>0, <2>1 DEF TypeOK
    <2>4. Preserved
        <3>1. \A v \in Workers : v # w /\ Owned(v) => Owned(v)' /\ held'[v] = held[v]
            BY <2>1, <2>3 DEF Owned
        <3>. QED
            BY <2>1, <2>2, <3>1, Preserve
    <2>5. AcksCovered /\ PublishedCovered
        BY <2>1, <2>3 DEF AcksCovered, PublishedCovered
    <2>. QED
        BY <1>0, <2>1, <2>4, <2>5, Carry
<1>17. ASSUME NEW w \in Workers, ExitDisconnected(w) \/ Restart(w)
       PROVE  NoTaskLost' /\ AckHasSuccessor'
    <2>1. /\ ~Owned(w)
          /\ \E step \in {"down", "idle"} : pc' = [pc EXCEPT ![w] = step]
          /\ \A v \in Workers : v # w => held'[v] = held[v] /\ lost'[v] = lost[v]
          /\ UNCHANGED <<taskQ, waitQ, dlq, published, answered>>
        BY <1>0, <1>17 DEF ExitDisconnected, Exit, Restart, Owned, Handling, TypeOK
    <2>2. pc'[w] # "ack" /\ \A v \in Workers : v # w => pc'[v] = pc[v]
        BY <1>0, <2>1 DEF TypeOK
    <2>3. Preserved
        <3>1. \A v \in Workers : Owned(v) => Owned(v)' /\ held'[v] = held[v]
            BY <2>1, <2>2 DEF Owned
        <3>. QED
            BY <2>1, <3>1, Preserve
    <2>4. AcksCovered /\ PublishedCovered
        BY <2>1, <2>2 DEF AcksCovered, PublishedCovered
    <2>. QED
        BY <1>0, <2>1, <2>3, <2>4, Carry
<1>19. CASE UNCHANGED vars
    BY <1>0, <1>19 DEF vars, NoTaskLost, AckHasSuccessor, Succeeded, Settled, LiveCopies, Owned
<1>. QED
    BY <1>1, <1>2, <1>3, <1>4, <1>5, <1>6, <1>7, <1>8, <1>9, <1>10, <1>12,
       <1>13, <1>14, <1>16, <1>17, <1>19 DEF Next, Handle, Fail

-------------------------------------------------------------------------------
(* How each step changes the set of copies.                                    *)

\* Copies are messages.
LEMMA CopiesType == TypeOK /\ ControlOK => Copies \subseteq Message
<1>. SUFFICES ASSUME TypeOK, ControlOK PROVE Copies \subseteq Message
    OBVIOUS
<1>1. ToSet(taskQ) \subseteq Message /\ ToSet(waitQ) \subseteq Message
    BY DEF TypeOK, ToSet
<1>. QED
    BY <1>1 DEF Copies, ControlOK

\* A handler step that publishes the copies N and keeps its own message.
LEMMA HandlerCopies ==
    ASSUME TypeOK, NEW w \in Workers, NEW N, pc[w] \in Handling, pc'[w] \in Handling,
           \A v \in Workers : v # w => pc'[v] = pc[v],
           UNCHANGED held,
           ToSet(taskQ') \cup ToSet(waitQ') = ToSet(taskQ) \cup ToSet(waitQ) \cup N
    PROVE  Copies' = Copies \cup N
<1>1. {v \in Workers : pc'[v] \in Handling} = {v \in Workers : pc[v] \in Handling}
    OBVIOUS
<1>. QED
    BY <1>1 DEF Copies

\* A step of one handler whose message leaves it.
LEMMA ReleaseCopies ==
    ASSUME TypeOK, NEW w \in Workers, NEW N, pc[w] \in Handling, pc'[w] \notin Handling,
           \A v \in Workers : v # w => pc'[v] = pc[v] /\ held'[v] = held[v],
           UNCHANGED waitQ, ToSet(taskQ') = ToSet(taskQ) \cup N
    PROVE  /\ Copies' \subseteq Copies \cup N
           /\ Copies \subseteq Copies' \cup {held[w]}
           /\ N \subseteq Copies'
BY DEF Copies

\* The message a handler holds is a copy.
LEMMA HeldIsCopy ==
    ASSUME TypeOK, ControlOK, NEW w \in Workers, pc[w] \in Handling
    PROVE  /\ held[w] \in Copies /\ held[w] \in Message /\ held[w].task \in Tasks
BY DEF Copies, ControlOK, Message

\* A delivery turns a queued copy into a held one.
LEMMA DeliverCopies ==
    ASSUME TypeOK, ControlOK, NEW w \in Workers, Deliver(w)
    PROVE  Copies' = Copies
<1>. DEFINE m == Head(taskQ)
<1>1. m \in Message /\ ToSet(taskQ) = {m} \cup ToSet(taskQ')
    BY ToSetTail DEF Deliver, TypeOK
<1>2. /\ held' = [held EXCEPT ![w] = m]
      /\ pc' = [pc EXCEPT ![w] = FirstStep(m)]
      /\ pc[w] = "idle" /\ waitQ' = waitQ
    BY DEF Deliver
<1>3. FirstStep(m) \in Handling
    BY <1>1, FirstStepControl DEF Handling
<1>. HIDE DEF m
<1>4. /\ pc'[w] \in Handling /\ held'[w] = m /\ pc[w] \notin Handling
      /\ \A v \in Workers : v # w => pc'[v] = pc[v] /\ held'[v] = held[v]
    BY <1>2, <1>3 DEF TypeOK, Handling
<1>5. Copies' \subseteq Copies
    BY <1>1, <1>2, <1>4 DEF Copies
<1>6. Copies \subseteq Copies'
    BY <1>1, <1>2, <1>4 DEF Copies
<1>. QED
    BY <1>5, <1>6

\* An expiry exchanges a waiting copy for a fresh one of the same headers.
LEMMA ExpireCopies ==
    ASSUME TypeOK, ControlOK, Expire
    PROVE  \E m \in Copies, n \in Copies' :
              /\ n.task = m.task /\ n.retry = m.retry /\ n.wait = m.wait /\ ~n.redelivered
              /\ Copies' \subseteq Copies \cup {n} /\ Copies \subseteq Copies' \cup {m}
<1>. DEFINE m == Head(waitQ)  n == [Head(waitQ) EXCEPT !.redelivered = FALSE]
<1>1. m \in Message /\ ToSet(waitQ) = {m} \cup ToSet(waitQ')
    BY ToSetTail DEF Expire, TypeOK
<1>2. /\ n \in Message /\ n.task = m.task /\ n.retry = m.retry /\ n.wait = m.wait
      /\ ~n.redelivered
    BY <1>1 DEF Message
<1>3. taskQ' = Append(taskQ, n) /\ UNCHANGED <<pc, held>>
    BY DEF Expire, workerVars
<1>. HIDE DEF m, n
<1>4. ToSet(taskQ') = ToSet(taskQ) \cup {n}
    BY <1>2, <1>3, ToSetAppend DEF TypeOK
<1>5. /\ m \in Copies /\ n \in Copies'
      /\ Copies' \subseteq Copies \cup {n} /\ Copies \subseteq Copies' \cup {m}
    BY <1>1, <1>3, <1>4 DEF Copies
<1>. QED
    BY <1>2, <1>5

\* A requeue exchanges the held copy for one marked redelivered; a handler that
\* only lost its connection keeps its message as well.
LEMMA RequeueCopies ==
    ASSUME TypeOK, ControlOK, NEW w \in Workers,
           Crash(w) \/ PoisonCrash(w) \/ Disconnect(w)
    PROVE  /\ pc[w] \in Handling
           /\ disruptions' = [disruptions EXCEPT ![held[w].task] = @ + 1]
           /\ \E n \in Copies' :
                 /\ n.task = held[w].task /\ n.retry = held[w].retry /\ n.wait = held[w].wait
                 /\ n.redelivered
                 /\ Copies' \subseteq Copies \cup {n} /\ Copies \subseteq Copies' \cup {held[w]}
<1>. DEFINE n == [held[w] EXCEPT !.redelivered = TRUE]
<1>1. /\ pc[w] \in Handling /\ Requeue(w) /\ waitQ' = waitQ
      /\ Exit(w) \/ UNCHANGED <<pc, held>>
    BY DEF Crash, PoisonCrash, Disconnect, Fault, Handling
<1>2. held[w] \in Message
    BY <1>1, HeldIsCopy
<1>3. /\ n.task = held[w].task /\ n.retry = held[w].retry /\ n.wait = held[w].wait
      /\ n.redelivered
    BY <1>2 DEF Message
<1>4. ToSet(taskQ') = ToSet(taskQ) \cup {n}
    BY <1>1, RequeueType
<1>. HIDE DEF n
<1>5. n \in Copies' /\ Copies' \subseteq Copies \cup {n} /\ Copies \subseteq Copies' \cup {held[w]}
    <2>1. CASE Exit(w)
        <3>1. /\ pc'[w] \notin Handling
              /\ \A v \in Workers : v # w => pc'[v] = pc[v] /\ held'[v] = held[v]
            BY <2>1 DEF Exit, TypeOK, Handling
        <3>. QED
            BY <1>1, <1>4, <3>1, ReleaseCopies
    <2>2. CASE UNCHANGED <<pc, held>>
        BY <1>1, <1>4, <2>2 DEF Copies
    <2>. QED
        BY <1>1, <2>1, <2>2
<1>6. disruptions' = [disruptions EXCEPT ![held[w].task] = @ + 1]
    BY <1>1 DEF Requeue
<1>. QED
    BY <1>1, <1>3, <1>5, <1>6

-------------------------------------------------------------------------------
(* Headers and dead letters.                                                   *)

\* What every copy carries.
Fine(m) ==
    /\ m.task \in published
    /\ m.retry <= MaxRetries
    /\ m.wait <= MaxWaits
    /\ m.retry + (IF m.redelivered THEN 1 ELSE 0) <= disruptions[m.task]

\* The strengthening that is inductive: a header is only as trustworthy as the
\* copy it was taken from, so the claims about headers, payments and dead
\* letters go together.
CopyInv ==
    /\ \A m \in Copies : Fine(m)
    /\ answered \cup dlq \subseteq published
    /\ DeadLetterJustified

\* It is enough that the copies a step adds are fine, and its dead letters
\* justified.
LEMMA FineCarry ==
    ASSUME TypeOK, TypeOK', ControlOK, CopyInv,
           \A m \in Copies' : m \in Copies \/ Fine(m)',
           published \subseteq published',
           \A t \in Tasks : disruptions[t] <= disruptions'[t],
           answered' \cup dlq' \subseteq published',
           \A t \in dlq' : t \in dlq \/ t \in Malformed \/ disruptions'[t] > MaxRetries
    PROVE  CopyInv'
<1>1. ASSUME NEW m \in Copies PROVE Fine(m)'
    <2>1. m \in Message /\ Fine(m)
        BY CopiesType DEF CopyInv
    <2>2. /\ m.task \in Tasks /\ m.retry \in Nat /\ disruptions[m.task] \in Nat
          /\ disruptions'[m.task] \in Nat
        BY <2>1 DEF Message, TypeOK
    <2>3. disruptions[m.task] <= disruptions'[m.task]
        BY <2>2
    <2>. QED
        BY <2>1, <2>2, <2>3 DEF Fine
<1>2. DeadLetterJustified'
    <2>. SUFFICES ASSUME NEW t \in dlq'
                  PROVE  t \in Malformed \/ disruptions'[t] > MaxRetries
        BY DEF DeadLetterJustified
    <2>1. /\ t \in Tasks /\ MaxRetries \in Nat
          /\ disruptions[t] \in Nat /\ disruptions'[t] \in Nat
        BY TaskWorkerAssumption DEF TypeOK
    <2>2. disruptions[t] <= disruptions'[t]
        BY <2>1
    <2>. QED
        BY <2>1, <2>2 DEF CopyInv, DeadLetterJustified
<1>3. \A m \in Copies' : Fine(m)'
    BY <1>1
<1>. QED
    BY <1>2, <1>3 DEF CopyInv

\* Nothing is published and nothing is parked in the initial state.
LEMMA InitCopy == Init => CopyInv
<1>. SUFFICES ASSUME Init PROVE CopyInv
    OBVIOUS
<1>1. Copies = {}
    BY DEF Init, Copies, ToSet, Handling
<1>. QED
    BY <1>1 DEF Init, CopyInv, DeadLetterJustified

\* Every step keeps the invariant on copies.
LEMMA NextCopy == TypeOK /\ ControlOK /\ CopyInv /\ [Next]_vars => CopyInv'
<1>. SUFFICES ASSUME TypeOK, ControlOK, CopyInv, [Next]_vars PROVE CopyInv'
    OBVIOUS
<1>. USE DEF brokerVars, workerVars, historyVars
<1>0. TypeOK' /\ ControlOK'
    BY NextType
<1>. MaxRetries \in Nat /\ MaxWaits \in Nat
    BY TaskWorkerAssumption
<1>a. \A t \in Tasks : disruptions[t] \in Nat /\ disruptions[t] <= disruptions[t]
    BY DEF TypeOK
<1>b. answered \cup dlq \subseteq published
    BY DEF CopyInv
\* Steps that add no copy, settle nothing and disrupt nothing.
<1>c. ASSUME Copies' \subseteq Copies, UNCHANGED <<dlq, published, answered, disruptions>>
      PROVE  CopyInv'
    BY <1>0, <1>a, <1>b, <1>c, FineCarry
<1>1. ASSUME NEW t \in Tasks, PublishTask(t)
      PROVE  CopyInv'
    <2>. DEFINE n == NewMessage(t)
    <2>1. n \in Message /\ n.task = t /\ n.retry = 0 /\ n.wait = 0 /\ ~n.redelivered
        BY DEF NewMessage, Message
    <2>2. taskQ' = Append(taskQ, n) /\ published' = published \cup {t}
          /\ UNCHANGED <<waitQ, dlq, pc, held, answered, disruptions>>
        BY <1>1 DEF PublishTask
    <2>. HIDE DEF n
    <2>3. ToSet(taskQ') = ToSet(taskQ) \cup {n}
        BY <2>1, <2>2, ToSetAppend DEF TypeOK
    <2>4. Copies' \subseteq Copies \cup {n}
        BY <2>2, <2>3 DEF Copies
    <2>5. Fine(n)'
        BY <1>a, <2>1, <2>2 DEF Fine
    <2>6. \A m \in Copies' : m \in Copies \/ Fine(m)'
        BY <2>4, <2>5 DEF Fine
    <2>. QED
        BY <1>0, <1>a, <1>b, <2>2, <2>6, FineCarry
<1>2. CASE TakeResult \/ UNCHANGED vars
    <2>1. UNCHANGED <<taskQ, waitQ, dlq, pc, held, published, answered, disruptions>>
        BY <1>2 DEF TakeResult, vars
    <2>. QED
        BY <1>c, <2>1 DEF Copies
<1>3. CASE Expire
    <2>1. PICK m \in Copies, n \in Copies' :
              /\ n.task = m.task /\ n.retry = m.retry /\ n.wait = m.wait /\ ~n.redelivered
              /\ Copies' \subseteq Copies \cup {n} /\ Copies \subseteq Copies' \cup {m}
        BY <1>3, ExpireCopies
    <2>2. UNCHANGED <<dlq, published, answered, disruptions>>
        BY <1>3 DEF Expire
    <2>3. Fine(m) /\ m \in Message
        BY CopiesType DEF CopyInv
    <2>4. m.retry \in Nat /\ m.task \in Tasks /\ m.redelivered \in BOOLEAN
        BY <2>3 DEF Message
    <2>5. Fine(n)'
        BY <1>a, <2>1, <2>2, <2>3, <2>4 DEF Fine
    <2>6. \A k \in Copies' : k \in Copies \/ Fine(k)'
        BY <2>1, <2>5 DEF Fine
    <2>. QED
        BY <1>0, <1>a, <1>b, <2>2, <2>6, FineCarry
<1>4. ASSUME NEW w \in Workers, TakeTrigger(w) \/ Restart(w) \/ Deliver(w)
      PROVE  CopyInv'
    <2>1. UNCHANGED <<dlq, published, answered, disruptions>>
        BY <1>4 DEF TakeTrigger, Restart, Deliver
    <2>2. Copies' \subseteq Copies
        <3>1. CASE TakeTrigger(w)
            BY <3>1 DEF TakeTrigger, Copies
        <3>2. CASE Restart(w)
            <4>1. {v \in Workers : pc'[v] \in Handling} \subseteq {v \in Workers : pc[v] \in Handling}
                BY <3>2 DEF Restart, TypeOK, Handling
            <4>. QED
                BY <3>2, <4>1 DEF Restart, Copies
        <3>3. CASE Deliver(w)
            BY <3>3, DeliverCopies
        <3>. QED
            BY <1>4, <3>1, <3>2, <3>3
    <2>. QED
        BY <1>c, <2>1, <2>2
<1>5. ASSUME NEW w \in Workers,
             \/ PublishDeadLetter(w) \/ PublishWaiting(w) \/ Execute(w) \/ PublishResult(w)
             \/ \E d \in Decisions : Gate(w, d)
      PROVE  CopyInv'
    <2>1. /\ pc[w] \in Handling /\ UNCHANGED <<taskQ, waitQ, held, published, disruptions>>
          /\ \E step \in Handling : pc' = [pc EXCEPT ![w] = step]
        BY <1>5 DEF PublishDeadLetter, PublishWaiting, Execute, PublishResult, Gate, Handling
    <2>2. Copies' = Copies \cup {}
        BY <2>1, HandlerCopies DEF TypeOK
    <2>3. held[w] \in Copies /\ held[w] \in Message /\ Fine(held[w])
        BY <2>1, HeldIsCopy DEF CopyInv
    <2>4. CASE PublishDeadLetter(w)
        <3>1. pc[w] = "deadletter" /\ dlq' = dlq \cup {held[w].task} /\ UNCHANGED answered
            BY <2>4 DEF PublishDeadLetter
        <3>2. held[w].task \in Malformed \/ disruptions[held[w].task] > MaxRetries
            <4>1. CASE held[w].redelivered /\ held[w].retry >= MaxRetries
                <5>1. held[w].retry \in Nat /\ disruptions[held[w].task] \in Nat
                    BY <1>a, <2>3 DEF Message
                <5>. QED
                    BY <2>3, <4>1, <5>1 DEF Fine
            <4>. QED
                BY <3>1, <4>1 DEF ControlOK
        <3>3. held[w].task \in published
            BY <2>3 DEF Fine
        <3>. QED
            BY <1>0, <1>a, <1>b, <2>1, <2>2, <3>1, <3>2, <3>3, FineCarry
    <2>5. CASE ~PublishDeadLetter(w)
        <3>1. dlq' = dlq /\ (answered' = answered \/ answered' = answered \cup {held[w].task})
            BY <1>5, <2>5 DEF PublishWaiting, Execute, PublishResult, Gate
        <3>2. held[w].task \in published
            BY <2>3 DEF Fine
        <3>. QED
            BY <1>0, <1>a, <1>b, <2>1, <2>2, <3>1, <3>2, FineCarry
    <2>. QED
        BY <2>4, <2>5
<1>6. ASSUME NEW w \in Workers, PublishRetry(w) \/ Reschedule(w)
      PROVE  CopyInv'
    <2>1. /\ pc[w] \in Handling /\ UNCHANGED <<held, lost, dlq, answered, published, disruptions>>
          /\ pc' = [pc EXCEPT ![w] = "ack"]
        BY <1>6 DEF PublishRetry, Reschedule, Handling
    <2>2. held[w] \in Message /\ Fine(held[w])
        BY <2>1, HeldIsCopy DEF CopyInv
    <2>3. held[w].task \in Tasks /\ held[w].retry \in Nat /\ held[w].wait \in Nat
        BY <2>2 DEF Message
    <2>4. PICK n \in Message :
             /\ n.task = held[w].task /\ ~n.redelivered
             /\ \/ /\ taskQ' = Append(taskQ, n) /\ waitQ' = waitQ
                   /\ n.retry = held[w].retry + 1 /\ n.wait = held[w].wait
                   /\ held[w].redelivered /\ held[w].retry < MaxRetries
                \/ /\ waitQ' = Append(waitQ, n) /\ taskQ' = taskQ
                   /\ n.retry = held[w].retry /\ n.wait = held[w].wait + 1
                   /\ held[w].wait < MaxWaits
        <3>1. CASE PublishRetry(w)
            <4>1. held[w].redelivered /\ held[w].retry < MaxRetries
                BY <3>1 DEF PublishRetry, ControlOK
            <4>2. taskQ' = Append(taskQ, RetryCopy(held[w])) /\ waitQ' = waitQ
                BY <3>1 DEF PublishRetry
            <4>. QED
                BY <2>2, <4>1, <4>2, CopyTypes
        <3>2. CASE Reschedule(w)
            <4>1. held[w].wait < MaxWaits
                BY <3>2 DEF Reschedule, ControlOK
            <4>2. waitQ' = Append(waitQ, WaitCopy(held[w])) /\ taskQ' = taskQ
                BY <3>2 DEF Reschedule
            <4>. QED
                BY <2>2, <4>1, <4>2, CopyTypes
        <3>. QED
            BY <1>6, <3>1, <3>2
    <2>5. ToSet(taskQ') \cup ToSet(waitQ') = ToSet(taskQ) \cup ToSet(waitQ) \cup {n}
        <3>1. taskQ \in Seq(Message) /\ waitQ \in Seq(Message)
            BY DEF TypeOK
        <3>2. CASE taskQ' = Append(taskQ, n) /\ waitQ' = waitQ
            <4>1. ToSet(taskQ') = ToSet(taskQ) \cup {n}
                BY <3>1, <3>2, ToSetAppend
            <4>. QED
                BY <3>2, <4>1
        <3>3. CASE waitQ' = Append(waitQ, n) /\ taskQ' = taskQ
            <4>1. ToSet(waitQ') = ToSet(waitQ) \cup {n}
                BY <3>1, <3>3, ToSetAppend
            <4>. QED
                BY <3>3, <4>1
        <3>. QED
            BY <2>4, <3>2, <3>3
    <2>6. Copies' = Copies \cup {n}
        <3>1. pc'[w] \in Handling /\ \A v \in Workers : v # w => pc'[v] = pc[v]
            BY <2>1 DEF TypeOK, Handling
        <3>. QED
            BY <2>1, <2>5, <3>1, HandlerCopies
    <2>7. held[w].retry <= disruptions[held[w].task]
        <3>1. held[w].redelivered \in BOOLEAN
            BY <2>2 DEF Message
        <3>. QED
            BY <1>a, <2>2, <2>3, <3>1 DEF Fine
    <2>8. Fine(n)'
        BY <1>a, <2>1, <2>2, <2>3, <2>4, <2>7 DEF Fine
    <2>9. \A k \in Copies' : k \in Copies \/ Fine(k)'
        BY <2>6, <2>8 DEF Fine
    <2>. QED
        BY <1>0, <1>a, <1>b, <2>1, <2>9, FineCarry
<1>7. ASSUME NEW w \in Workers, Ack(w) \/ ExitDisconnected(w)
      PROVE  CopyInv'
    <2>1. /\ UNCHANGED <<taskQ, waitQ, dlq, answered, published, disruptions>>
          /\ pc[w] \in Handling
          /\ \E step \in {"idle", "down"} : pc' = [pc EXCEPT ![w] = step]
          /\ held' = [held EXCEPT ![w] = NoMessage]
        BY <1>7 DEF Ack, ExitDisconnected, Exit, Handling
    <2>2. /\ pc'[w] \notin Handling
          /\ \A v \in Workers : v # w => pc'[v] = pc[v] /\ held'[v] = held[v]
        BY <2>1 DEF TypeOK, Handling
    <2>3. Copies' \subseteq Copies
        BY <2>1, <2>2 DEF Copies
    <2>. QED
        BY <1>c, <2>1, <2>3
<1>8. ASSUME NEW w \in Workers, Crash(w) \/ PoisonCrash(w) \/ Disconnect(w)
      PROVE  CopyInv'
    <2>1. /\ pc[w] \in Handling
          /\ disruptions' = [disruptions EXCEPT ![held[w].task] = @ + 1]
        BY <1>8, RequeueCopies
    <2>2. PICK n \in Copies' :
             /\ n.task = held[w].task /\ n.retry = held[w].retry /\ n.wait = held[w].wait
             /\ n.redelivered
             /\ Copies' \subseteq Copies \cup {n} /\ Copies \subseteq Copies' \cup {held[w]}
        BY <1>8, RequeueCopies
    <2>3. UNCHANGED <<dlq, answered, published>>
        BY <1>8 DEF Crash, PoisonCrash, Disconnect
    <2>4. held[w] \in Message /\ Fine(held[w])
        BY <2>1, HeldIsCopy DEF CopyInv
    <2>5. held[w].task \in Tasks /\ held[w].retry \in Nat /\ held[w].redelivered \in BOOLEAN
        BY <2>4 DEF Message
    <2>6. /\ disruptions'[held[w].task] = disruptions[held[w].task] + 1
          /\ \A t \in Tasks : disruptions[t] <= disruptions'[t]
        BY <1>a, <2>1, <2>5 DEF TypeOK
    <2>7. held[w].retry <= disruptions[held[w].task]
        BY <1>a, <2>4, <2>5 DEF Fine
    <2>8. Fine(n)'
        BY <1>a, <2>2, <2>3, <2>4, <2>5, <2>6, <2>7 DEF Fine
    <2>9. \A k \in Copies' : k \in Copies \/ Fine(k)'
        BY <2>2, <2>8 DEF Fine
    <2>. QED
        BY <1>0, <1>a, <1>b, <2>3, <2>6, <2>9, FineCarry
<1>. QED
    BY <1>1, <1>2, <1>3, <1>4, <1>5, <1>6, <1>7, <1>8 DEF Next, Handle, Fail

-------------------------------------------------------------------------------
(* The task path implements the ledger.                                        *)

\* The tasks the ledger has open.
OpenTasks == {m.task : m \in Copies}

\* Steps that exchange copies within their task leave the ledger alone.
LEMMA SameOpen ==
    ASSUME \A m \in Copies : \E n \in Copies' : n.task = m.task,
           \A n \in Copies' : \E m \in Copies : m.task = n.task
    PROVE  OpenTasks' = OpenTasks
<1>1. OpenTasks' \subseteq OpenTasks
    <2>. SUFFICES ASSUME NEW n \in Copies' PROVE n.task \in OpenTasks
        BY DEF OpenTasks
    <2>. QED
        BY DEF OpenTasks
<1>2. OpenTasks \subseteq OpenTasks'
    <2>. SUFFICES ASSUME NEW m \in Copies PROVE m.task \in OpenTasks'
        BY DEF OpenTasks
    <2>. QED
        BY DEF OpenTasks
<1>. QED
    BY <1>1, <1>2

LedgerVars == <<OpenTasks, answered, dlq>>

\* A handler that lets go of its message closes the task or leaves a copy of it.
LEMMA CloseStep ==
    ASSUME TypeOK, ControlOK, NoTaskLost', CopyInv, NEW w \in Workers,
           Ack(w) \/ ExitDisconnected(w)
    PROVE  UNCHANGED LedgerVars \/ \E t \in Tasks : Ledger!Close(t)
<1>. USE DEF brokerVars, workerVars, historyVars
<1>1. /\ UNCHANGED <<taskQ, waitQ, dlq, answered, published, disruptions>>
      /\ pc[w] \in Handling
      /\ \E step \in {"idle", "down"} : pc' = [pc EXCEPT ![w] = step]
      /\ held' = [held EXCEPT ![w] = NoMessage]
    BY DEF Ack, ExitDisconnected, Exit, Handling
<1>2. /\ pc'[w] \notin Handling
      /\ \A v \in Workers : v # w => pc'[v] = pc[v] /\ held'[v] = held[v]
    BY <1>1 DEF TypeOK, Handling
<1>3. Copies' \subseteq Copies /\ Copies \subseteq Copies' \cup {held[w]}
    BY <1>1, <1>2 DEF Copies
<1>. DEFINE t == held[w].task
<1>4. held[w] \in Copies /\ t \in Tasks /\ t \in published
    BY <1>1, HeldIsCopy DEF CopyInv, Fine
<1>5. CASE \E m \in Copies' : m.task = t
    BY <1>1, <1>3, <1>5, SameOpen DEF LedgerVars
<1>6. CASE ~\E m \in Copies' : m.task = t
    <2>1. ~\E m \in LiveCopies' : m.task = t
        BY <1>6 DEF LiveCopies, Copies, Owned
    <2>2. t \in answered \cup dlq
        BY <1>1, <1>4, <2>1 DEF NoTaskLost, Settled
    <2>3. t \in OpenTasks
        BY <1>4 DEF OpenTasks
    <2>4. OpenTasks' = OpenTasks \ {t}
        <3>1. OpenTasks' \subseteq OpenTasks \ {t}
            <4>. SUFFICES ASSUME NEW n \in Copies' PROVE n.task \in OpenTasks \ {t}
                BY DEF OpenTasks
            <4>. QED
                BY <1>3, <1>6 DEF OpenTasks
        <3>2. OpenTasks \ {t} \subseteq OpenTasks'
            <4>. SUFFICES ASSUME NEW m \in Copies, m.task # t PROVE m.task \in OpenTasks'
                BY DEF OpenTasks
            <4>. QED
                BY <1>3 DEF OpenTasks
        <3>. QED
            BY <3>1, <3>2
    <2>. QED
        BY <1>1, <1>4, <2>2, <2>3, <2>4 DEF Ledger!Close, OpenTasks
<1>. QED
    BY <1>5, <1>6

\* Every step of the task path is a step of the ledger, or leaves it alone.
LEMMA LedgerStep ==
    ASSUME TypeOK, ControlOK, NoTaskLost', CopyInv, [Next]_vars
    PROVE  UNCHANGED LedgerVars \/ Ledger!Next
<1>. USE DEF brokerVars, workerVars, historyVars
\* Steps that keep the set of copies, or the tasks of all copies.
<1>a. ASSUME Copies' = Copies PROVE OpenTasks' = OpenTasks
    BY <1>a DEF OpenTasks
<1>1. ASSUME NEW t \in Tasks, PublishTask(t)
      PROVE  Ledger!Open(t)
    <2>1. NewMessage(t) \in Message /\ NewMessage(t).task = t
        BY DEF NewMessage, Message
    <2>2. /\ taskQ' = Append(taskQ, NewMessage(t)) /\ t \notin published
          /\ UNCHANGED <<waitQ, dlq, pc, held, answered>>
        BY <1>1 DEF PublishTask
    <2>3. ToSet(taskQ') = ToSet(taskQ) \cup {NewMessage(t)}
        BY <2>1, <2>2, ToSetAppend DEF TypeOK
    <2>4. Copies' = Copies \cup {NewMessage(t)}
        BY <2>2, <2>3 DEF Copies
    <2>5. OpenTasks' = OpenTasks \cup {t}
        BY <2>1, <2>4 DEF OpenTasks
    <2>6. t \notin OpenTasks /\ t \notin answered \cup dlq
        BY <2>2 DEF OpenTasks, CopyInv, Fine
    <2>. QED
        BY <2>2, <2>5, <2>6 DEF Ledger!Open, OpenTasks
<1>2. CASE TakeResult \/ UNCHANGED vars
    <2>1. UNCHANGED <<taskQ, waitQ, pc, held, dlq, answered>>
        BY <1>2 DEF TakeResult, vars
    <2>. QED
        BY <1>a, <2>1 DEF Copies, LedgerVars
<1>3. CASE Expire
    <2>1. UNCHANGED <<dlq, answered>>
        BY <1>3 DEF Expire
    <2>2. PICK m \in Copies, n \in Copies' :
              /\ n.task = m.task
              /\ Copies' \subseteq Copies \cup {n} /\ Copies \subseteq Copies' \cup {m}
        BY <1>3, ExpireCopies
    <2>3. OpenTasks' = OpenTasks
        BY <2>2, SameOpen
    <2>. QED
        BY <2>1, <2>3 DEF LedgerVars
<1>4. ASSUME NEW w \in Workers, TakeTrigger(w) \/ Restart(w) \/ Deliver(w)
      PROVE  UNCHANGED LedgerVars
    <2>1. UNCHANGED <<dlq, answered>>
        BY <1>4 DEF TakeTrigger, Restart, Deliver
    <2>2. Copies' = Copies
        <3>1. CASE TakeTrigger(w)
            BY <3>1 DEF TakeTrigger, Copies
        <3>2. CASE Restart(w)
            <4>1. {v \in Workers : pc'[v] \in Handling} = {v \in Workers : pc[v] \in Handling}
                BY <3>2 DEF Restart, TypeOK, Handling
            <4>. QED
                BY <3>2, <4>1 DEF Restart, Copies
        <3>3. CASE Deliver(w)
            BY <3>3, DeliverCopies
        <3>. QED
            BY <1>4, <3>1, <3>2, <3>3
    <2>. QED
        BY <1>a, <2>1, <2>2 DEF LedgerVars
<1>5. ASSUME NEW w \in Workers,
             \/ PublishDeadLetter(w) \/ PublishWaiting(w) \/ Execute(w) \/ PublishResult(w)
             \/ \E d \in Decisions : Gate(w, d)
      PROVE  UNCHANGED LedgerVars \/ \E t \in Tasks : Ledger!Answer(t) \/ Ledger!Park(t)
    <2>1. /\ pc[w] \in Handling /\ UNCHANGED <<taskQ, waitQ, held>>
          /\ \E step \in Handling : pc' = [pc EXCEPT ![w] = step]
        BY <1>5 DEF PublishDeadLetter, PublishWaiting, Execute, PublishResult, Gate, Handling
    <2>2. Copies' = Copies \cup {}
        BY <2>1, HandlerCopies DEF TypeOK
    <2>3. OpenTasks' = OpenTasks
        BY <1>a, <2>2
    <2>. DEFINE t == held[w].task
    <2>4. t \in Tasks /\ t \in OpenTasks
        BY <2>1, HeldIsCopy DEF OpenTasks
    <2>5. CASE PublishDeadLetter(w)
        <3>1. dlq' = dlq \cup {t} /\ UNCHANGED answered
            BY <2>5 DEF PublishDeadLetter
        <3>2. Ledger!Park(t)
            BY <2>3, <2>4, <3>1 DEF Ledger!Park, OpenTasks
        <3>. QED
            BY <2>4, <3>2
    <2>6. CASE PublishResult(w)
        <3>1. answered' = answered \cup {t} /\ UNCHANGED dlq
            BY <2>6 DEF PublishResult
        <3>2. Ledger!Answer(t)
            BY <2>3, <2>4, <3>1 DEF Ledger!Answer, OpenTasks
        <3>. QED
            BY <2>4, <3>2
    <2>7. CASE PublishWaiting(w) \/ Execute(w) \/ \E d \in Decisions : Gate(w, d)
        <3>1. UNCHANGED <<dlq, answered>>
            BY <2>7 DEF PublishWaiting, Execute, Gate
        <3>. QED
            BY <2>3, <3>1 DEF LedgerVars
    <2>. QED
        BY <1>5, <2>5, <2>6, <2>7
<1>6. ASSUME NEW w \in Workers, PublishRetry(w) \/ Reschedule(w)
      PROVE  UNCHANGED LedgerVars
    <2>1. /\ pc[w] \in Handling /\ UNCHANGED <<held, dlq, answered>>
          /\ pc' = [pc EXCEPT ![w] = "ack"]
        BY <1>6 DEF PublishRetry, Reschedule, Handling
    <2>2. held[w] \in Copies /\ held[w] \in Message
        BY <2>1, HeldIsCopy
    <2>3. PICK n \in Message :
             /\ n.task = held[w].task
             /\ \/ taskQ' = Append(taskQ, n) /\ waitQ' = waitQ
                \/ waitQ' = Append(waitQ, n) /\ taskQ' = taskQ
        BY <1>6, <2>2, CopyTypes DEF PublishRetry, Reschedule
    <2>4. ToSet(taskQ') \cup ToSet(waitQ') = ToSet(taskQ) \cup ToSet(waitQ) \cup {n}
        <3>1. taskQ \in Seq(Message) /\ waitQ \in Seq(Message)
            BY DEF TypeOK
        <3>2. CASE taskQ' = Append(taskQ, n) /\ waitQ' = waitQ
            <4>1. ToSet(taskQ') = ToSet(taskQ) \cup {n}
                BY <3>1, <3>2, ToSetAppend
            <4>. QED
                BY <3>2, <4>1
        <3>3. CASE waitQ' = Append(waitQ, n) /\ taskQ' = taskQ
            <4>1. ToSet(waitQ') = ToSet(waitQ) \cup {n}
                BY <3>1, <3>3, ToSetAppend
            <4>. QED
                BY <3>3, <4>1
        <3>. QED
            BY <2>3, <3>2, <3>3
    <2>5. Copies' = Copies \cup {n}
        <3>1. pc'[w] \in Handling /\ \A v \in Workers : v # w => pc'[v] = pc[v]
            BY <2>1 DEF TypeOK, Handling
        <3>. QED
            BY <2>1, <2>4, <3>1, HandlerCopies
    <2>6. OpenTasks' = OpenTasks
        BY <2>2, <2>3, <2>5, SameOpen
    <2>. QED
        BY <2>1, <2>6 DEF LedgerVars
<1>7. ASSUME NEW w \in Workers, Ack(w) \/ ExitDisconnected(w)
      PROVE  UNCHANGED LedgerVars \/ \E t \in Tasks : Ledger!Close(t)
    BY <1>7, CloseStep
<1>8. ASSUME NEW w \in Workers, Crash(w) \/ PoisonCrash(w) \/ Disconnect(w)
      PROVE  UNCHANGED LedgerVars
    <2>1. PICK n \in Copies' :
             /\ n.task = held[w].task
             /\ Copies' \subseteq Copies \cup {n} /\ Copies \subseteq Copies' \cup {held[w]}
        BY <1>8, RequeueCopies
    <2>2. held[w] \in Copies
        BY <1>8, RequeueCopies, HeldIsCopy
    <2>3. OpenTasks' = OpenTasks
        BY <2>1, <2>2, SameOpen
    <2>4. UNCHANGED <<dlq, answered>>
        BY <1>8 DEF Crash, PoisonCrash, Disconnect
    <2>. QED
        BY <2>3, <2>4 DEF LedgerVars
<1>. QED
    BY <1>1, <1>2, <1>3, <1>4, <1>5, <1>6, <1>7, <1>8 DEF Next, Handle, Fail, Ledger!Next

-------------------------------------------------------------------------------
(* How often a task runs: the copies of a task are counted, with the handlers  *)
(* that hold one.                                                              *)

\* Where a queue holds copies of a task.
At(s, t) == {n \in 1 .. Len(s) : s[n].task = t}
Count(s, t) == Cardinality(At(s, t))
One(b) == IF b THEN 1 ELSE 0

\* A queue holds finitely many.
LEMMA CountType ==
    ASSUME NEW S, NEW s \in Seq(S), NEW t
    PROVE  IsFiniteSet(At(s, t)) /\ Count(s, t) \in Nat
<1>1. Len(s) \in Nat /\ IsFiniteSet(1 .. Len(s))
    BY FS_Interval
<1>2. At(s, t) \in SUBSET (1 .. Len(s))
    BY DEF At
<1>. QED
    BY <1>1, <1>2, FS_Subset, FS_CardinalityType DEF Count

\* An entry at the tail counts once.
LEMMA CountAppend ==
    ASSUME NEW S, NEW s \in Seq(S), NEW e \in S, NEW t
    PROVE  Count(Append(s, e), t) = Count(s, t) + One(e.task = t)
<1>. DEFINE n == Len(s)
<1>1. /\ n \in Nat /\ Len(Append(s, e)) = n + 1 /\ Append(s, e)[n + 1] = e
      /\ \A k \in 1 .. n : Append(s, e)[k] = s[k]
    OBVIOUS
<1>2. IsFiniteSet(At(s, t)) /\ Count(s, t) \in Nat
    BY CountType
<1>3. CASE e.task = t
    <2>1. At(Append(s, e), t) = At(s, t) \cup {n + 1}
        BY <1>1, <1>3 DEF At
    <2>2. n + 1 \notin At(s, t)
        BY <1>1 DEF At
    <2>. QED
        BY <1>2, <1>3, <2>1, <2>2, FS_AddElement DEF Count, One
<1>4. CASE e.task # t
    <2>1. At(Append(s, e), t) = At(s, t)
        BY <1>1, <1>4 DEF At
    <2>. QED
        BY <1>2, <1>4, <2>1 DEF Count, One
<1>. QED
    BY <1>3, <1>4

\* Shifting all the positions of a set changes their number not.
LEMMA ShiftCount ==
    ASSUME NEW A \in SUBSET Nat, IsFiniteSet(A)
    PROVE  LET B == {k + 1 : k \in A} IN IsFiniteSet(B) /\ Cardinality(B) = Cardinality(A)
<1>. DEFINE B == {k + 1 : k \in A}
            f == [k \in A |-> k + 1]
<1>1. f \in Bijection(A, B)
    <2>1. f \in [A -> B]
        OBVIOUS
    <2>2. \A b \in B : \E a \in A : f[a] = b
        OBVIOUS
    <2>3. \A a, b \in A : f[a] = f[b] => a = b
        OBVIOUS
    <2>. QED
        BY <2>1, <2>2, <2>3 DEF Bijection, Injection, Surjection, IsInjective
<1>2. ExistsBijection(A, B)
    BY <1>1 DEF ExistsBijection
<1>. QED
    BY <1>2, FS_Bijection

\* A requeue at the head counts once.
LEMMA CountPush ==
    ASSUME NEW S, NEW s \in Seq(S), NEW e \in S, NEW t
    PROVE  Count(<<e>> \o s, t) = Count(s, t) + One(e.task = t)
<1>. DEFINE n == Len(s)
            q == <<e>> \o s
            B == {k + 1 : k \in At(s, t)}
<1>1. /\ n \in Nat /\ Len(q) = n + 1 /\ q[1] = e
      /\ \A k \in 1 .. n : q[k + 1] = s[k]
    OBVIOUS
<1>. HIDE DEF q
<1>2. IsFiniteSet(At(s, t)) /\ Count(s, t) \in Nat /\ At(s, t) \in SUBSET Nat
    BY CountType DEF At
<1>3. IsFiniteSet(B) /\ Cardinality(B) = Count(s, t)
    BY <1>2, ShiftCount DEF Count
<1>4. 1 \notin B /\ B \subseteq 2 .. n + 1
    BY <1>1 DEF At
<1>5. B = {k \in 2 .. n + 1 : q[k].task = t}
    <2>1. B \subseteq {k \in 2 .. n + 1 : q[k].task = t}
        BY <1>1, <1>4 DEF At
    <2>2. ASSUME NEW k \in 2 .. n + 1, q[k].task = t
          PROVE  k \in B
        <3>1. k - 1 \in 1 .. n /\ k = (k - 1) + 1
            BY <1>1
        <3>2. k - 1 \in At(s, t)
            BY <1>1, <2>2, <3>1 DEF At
        <3>. QED
            BY <3>1, <3>2
    <2>. QED
        BY <2>1, <2>2
<1>. HIDE DEF B
<1>6. At(q, t) = {k \in 1 .. n + 1 : q[k].task = t}
    BY <1>1 DEF At
<1>7. CASE e.task = t
    <2>1. At(q, t) = B \cup {1}
        BY <1>1, <1>5, <1>6, <1>7
    <2>2. Cardinality(B \cup {1}) = Cardinality(B) + 1
        BY <1>3, <1>4, FS_AddElement
    <2>. QED
        BY <1>3, <1>7, <2>1, <2>2 DEF Count, One, q
<1>8. CASE e.task # t
    <2>1. At(q, t) = B
        BY <1>1, <1>5, <1>6, <1>8
    <2>. QED
        BY <1>2, <1>3, <1>8, <2>1 DEF Count, One, q
<1>. QED
    BY <1>7, <1>8

\* Taking the head away.
LEMMA CountTail ==
    ASSUME NEW S, NEW s \in Seq(S), s # <<>>, NEW t
    PROVE  Count(s, t) = Count(Tail(s), t) + One(Head(s).task = t)
<1>1. Head(s) \in S /\ Tail(s) \in Seq(S) /\ s = <<Head(s)>> \o Tail(s)
    <2>1. Len(s) \in Nat \ {0} /\ Head(s) = s[1] /\ Head(s) \in S /\ Tail(s) \in Seq(S)
          /\ Len(Tail(s)) = Len(s) - 1 /\ \A k \in 1 .. Len(s) - 1 : Tail(s)[k] = s[k + 1]
        OBVIOUS
    <2>2. Len(<<Head(s)>> \o Tail(s)) = Len(s)
        BY <2>1
    <2>3. ASSUME NEW k \in 1 .. Len(s)
          PROVE  s[k] = (<<Head(s)>> \o Tail(s))[k]
        <3>1. CASE k = 1
            BY <2>1, <3>1
        <3>2. CASE k # 1
            <4>1. k - 1 \in 1 .. Len(s) - 1 /\ (k - 1) + 1 = k
                BY <2>1, <3>2
            <4>. QED
                BY <2>1, <4>1
        <3>. QED
            BY <3>1, <3>2
    <2>4. <<Head(s)>> \o Tail(s) \in Seq(S)
        BY <2>1
    <2>. QED
        <3>. DEFINE q == <<Head(s)>> \o Tail(s)
        <3>1. q \in Seq(S) /\ Len(q) = Len(s) /\ \A k \in 1 .. Len(s) : s[k] = q[k]
            BY <2>2, <2>3, <2>4
        <3>. HIDE DEF q
        <3>2. s = q
            BY <2>1, <3>1
        <3>. QED
            BY <2>1, <3>2 DEF q
<1>2. PICK h \in S, r \in Seq(S) : h = Head(s) /\ r = Tail(s) /\ s = <<h>> \o r
    BY <1>1
<1>3. Count(<<h>> \o r, t) = Count(r, t) + One(h.task = t)
    BY CountPush
<1>. QED
    BY <1>2, <1>3, Zenon

\* The handlers of a task at certain points, and with the queued copies its load:
\* the copies that were not run yet, and those that may still be answered.
Busy(S, t) == {w \in Workers : pc[w] \in S /\ held[w].task = t}
Load(S, t) == Count(taskQ, t) + Count(waitQ, t) + Cardinality(Busy(S, t))
Unrun == {"deadletter", "backoff", "gate", "announce", "reschedule"}
Unanswered == Unrun \cup {"execute", "answer"}

\* The strengthening of ExecutionsArePaid: an execution uses a copy up, and copies
\* only multiply by disruptions.  The same holds of answers, except that they are
\* a set.
Paid(t) ==
    /\ IsFiniteSet(Busy(Handling, t))
    /\ attempts[t] + Load(Unrun, t) <= 1 + disruptions[t]
    /\ One(t \in answered) + Load(Unanswered, t) <= 1 + disruptions[t]
    /\ t \notin published => attempts[t] = 0
CountInv == \A t \in Tasks : Paid(t)

Points == {Unrun, Unanswered}

\* Both kinds of points are of a handler at work, before its ack.
LEMMA PointsAre ==
    ASSUME NEW S \in Points
    PROVE  /\ Unrun \subseteq S /\ S \subseteq Handling
           /\ {"ack", "idle", "down"} \cap S = {}
           /\ "execute" \in S <=> S = Unanswered
           /\ "answer" \in S <=> S = Unanswered
BY DEF Points, Unrun, Unanswered, Handling

\* Loads are numbers.
LEMMA LoadType ==
    ASSUME TypeOK, CountInv, NEW t \in Tasks, NEW S \in Points
    PROVE  /\ IsFiniteSet(Busy(S, t)) /\ Cardinality(Busy(S, t)) \in Nat
           /\ Count(taskQ, t) \in Nat /\ Count(waitQ, t) \in Nat /\ Load(S, t) \in Nat
<1>1. Count(taskQ, t) \in Nat /\ Count(waitQ, t) \in Nat
    BY CountType DEF TypeOK
<1>2. Busy(S, t) \in SUBSET Busy(Handling, t)
    BY PointsAre DEF Busy
<1>3. IsFiniteSet(Busy(S, t)) /\ Cardinality(Busy(S, t)) \in Nat
    BY <1>2, FS_Subset, FS_CardinalityType DEF CountInv, Paid
<1>. QED
    BY <1>1, <1>3 DEF Load

\* One worker moves: the set of busy ones changes by it at most.
LEMMA BusyMove ==
    ASSUME NEW w \in Workers, \A v \in Workers : v # w => pc'[v] = pc[v] /\ held'[v] = held[v],
           NEW t, NEW S, IsFiniteSet(Busy(S, t))
    PROVE  /\ IsFiniteSet(Busy(S, t)')
           /\ Cardinality(Busy(S, t)) \in Nat /\ Cardinality(Busy(S, t)') \in Nat
           /\ Cardinality(Busy(S, t)') = Cardinality(Busy(S, t))
                  - One(pc[w] \in S /\ held[w].task = t) + One(pc'[w] \in S /\ held'[w].task = t)
<1>. PICK B : B = Busy(S, t)
    OBVIOUS
<1>. PICK C : C = Busy(S, t)'
    OBVIOUS
<1>1. B \ {w} = C \ {w}
    BY DEF Busy
<1>2. (w \in B <=> pc[w] \in S /\ held[w].task = t) /\ (w \in C <=> pc'[w] \in S /\ held'[w].task = t)
    BY DEF Busy
<1>3. /\ IsFiniteSet(B \ {w}) /\ Cardinality(B) \in Nat /\ Cardinality(B \ {w}) \in Nat
      /\ Cardinality(B \ {w}) = Cardinality(B) - One(w \in B)
    <2>1. IsFiniteSet(B) /\ IsFiniteSet(B \ {w})
        BY FS_RemoveElement
    <2>. QED
        BY <2>1, FS_RemoveElement, FS_CardinalityType DEF One
<1>4. /\ IsFiniteSet(C) /\ Cardinality(C) \in Nat
      /\ Cardinality(C) = Cardinality(B \ {w}) + One(w \in C)
    <2>1. CASE w \in C
        <3>1. C = (B \ {w}) \cup {w} /\ w \notin B \ {w}
            BY <1>1, <2>1
        <3>. QED
            BY <1>3, <2>1, <3>1, FS_AddElement, FS_CardinalityType DEF One
    <2>2. CASE w \notin C
        <3>1. C = B \ {w}
            BY <1>1, <2>2
        <3>. QED
            BY <1>3, <2>2, <3>1 DEF One
    <2>. QED
        BY <2>1, <2>2
<1>5. Cardinality(C) = Cardinality(B) - One(w \in B) + One(w \in C)
    BY <1>3, <1>4 DEF One
<1>. QED
    BY <1>2, <1>3, <1>4, <1>5, Zenon DEF One

\* A task that was not published has no load.
LEMMA NoLoad ==
    ASSUME TypeOK, ControlOK, CopyInv, NEW t \in Tasks \ published, NEW S \in Points
    PROVE  Load(S, t) = 0
<1>1. \A m \in Copies : m.task # t
    BY DEF CopyInv, Fine
<1>2. At(taskQ, t) = {} /\ At(waitQ, t) = {}
    <2>1. taskQ \in Seq(Message) /\ waitQ \in Seq(Message)
        BY DEF TypeOK
    <2>2. \A n \in 1 .. Len(taskQ) : taskQ[n] \in Copies
        BY <2>1 DEF Copies, ToSet
    <2>3. \A n \in 1 .. Len(waitQ) : waitQ[n] \in Copies
        BY <2>1 DEF Copies, ToSet
    <2>. QED
        BY <1>1, <2>2, <2>3 DEF At
<1>3. Busy(S, t) = {}
    <2>1. \A w \in Workers : pc[w] \in Handling => held[w] \in Copies
        BY DEF Copies
    <2>. QED
        BY <1>1, <2>1, PointsAre DEF Busy
<1>. QED
    BY <1>2, <1>3, FS_EmptySet DEF Load, Count

\* What the move of one worker makes of a load.
LEMMA LoadMove ==
    ASSUME TypeOK, TypeOK', CountInv, NEW w \in Workers,
           \A v \in Workers : v # w => pc'[v] = pc[v] /\ held'[v] = held[v],
           NEW t \in Tasks
    PROVE  /\ IsFiniteSet(Busy(Handling, t)')
           /\ \A S \in Points :
                /\ Load(S, t) \in Nat /\ Load(S, t)' \in Nat
                /\ Load(S, t)' = Load(S, t)
                      + (Count(taskQ, t)' - Count(taskQ, t)) + (Count(waitQ, t)' - Count(waitQ, t))
                      - One(pc[w] \in S /\ held[w].task = t) + One(pc'[w] \in S /\ held'[w].task = t)
                /\ Count(taskQ, t) \in Nat /\ Count(taskQ, t)' \in Nat
                /\ Count(waitQ, t) \in Nat /\ Count(waitQ, t)' \in Nat
<1>1. IsFiniteSet(Busy(Handling, t)')
    BY BusyMove DEF CountInv, Paid
<1>. SUFFICES ASSUME NEW S \in Points
     PROVE    /\ Load(S, t) \in Nat /\ Load(S, t)' \in Nat
              /\ Load(S, t)' = Load(S, t)
                    + (Count(taskQ, t)' - Count(taskQ, t)) + (Count(waitQ, t)' - Count(waitQ, t))
                    - One(pc[w] \in S /\ held[w].task = t) + One(pc'[w] \in S /\ held'[w].task = t)
              /\ Count(taskQ, t) \in Nat /\ Count(taskQ, t)' \in Nat
              /\ Count(waitQ, t) \in Nat /\ Count(waitQ, t)' \in Nat
    BY <1>1
<1>2. /\ IsFiniteSet(Busy(S, t)) /\ Cardinality(Busy(S, t)) \in Nat
      /\ Count(taskQ, t) \in Nat /\ Count(waitQ, t) \in Nat /\ Load(S, t) \in Nat
    BY LoadType
<1>3. Count(taskQ', t) \in Nat /\ Count(waitQ', t) \in Nat
    BY CountType DEF TypeOK
<1>4. /\ Cardinality(Busy(S, t)') \in Nat
      /\ Cardinality(Busy(S, t)') = Cardinality(Busy(S, t))
             - One(pc[w] \in S /\ held[w].task = t) + One(pc'[w] \in S /\ held'[w].task = t)
    BY <1>2, BusyMove
<1>5. One(pc[w] \in S /\ held[w].task = t) \in Nat /\ One(pc'[w] \in S /\ held'[w].task = t) \in Nat
    BY DEF One
<1>. QED
    BY <1>2, <1>3, <1>4, <1>5 DEF Load

\* A step in which no worker takes, keeps or gives up a message otherwise than before.
LEMMA LoadStill ==
    ASSUME TypeOK, TypeOK', CountInv, UNCHANGED <<pc, held>>, NEW t \in Tasks
    PROVE  /\ IsFiniteSet(Busy(Handling, t)')
           /\ \A S \in Points :
                /\ Load(S, t) \in Nat /\ Load(S, t)' \in Nat
                /\ Load(S, t)' = Load(S, t)
                      + (Count(taskQ, t)' - Count(taskQ, t)) + (Count(waitQ, t)' - Count(waitQ, t))
                /\ Count(taskQ, t) \in Nat /\ Count(taskQ, t)' \in Nat
                /\ Count(waitQ, t) \in Nat /\ Count(waitQ, t)' \in Nat
<1>1. \A S : Busy(S, t)' = Busy(S, t)
    BY DEF Busy
<1>2. IsFiniteSet(Busy(Handling, t)')
    BY <1>1 DEF CountInv, Paid
<1>3. ASSUME NEW S \in Points
      PROVE  /\ Load(S, t) \in Nat /\ Load(S, t)' \in Nat
             /\ Load(S, t)' = Load(S, t)
                   + (Count(taskQ, t)' - Count(taskQ, t)) + (Count(waitQ, t)' - Count(waitQ, t))
             /\ Count(taskQ, t) \in Nat /\ Count(taskQ, t)' \in Nat
             /\ Count(waitQ, t) \in Nat /\ Count(waitQ, t)' \in Nat
    <2>1. /\ Cardinality(Busy(S, t)) \in Nat
          /\ Count(taskQ, t) \in Nat /\ Count(waitQ, t) \in Nat /\ Load(S, t) \in Nat
        BY LoadType
    <2>2. Count(taskQ', t) \in Nat /\ Count(waitQ', t) \in Nat
        BY CountType DEF TypeOK
    <2>3. Cardinality(Busy(S, t)') = Cardinality(Busy(S, t))
        BY <1>1
    <2>. QED
        BY <2>1, <2>2, <2>3 DEF Load
<1>. QED
    BY <1>2, <1>3

\* A step that adds no more to a task's runs and load than to its disruptions.
LEMMA PaidCarry ==
    ASSUME NEW t \in Tasks, TypeOK, TypeOK', CountInv, IsFiniteSet(Busy(Handling, t)'),
           \A S \in Points : Load(S, t) \in Nat /\ Load(S, t)' \in Nat,
           (attempts'[t] - attempts[t]) + (Load(Unrun, t)' - Load(Unrun, t))
               <= disruptions'[t] - disruptions[t],
           (One(t \in answered') - One(t \in answered))
               + (Load(Unanswered, t)' - Load(Unanswered, t))
               <= disruptions'[t] - disruptions[t],
           published \subseteq published',
           attempts'[t] # attempts[t] => t \in published
    PROVE  Paid(t)'
<1>1. /\ attempts[t] \in Nat /\ attempts'[t] \in Nat
      /\ disruptions[t] \in Nat /\ disruptions'[t] \in Nat
    BY DEF TypeOK
<1>2. One(t \in answered) \in Nat /\ One(t \in answered') \in Nat
    BY DEF One
<1>3. /\ Load(Unrun, t) \in Nat /\ Load(Unrun, t)' \in Nat
      /\ Load(Unanswered, t) \in Nat /\ Load(Unanswered, t)' \in Nat
    BY DEF Points
<1>4. /\ attempts[t] + Load(Unrun, t) <= 1 + disruptions[t]
      /\ One(t \in answered) + Load(Unanswered, t) <= 1 + disruptions[t]
      /\ t \notin published => attempts[t] = 0
    BY DEF CountInv, Paid
<1>5. attempts'[t] + Load(Unrun, t)' <= 1 + disruptions'[t]
    BY <1>1, <1>3, <1>4
<1>6. One(t \in answered') + Load(Unanswered, t)' <= 1 + disruptions'[t]
    BY <1>1, <1>2, <1>3, <1>4
<1>7. t \notin published' => attempts'[t] = 0
    BY <1>4
<1>. QED
    BY <1>5, <1>6, <1>7 DEF Paid

\* A step that adds nothing to it.
LEMMA PaidSame ==
    ASSUME NEW t \in Tasks, TypeOK, TypeOK', CountInv, IsFiniteSet(Busy(Handling, t)'),
           \A S \in Points : /\ Load(S, t) \in Nat /\ Load(S, t)' \in Nat
                             /\ Load(S, t)' <= Load(S, t),
           published \subseteq published',
           UNCHANGED <<attempts, answered, disruptions>>
    PROVE  Paid(t)'
<1>1. attempts[t] \in Nat /\ disruptions[t] \in Nat /\ One(t \in answered) \in Nat
    BY DEF TypeOK, One
<1>2. /\ Load(Unrun, t)' - Load(Unrun, t) <= 0 /\ Load(Unanswered, t)' - Load(Unanswered, t) <= 0
      /\ Load(Unrun, t) \in Nat /\ Load(Unanswered, t) \in Nat
      /\ Load(Unrun, t)' \in Nat /\ Load(Unanswered, t)' \in Nat
    BY DEF Points
<1>3. /\ (attempts'[t] - attempts[t]) + (Load(Unrun, t)' - Load(Unrun, t))
             <= disruptions'[t] - disruptions[t]
      /\ (One(t \in answered') - One(t \in answered))
             + (Load(Unanswered, t)' - Load(Unanswered, t))
             <= disruptions'[t] - disruptions[t]
    BY <1>1, <1>2
<1>. QED
    BY <1>3, PaidCarry

\* Every step keeps the counts: one case per action.
LEMMA NextCount ==
    TypeOK /\ ControlOK /\ CopyInv /\ CountInv /\ [Next]_vars => CountInv'
<1>. SUFFICES ASSUME TypeOK, ControlOK, CopyInv, CountInv, [Next]_vars, NEW t \in Tasks
              PROVE  Paid(t)'
    BY DEF CountInv
<1>. USE DEF brokerVars, workerVars, historyVars
<1>0. TypeOK' /\ ControlOK'
    BY NextType
<1>q. taskQ \in Seq(Message) /\ waitQ \in Seq(Message)
    BY DEF TypeOK
<1>n. /\ attempts[t] \in Nat /\ disruptions[t] \in Nat
      /\ One(t \in answered) \in Nat
    BY DEF TypeOK, One
<1>p. Unrun \in Points /\ Unanswered \in Points
    BY DEF Points
<1>1. ASSUME NEW u \in Tasks, PublishTask(u)
      PROVE  Paid(t)'
    <2>1. NewMessage(u) \in Message /\ NewMessage(u).task = u
        BY DEF NewMessage, Message
    <2>2. /\ taskQ' = Append(taskQ, NewMessage(u)) /\ published' = published \cup {u}
          /\ u \notin published
          /\ UNCHANGED <<waitQ, pc, held, answered, attempts, disruptions>>
        BY <1>1 DEF PublishTask
    <2>3. Count(taskQ', t) = Count(taskQ, t) + One(u = t) /\ Count(waitQ', t) = Count(waitQ, t)
        BY <1>q, <2>1, <2>2, CountAppend
    <2>0. One(u = t) \in Nat
        BY DEF One
    <2>4. /\ IsFiniteSet(Busy(Handling, t)')
          /\ \A S \in Points :
                /\ Load(S, t) \in Nat /\ Load(S, t)' \in Nat
                /\ Load(S, t)' = Load(S, t) + One(u = t)
        BY <1>0, <2>0, <2>2, <2>3, LoadStill
    <2>5. CASE u = t
        <3>1. \A S \in Points : Load(S, t)' = 1
            BY <2>2, <2>4, <2>5, NoLoad DEF One
        <3>2. attempts[t] = 0 /\ t \notin answered
            BY <2>2, <2>5 DEF CountInv, Paid, CopyInv
        <3>. QED
            BY <1>n, <1>p, <2>2, <2>4, <2>5, <3>1, <3>2 DEF Paid, One
    <2>6. CASE u # t
        <3>1. \A S \in Points : Load(S, t)' = Load(S, t)
            BY <2>4, <2>6 DEF One
        <3>. QED
            BY <1>0, <2>2, <2>4, <3>1, PaidSame
    <2>. QED
        BY <2>5, <2>6
<1>2. ASSUME TakeResult \/ UNCHANGED vars \/ \E w \in Workers : TakeTrigger(w)
      PROVE  Paid(t)'
    <2>1. UNCHANGED <<taskQ, waitQ, pc, held, published, answered, attempts, disruptions>>
        BY <1>2 DEF TakeResult, TakeTrigger, vars
    <2>2. /\ IsFiniteSet(Busy(Handling, t)')
          /\ \A S \in Points :
                Load(S, t) \in Nat /\ Load(S, t)' \in Nat /\ Load(S, t)' = Load(S, t)
        BY <1>0, <2>1, LoadStill
    <2>. QED
        BY <1>0, <2>1, <2>2, PaidSame
<1>3. CASE Expire
    <2>. DEFINE m == Head(waitQ)  n == [Head(waitQ) EXCEPT !.redelivered = FALSE]
    <2>1. m \in Message /\ waitQ' = Tail(waitQ) /\ taskQ' = Append(taskQ, n) /\ waitQ # <<>>
          /\ UNCHANGED <<pc, held, published, answered, attempts, disruptions>>
        BY <1>3, <1>q, ToSetTail DEF Expire
    <2>2. n \in Message /\ n.task = m.task
        BY <2>1 DEF Message
    <2>3. /\ Count(taskQ', t) = Count(taskQ, t) + One(m.task = t)
          /\ Count(waitQ, t) = Count(waitQ', t) + One(m.task = t)
        <3>1. Count(waitQ, t) = Count(Tail(waitQ), t) + One(m.task = t)
            BY <1>q, <2>1, CountTail
        <3>2. PICK k \in Message : k = n
            BY <2>2
        <3>3. Count(Append(taskQ, k), t) = Count(taskQ, t) + One(k.task = t)
            BY <1>q, CountAppend
        <3>. HIDE DEF m, n
        <3>. QED
            BY <2>1, <2>2, <3>1, <3>2, <3>3
    <2>4. One(m.task = t) \in {0, 1}
        BY DEF One
    <2>. HIDE DEF m, n
    <2>5. /\ IsFiniteSet(Busy(Handling, t)')
          /\ \A S \in Points :
                Load(S, t) \in Nat /\ Load(S, t)' \in Nat /\ Load(S, t)' = Load(S, t)
        BY <1>0, <2>1, <2>3, <2>4, LoadStill
    <2>. QED
        BY <1>0, <2>1, <2>5, PaidSame
<1>4. ASSUME NEW w \in Workers, Deliver(w)
      PROVE  Paid(t)'
    <2>. DEFINE m == Head(taskQ)  step == FirstStep(m)
    <2>1. m \in Message /\ taskQ' = Tail(taskQ) /\ taskQ # <<>> /\ pc[w] = "idle"
          /\ pc' = [pc EXCEPT ![w] = step] /\ held' = [held EXCEPT ![w] = m]
          /\ attempts' = (IF step = "execute" THEN [attempts EXCEPT ![m.task] = @ + 1] ELSE attempts)
          /\ UNCHANGED <<waitQ, published, answered, disruptions>>
        BY <1>4, <1>q, ToSetTail DEF Deliver, Begin
    <2>2. Count(taskQ, t) = Count(taskQ', t) + One(m.task = t)
        BY <1>q, <2>1, CountTail
    <2>3. step \in {"deadletter", "backoff", "gate", "execute"} /\ m.task \in Tasks
        BY <2>1, FirstStepControl DEF Message
    <2>4. m.task \in published
        <3>1. m \in Copies
            BY <1>q, <2>1, ToSetTail DEF Copies
        <3>. QED
            BY <3>1 DEF CopyInv, Fine
    <2>. HIDE DEF m, step
    <2>5. pc'[w] = step /\ held'[w] = m /\ \A v \in Workers : v # w => pc'[v] = pc[v] /\ held'[v] = held[v]
        BY <2>1 DEF TypeOK
    <2>6. /\ IsFiniteSet(Busy(Handling, t)')
          /\ \A S \in Points :
                /\ Load(S, t) \in Nat /\ Load(S, t)' \in Nat
                /\ Load(S, t)' = Load(S, t)
                      + (Count(taskQ', t) - Count(taskQ, t)) + (Count(waitQ, t) - Count(waitQ, t))
                      - One(pc[w] \in S /\ held[w].task = t) + One(step \in S /\ m.task = t)
                /\ Count(taskQ, t) \in Nat /\ Count(taskQ', t) \in Nat
                /\ Count(waitQ, t) \in Nat
        BY <1>0, <2>1, <2>5, LoadMove
    <2>7. /\ \A S \in Points : pc[w] \notin S
          /\ step \in Unanswered
          /\ step \in Unrun <=> step # "execute"
        BY <2>1, <2>3 DEF Points, Unrun, Unanswered
    <2>8. CASE m.task # t
        <3>1. \A S \in Points : Load(S, t)' = Load(S, t)
            BY <2>2, <2>6, <2>7, <2>8 DEF One
        <3>2. attempts'[t] = attempts[t]
            BY <2>1, <2>3, <2>8 DEF TypeOK
        <3>. QED
            <4>1. /\ One(t \in answered') - One(t \in answered) = 0
                  /\ attempts'[t] - attempts[t] = 0 /\ disruptions'[t] - disruptions[t] = 0
                  /\ Load(Unrun, t)' - Load(Unrun, t) = 0
                  /\ Load(Unanswered, t)' - Load(Unanswered, t) = 0
                BY <1>n, <1>p, <2>1, <2>6, <3>1, <3>2
            <4>2. /\ (attempts'[t] - attempts[t]) + (Load(Unrun, t)' - Load(Unrun, t))
                        <= disruptions'[t] - disruptions[t]
                  /\ (One(t \in answered') - One(t \in answered))
                        + (Load(Unanswered, t)' - Load(Unanswered, t))
                        <= disruptions'[t] - disruptions[t]
                BY <4>1
            <4>3. published \subseteq published'
                BY <2>1
            <4>. QED
                BY <1>0, <2>6, <3>2, <4>2, <4>3, PaidCarry
    <2>9. CASE m.task = t
        <3>1. /\ Load(Unanswered, t)' = Load(Unanswered, t)
              /\ Load(Unrun, t)' = Load(Unrun, t) - One(step = "execute")
            BY <1>p, <2>2, <2>6, <2>7, <2>9 DEF One
        <3>2. attempts'[t] = attempts[t] + One(step = "execute")
            BY <1>n, <2>1, <2>3, <2>9 DEF TypeOK, One
        <3>3. One(step = "execute") \in {0, 1}
            BY DEF One
        <3>4. /\ (attempts'[t] - attempts[t]) + (Load(Unrun, t)' - Load(Unrun, t)) = 0
              /\ (One(t \in answered') - One(t \in answered))
                    + (Load(Unanswered, t)' - Load(Unanswered, t)) = 0
              /\ disruptions'[t] - disruptions[t] = 0
            <4>1. /\ Load(Unrun, t) \in Nat /\ Load(Unanswered, t) \in Nat
                  /\ answered' = answered /\ disruptions' = disruptions
                BY <1>p, <2>1, <2>6
            <4>. QED
                BY <1>n, <3>1, <3>2, <3>3, <4>1
        <3>. QED
            BY <1>0, <2>1, <2>4, <2>6, <2>9, <3>4, PaidCarry
    <2>. QED
        BY <2>8, <2>9
<1>5. ASSUME NEW w \in Workers,
             \/ PublishDeadLetter(w) \/ PublishWaiting(w) \/ Execute(w) \/ PublishResult(w)
             \/ \E d \in Decisions : Gate(w, d)
      PROVE  Paid(t)'
    <2>. PICK h : h = held[w]
        OBVIOUS
    <2>1. PICK old, step :
             /\ pc[w] = old /\ old \in Handling /\ step \in Handling
             /\ pc' = [pc EXCEPT ![w] = step] /\ UNCHANGED <<taskQ, waitQ, held, published, disruptions>>
             /\ attempts' = IF old = "gate" /\ step = "execute"
                            THEN [attempts EXCEPT ![h.task] = @ + 1] ELSE attempts
             /\ answered' = IF old = "answer" THEN answered \cup {h.task} ELSE answered
             /\ \/ old \in {"deadletter", "answer"} /\ step = "ack"
                \/ old = "announce" /\ step = "reschedule"
                \/ old = "execute" /\ step = "answer"
                \/ old = "gate" /\ step \in {"execute", "answer", "announce"}
        <3>1. ASSUME NEW d \in Decisions, Gate(w, d)
              PROVE  \E step \in {"execute", "answer", "announce"} :
                        pc' = [pc EXCEPT ![w] = step] /\ Begin(held[w].task, step)
            BY <3>1 DEF Gate
        <3>2. CASE \E d \in Decisions : Gate(w, d)
            BY <3>1, <3>2 DEF Gate, Begin, Handling
        <3>3. CASE PublishDeadLetter(w) \/ PublishWaiting(w) \/ Execute(w)
            BY <3>3 DEF PublishDeadLetter, PublishWaiting, Execute, Handling
        <3>4. CASE PublishResult(w)
            BY <3>4 DEF PublishResult, Handling
        <3>. QED
            BY <1>5, <3>2, <3>3, <3>4
    <2>2. pc'[w] = step /\ held'[w] = h /\ \A v \in Workers : v # w => pc'[v] = pc[v] /\ held'[v] = held[v]
        BY <2>1 DEF TypeOK
    <2>3. h \in Copies /\ h.task \in Tasks /\ h.task \in published
        BY <2>1, HeldIsCopy DEF CopyInv, Fine
    <2>4. /\ IsFiniteSet(Busy(Handling, t)')
          /\ \A S \in Points :
                /\ Load(S, t) \in Nat /\ Load(S, t)' \in Nat
                /\ Load(S, t)' = Load(S, t)
                      + (Count(taskQ, t) - Count(taskQ, t)) + (Count(waitQ, t) - Count(waitQ, t))
                      - One(old \in S /\ h.task = t) + One(step \in S /\ h.task = t)
                /\ Count(taskQ, t) \in Nat /\ Count(waitQ, t) \in Nat
        BY <1>0, <2>1, <2>2, LoadMove
    <2>5. CASE h.task # t
        <3>1. \A S \in Points : Load(S, t)' = Load(S, t)
            BY <2>4, <2>5 DEF One
        <3>2. attempts'[t] = attempts[t] /\ (t \in answered' <=> t \in answered)
            BY <2>1, <2>3, <2>5 DEF TypeOK
        <3>3. One(t \in answered') = One(t \in answered)
            BY <3>2 DEF One
        <3>4. \A b \in {One(t \in answered)} : b \in Nat
            BY DEF One
        <3>. QED
            BY <1>0, <1>n, <1>p, <2>1, <2>4, <3>1, <3>2, <3>3, <3>4, PaidCarry
    <2>6. CASE h.task = t
        <3>1. \A S \in Points : Load(S, t)' = Load(S, t) - One(old \in S) + One(step \in S)
            BY <2>4, <2>6 DEF One
        <3>2. /\ attempts'[t] - attempts[t] = One(old = "gate" /\ step = "execute")
              /\ One(t \in answered') - One(t \in answered) <= One(old = "answer")
            BY <1>n, <2>1, <2>6 DEF TypeOK, One
        <3>3. /\ One(old = "gate" /\ step = "execute") - One(old \in Unrun) + One(step \in Unrun) <= 0
              /\ One(old = "answer") - One(old \in Unanswered) + One(step \in Unanswered) <= 0
            BY <2>1 DEF One, Unrun, Unanswered
        <3>5. /\ (attempts'[t] - attempts[t]) + (Load(Unrun, t)' - Load(Unrun, t)) <= 0
              /\ (One(t \in answered') - One(t \in answered))
                    + (Load(Unanswered, t)' - Load(Unanswered, t)) <= 0
              /\ disruptions'[t] - disruptions[t] = 0
            <4>1. attempts'[t] \in Nat
                BY <1>0 DEF TypeOK
            <4>2. /\ Load(Unrun, t)' = Load(Unrun, t) - One(old \in Unrun) + One(step \in Unrun)
                  /\ Load(Unanswered, t)' = Load(Unanswered, t) - One(old \in Unanswered) + One(step \in Unanswered)
                  /\ Load(Unrun, t) \in Nat /\ Load(Unanswered, t) \in Nat
                BY <1>p, <2>4, <3>1
            <4>3. /\ One(old = "gate" /\ step = "execute") \in Nat /\ One(old \in Unrun) \in Nat
                  /\ One(step \in Unrun) \in Nat /\ One(old = "answer") \in Nat
                  /\ One(old \in Unanswered) \in Nat /\ One(step \in Unanswered) \in Nat
                BY DEF One
            <4>4. disruptions' = disruptions /\ One(t \in answered') \in Nat
                BY <2>1 DEF One
            <4>5. (attempts'[t] - attempts[t]) + (Load(Unrun, t)' - Load(Unrun, t)) <= 0
                BY <1>n, <3>2, <3>3, <4>1, <4>2, <4>3
            <4>6. (One(t \in answered') - One(t \in answered))
                      + (Load(Unanswered, t)' - Load(Unanswered, t)) <= 0
                BY <1>n, <3>2, <3>3, <4>2, <4>3, <4>4
            <4>. QED
                BY <1>n, <4>4, <4>5, <4>6
        <3>. QED
            BY <1>0, <2>1, <2>3, <2>4, <2>6, <3>5, PaidCarry
    <2>. QED
        BY <2>5, <2>6
<1>6. ASSUME NEW w \in Workers, PublishRetry(w) \/ Reschedule(w)
      PROVE  Paid(t)'
    <2>. PICK h : h = held[w]
        OBVIOUS
    <2>1. /\ pc[w] \in {"backoff", "reschedule"} /\ pc[w] \in Handling
          /\ pc' = [pc EXCEPT ![w] = "ack"]
          /\ UNCHANGED <<held, answered, published, attempts, disruptions>>
        BY <1>6 DEF PublishRetry, Reschedule, Handling
    <2>2. h \in Message
        BY <2>1, HeldIsCopy
    <2>3. Count(taskQ', t) + Count(waitQ', t) = Count(taskQ, t) + Count(waitQ, t) + One(h.task = t)
        <3>0. Count(taskQ, t) \in Nat /\ Count(waitQ, t) \in Nat /\ One(h.task = t) \in Nat
            BY <1>q, CountType DEF One
        <3>1. CASE PublishRetry(w)
            <4>1. taskQ' = Append(taskQ, RetryCopy(h)) /\ waitQ' = waitQ
                BY <3>1 DEF PublishRetry
            <4>2. Count(taskQ', t) = Count(taskQ, t) + One(h.task = t)
                BY <1>q, <2>2, <4>1, CopyTypes, CountAppend
            <4>. QED
                BY <3>0, <4>1, <4>2
        <3>2. CASE Reschedule(w)
            <4>1. waitQ' = Append(waitQ, WaitCopy(h)) /\ taskQ' = taskQ
                BY <3>2 DEF Reschedule
            <4>2. Count(waitQ', t) = Count(waitQ, t) + One(h.task = t)
                BY <1>q, <2>2, <4>1, CopyTypes, CountAppend
            <4>. QED
                BY <3>0, <4>1, <4>2
        <3>. QED
            BY <1>6, <3>1, <3>2
    <2>4. pc'[w] = "ack" /\ held'[w] = h /\ \A v \in Workers : v # w => pc'[v] = pc[v] /\ held'[v] = held[v]
        BY <2>1 DEF TypeOK
    <2>5. /\ IsFiniteSet(Busy(Handling, t)')
          /\ \A S \in Points :
                /\ Load(S, t) \in Nat /\ Load(S, t)' \in Nat
                /\ Load(S, t)' = Load(S, t)
                      + (Count(taskQ', t) - Count(taskQ, t)) + (Count(waitQ', t) - Count(waitQ, t))
                      - One(pc[w] \in S /\ h.task = t) + One("ack" \in S /\ h.task = t)
                /\ Count(taskQ, t) \in Nat /\ Count(waitQ, t) \in Nat
                /\ Count(taskQ', t) \in Nat /\ Count(waitQ', t) \in Nat
        BY <1>0, <2>4, LoadMove
    <2>6. \A S \in Points : pc[w] \in S /\ "ack" \notin S
        BY <2>1 DEF Points, Unrun, Unanswered
    <2>7. \A S \in Points : Load(S, t)' = Load(S, t)
        BY <2>3, <2>5, <2>6 DEF One
    <2>. QED
        BY <1>0, <2>1, <2>5, <2>7, PaidSame
<1>7. ASSUME NEW w \in Workers, Ack(w) \/ ExitDisconnected(w) \/ Restart(w)
      PROVE  Paid(t)'
    <2>1. /\ UNCHANGED <<taskQ, waitQ, answered, published, attempts, disruptions>>
          /\ \E step \in {"idle", "down"} : pc' = [pc EXCEPT ![w] = step]
          /\ held' = held \/ held' = [held EXCEPT ![w] = NoMessage]
        BY <1>7 DEF Ack, ExitDisconnected, Exit, Restart
    <2>2. pc'[w] \in {"idle", "down"} /\ \A v \in Workers : v # w => pc'[v] = pc[v] /\ held'[v] = held[v]
        BY <2>1 DEF TypeOK
    <2>3. /\ IsFiniteSet(Busy(Handling, t)')
          /\ \A S \in Points :
                /\ Load(S, t) \in Nat /\ Load(S, t)' \in Nat
                /\ Load(S, t)' = Load(S, t)
                      + (Count(taskQ, t) - Count(taskQ, t)) + (Count(waitQ, t) - Count(waitQ, t))
                      - One(pc[w] \in S /\ held[w].task = t) + One(pc'[w] \in S /\ held'[w].task = t)
                /\ Count(taskQ, t) \in Nat /\ Count(waitQ, t) \in Nat
        BY <1>0, <2>1, <2>2, LoadMove
    <2>4. \A S \in Points : pc'[w] \notin S
        BY <2>2 DEF Points, Unrun, Unanswered
    <2>5. \A S \in Points : Load(S, t)' <= Load(S, t)
        BY <2>3, <2>4 DEF One
    <2>. QED
        BY <1>0, <2>1, <2>3, <2>5, PaidSame
<1>8. ASSUME NEW w \in Workers, Crash(w) \/ PoisonCrash(w) \/ Disconnect(w)
      PROVE  Paid(t)'
    <2>. PICK h : h = held[w]
        OBVIOUS
    <2>1. /\ pc[w] \in Handling /\ Requeue(w)
          /\ UNCHANGED <<waitQ, answered, published, attempts>>
          /\ Exit(w) \/ UNCHANGED <<pc, held>>
        BY <1>8 DEF Crash, PoisonCrash, Disconnect, Fault, Handling
    <2>2. h \in Message /\ h.task \in Tasks
        BY <2>1, HeldIsCopy
    <2>. DEFINE n == [h EXCEPT !.redelivered = TRUE]
    <2>3. n \in Message /\ n.task = h.task
        BY <2>2 DEF Message
    <2>4. taskQ' = <<n>> \o taskQ /\ disruptions' = [disruptions EXCEPT ![h.task] = @ + 1]
        BY <2>1 DEF Requeue
    <2>. HIDE DEF n
    <2>5. Count(taskQ', t) = Count(taskQ, t) + One(h.task = t)
        BY <1>q, <2>3, <2>4, CountPush
    <2>6. disruptions'[t] = disruptions[t] + One(h.task = t)
        BY <1>n, <2>2, <2>4 DEF TypeOK, One
    <2>7. /\ \A v \in Workers : v # w => pc'[v] = pc[v] /\ held'[v] = held[v]
          /\ \A S \in Points : pc'[w] \in S => pc[w] \in S /\ held'[w] = held[w]
        <3>1. CASE Exit(w)
            <4>1. pc'[w] = "down" /\ \A v \in Workers : v # w => pc'[v] = pc[v] /\ held'[v] = held[v]
                BY <3>1 DEF Exit, TypeOK
            <4>. QED
                BY <4>1 DEF Points, Unrun, Unanswered
        <3>2. CASE UNCHANGED <<pc, held>>
            BY <3>2
        <3>. QED
            BY <2>1, <3>1, <3>2
    <2>8. /\ IsFiniteSet(Busy(Handling, t)')
          /\ \A S \in Points :
                /\ Load(S, t) \in Nat /\ Load(S, t)' \in Nat
                /\ Load(S, t)' = Load(S, t)
                      + (Count(taskQ', t) - Count(taskQ, t)) + (Count(waitQ, t) - Count(waitQ, t))
                      - One(pc[w] \in S /\ held[w].task = t) + One(pc'[w] \in S /\ held'[w].task = t)
                /\ Count(taskQ, t) \in Nat /\ Count(waitQ, t) \in Nat
        BY <1>0, <2>1, <2>7, LoadMove
    <2>9. One(h.task = t) \in Nat /\ One(t \in answered) \in Nat
        BY DEF One
    <2>10. \A S \in Points : Load(S, t)' <= Load(S, t) + One(h.task = t)
        <3>. SUFFICES ASSUME NEW S \in Points PROVE Load(S, t)' <= Load(S, t) + One(h.task = t)
            OBVIOUS
        <3>1. /\ One(pc'[w] \in S /\ held'[w].task = t) <= One(pc[w] \in S /\ held[w].task = t)
              /\ One(pc'[w] \in S /\ held'[w].task = t) \in Nat
              /\ One(pc[w] \in S /\ held[w].task = t) \in Nat
            BY <2>7 DEF One
        <3>. QED
            BY <2>5, <2>8, <2>9, <3>1
    <2>. QED
        BY <1>0, <1>n, <1>p, <2>1, <2>6, <2>8, <2>9, <2>10, PaidCarry
<1>. QED
    BY <1>1, <1>2, <1>3, <1>4, <1>5, <1>6, <1>7, <1>8 DEF Next, Handle, Fail

\* Nothing has run in the first state.
LEMMA InitCount == Init => CountInv
<1>. SUFFICES ASSUME Init, NEW t \in Tasks PROVE Paid(t)
    BY DEF CountInv
<1>1. At(taskQ, t) = {} /\ At(waitQ, t) = {}
    BY DEF Init, At
<1>2. \A S \in Points \cup {Handling} : Busy(S, t) = {}
    BY DEF Init, Busy, Points, Unrun, Unanswered, Handling
<1>3. \A S \in Points : Load(S, t) = 0
    BY <1>1, <1>2, FS_EmptySet DEF Load, Count
<1>4. IsFiniteSet(Busy(Handling, t))
    BY <1>2, FS_EmptySet
<1>. QED
    BY <1>3, <1>4 DEF Init, Paid, Points, One

\* Everything that is known of the task path is known together.
TaskInv == LossInv /\ CopyInv /\ CountInv

\* It is known at first ...
LEMMA TaskInvariant == Init => TaskInv
BY InitType, InitCopy, InitCount
   DEF TaskInv, LossInv, Init, NoTaskLost, AckHasSuccessor

\* ... and after every step.
LEMMA TaskStep == TaskInv /\ [Next]_vars => TaskInv'
BY NextType, NextLoss, NextCopy, NextCount DEF TaskInv, LossInv

\* It holds all that the task path promises.
LEMMA TaskPromises ==
    TaskInv => /\ NoTaskLost /\ AckHasSuccessor /\ HeadersBounded
               /\ RetriesArePaid /\ DeadLetterJustified /\ ExecutionsArePaid
<1>1. TaskInv => NoTaskLost /\ AckHasSuccessor
    BY DEF TaskInv, LossInv
<1>2. TaskInv => HeadersBounded
    BY DEF TaskInv, CopyInv, Fine, HeadersBounded
<1>3. TaskInv => RetriesArePaid
    BY DEF TaskInv, CopyInv, Fine, RetriesArePaid
<1>4. TaskInv => DeadLetterJustified
    BY DEF TaskInv, CopyInv
<1>5. TaskInv => ExecutionsArePaid
    <2>. SUFFICES ASSUME TaskInv, NEW t \in Tasks PROVE attempts[t] <= 1 + disruptions[t]
        BY DEF ExecutionsArePaid
    <2>1. Load(Unrun, t) \in Nat /\ attempts[t] \in Nat /\ disruptions[t] \in Nat
        BY LoadType DEF TaskInv, LossInv, TypeOK, Points
    <2>2. attempts[t] + Load(Unrun, t) <= 1 + disruptions[t]
        BY DEF TaskInv, CountInv, Paid
    <2>. QED
        BY <2>1, <2>2
<1>. QED
    BY <1>1, <1>2, <1>3, <1>4, <1>5

\* The steps of the workers and of the broker's expiry.
Move ==
    \/ Expire
    \/ \E w \in Workers : TakeTrigger(w) \/ Deliver(w) \/ Handle(w) \/ Fail(w) \/ Restart(w)

\* A handler on its way to an answer, of a task that was never given back, is about to
\* give its first.
LEMMA FirstAnswer ==
    ASSUME TaskInv, NEW w \in Workers, pc[w] \in Unanswered, disruptions[held[w].task] = 0
    PROVE  held[w].task \notin answered
<1>. PICK t : t = held[w].task
    OBVIOUS
<1>1. pc[w] \in Handling
    BY DEF Unanswered, Unrun, Handling
<1>2. t \in Tasks /\ Unanswered \in Points
    BY <1>1, HeldIsCopy DEF TaskInv, LossInv, Points
<1>3. /\ IsFiniteSet(Busy(Unanswered, t)) /\ Cardinality(Busy(Unanswered, t)) \in Nat
      /\ Count(taskQ, t) \in Nat /\ Count(waitQ, t) \in Nat
    BY <1>2, LoadType DEF TaskInv, LossInv
<1>4. Cardinality(Busy(Unanswered, t)) # 0
    <2>1. w \in Busy(Unanswered, t)
        BY DEF Busy
    <2>. QED
        BY <1>3, <2>1, FS_EmptySet
<1>5. One(t \in answered) + Load(Unanswered, t) <= 1
    BY <1>2 DEF TaskInv, CountInv, Paid
<1>6. One(t \in answered) \in Nat
    BY DEF One
<1>7. One(t \in answered) = 0
    BY <1>3, <1>4, <1>5, <1>6 DEF Load
<1>. QED
    BY <1>7 DEF One

\* What others see of a worker's step: at most one result, of a published task, and as
\* long as nothing of that task was ever given back, none after its answer.
LEMMA MoveResults ==
    ASSUME TaskInv, TaskInv', Move
    PROVE  /\ published' = published
           /\ \A t \in Tasks : disruptions'[t] = 0 => disruptions[t] = 0
           /\ \/ UNCHANGED <<results, answered>>
              \/ \E r \in [task : Tasks, status : Terminal \cup {"waiting_for_calibration"}] :
                    /\ results' = Append(results, r)
                    /\ answered' = IF r.status \in Terminal THEN answered \cup {r.task}
                                                            ELSE answered
                    /\ r.task \in published
                    /\ disruptions[r.task] = 0 => r.task \notin answered
<1>. USE DEF TaskInv, LossInv
<1>1. disruptions \in [Tasks -> Nat]
    BY DEF TypeOK
<1>2. ASSUME NEW w \in Workers, PublishWaiting(w) \/ PublishResult(w)
      PROVE  /\ UNCHANGED <<published, disruptions>>
             /\ \E r \in [task : Tasks, status : Terminal \cup {"waiting_for_calibration"}] :
                    /\ results' = Append(results, r)
                    /\ answered' = IF r.status \in Terminal THEN answered \cup {r.task}
                                                            ELSE answered
                    /\ r.task \in published
                    /\ disruptions[r.task] = 0 => r.task \notin answered
    <2>1. pc[w] \in Unanswered /\ pc[w] \in Handling
        BY <1>2 DEF PublishWaiting, PublishResult, Unanswered, Unrun, Handling
    <2>2. held[w].task \in Tasks /\ held[w].task \in published
        BY <2>1, HeldIsCopy DEF CopyInv, Fine
    <2>3. disruptions[held[w].task] = 0 => held[w].task \notin answered
        BY <2>1, FirstAnswer
    <2>4. CASE PublishWaiting(w)
        <3>1. /\ [task |-> held[w].task, status |-> "waiting_for_calibration"]
                    \in [task : Tasks, status : Terminal \cup {"waiting_for_calibration"}]
              /\ "waiting_for_calibration" \notin Terminal
            BY <2>2 DEF Terminal
        <3>. QED
            BY <2>2, <2>3, <2>4, <3>1 DEF PublishWaiting, historyVars
    <2>5. CASE PublishResult(w)
        <3>1. verdict[w] \in Terminal
            BY <2>5 DEF PublishResult, ControlOK
        <3>2. [task |-> held[w].task, status |-> verdict[w]]
                    \in [task : Tasks, status : Terminal \cup {"waiting_for_calibration"}]
            BY <2>2, <3>1
        <3>. QED
            BY <2>2, <2>3, <2>5, <3>1, <3>2 DEF PublishResult
    <2>. QED
        BY <1>2, <2>4, <2>5
<1>3. ASSUME NEW w \in Workers, Crash(w) \/ PoisonCrash(w) \/ Disconnect(w)
      PROVE  /\ UNCHANGED <<published, results, answered>>
             /\ \A t \in Tasks : disruptions'[t] = 0 => disruptions[t] = 0
    <2>1. UNCHANGED <<published, results, answered>> /\ Requeue(w)
        BY <1>3 DEF Crash, PoisonCrash, Disconnect
    <2>2. \A t \in Tasks : disruptions'[t] \in {disruptions[t], disruptions[t] + 1}
        BY <1>1, <2>1 DEF Requeue
    <2>. QED
        BY <1>1, <2>1, <2>2
<1>4. ASSUME NEW w \in Workers,
             \/ TakeTrigger(w) \/ Deliver(w) \/ Restart(w) \/ ExitDisconnected(w)
             \/ PublishDeadLetter(w) \/ PublishRetry(w) \/ Reschedule(w) \/ Execute(w) \/ Ack(w)
             \/ \E d \in Decisions : Gate(w, d)
      PROVE  UNCHANGED <<published, results, answered, disruptions>>
    BY <1>4 DEF TakeTrigger, Deliver, Restart, ExitDisconnected, PublishDeadLetter,
                PublishRetry, Reschedule, Execute, Ack, Gate, brokerVars, historyVars
<1>5. Expire => UNCHANGED <<published, results, answered, disruptions>>
    BY DEF Expire, historyVars
<1>. QED
    BY <1>2, <1>3, <1>4, <1>5 DEF Move, Handle, Fail

\* The ledger starts empty ...
LEMMA LedgerInit == Init => Ledger!Init
<1>. SUFFICES ASSUME Init PROVE Ledger!Init
    OBVIOUS
<1>1. Copies = {}
    BY DEF Init, Copies, ToSet, Handling
<1>. QED
    BY <1>1 DEF Ledger!Init, Init

\* ... moves only as it may ...
LEMMA LedgerMove == TaskInv /\ TaskInv' /\ [Next]_vars => [Ledger!Next]_(Ledger!vars)
<1>. SUFFICES ASSUME TaskInv, TaskInv', [Next]_vars PROVE [Ledger!Next]_(Ledger!vars)
    OBVIOUS
<1>1. UNCHANGED LedgerVars \/ Ledger!Next
    BY LedgerStep DEF TaskInv, LossInv
<1>2. UNCHANGED LedgerVars => UNCHANGED Ledger!vars
    BY DEF LedgerVars, OpenTasks, Ledger!vars
<1>. QED
    BY <1>1, <1>2

\* ... and stays while the copies, the answers and the dead letters do.
LEMMA LedgerRests ==
    UNCHANGED <<taskQ, waitQ, pc, held, answered, dlq>> => UNCHANGED Ledger!vars
BY DEF Ledger!vars, Copies

-------------------------------------------------------------------------------
(* The theorems.                                                               *)

\* The task path keeps its types, and a handler knows at each await what
\* worker.py and retry_policy.py established before it: that its message is in
\* its hands, that a dead letter is due, that there are retries or waits left.
THEOREM TypeCorrect == Spec => [](TypeOK /\ ControlOK)
<1>1. Init => TypeOK /\ ControlOK
    BY InitType
<1>2. TypeOK /\ ControlOK /\ [Next]_vars => TypeOK' /\ ControlOK'
    BY NextType
<1>. QED
    BY <1>1, <1>2, PTL DEF Spec

\* The delivery guarantee of worker.py and retry_policy.py for any number of
\* tasks, workers, faults, retries and waits: publishing before acking means a
\* published task is always settled or still with the broker.
THEOREM TasksAreNeverLost == Spec => []NoTaskLost
BY TaskPromises, TaskInvariant, TaskStep, PTL DEF Spec

\* Why: every worker about to ack has settled its task or left a copy of higher
\* rank with the broker, which no other worker about to ack can be relying on.
THEOREM AcksLeaveSuccessors == Spec => []AckHasSuccessor
BY TaskPromises, TaskInvariant, TaskStep, PTL DEF Spec

\* retry_policy.py and calibration_wait.py for any limits: the headers of every
\* copy stay within MAX_RETRIES and the wait policy's limit, however retry
\* copies, waiting copies and requeues of one task mix.
THEOREM HeadersStayBounded == Spec => []HeadersBounded
BY TaskPromises, TaskInvariant, TaskStep, PTL DEF Spec

\* Every retry header and every redelivered flag was paid for by a disruption of
\* that very task, for any limits and faults.
THEOREM RetriesStayPaid == Spec => []RetriesArePaid
BY TaskPromises, TaskInvariant, TaskStep, PTL DEF Spec

\* The dead-letter queue for any limits and faults: a well-formed task is parked
\* only when its delivery was disrupted more often than MAX_RETRIES.
THEOREM OnlyDisruptedAreParked == Spec => []DeadLetterJustified
BY TaskPromises, TaskInvariant, TaskStep, PTL DEF Spec

\* Re-execution for any number of workers and faults: an experiment runs once,
\* and once more at most for each of its deliveries that was given back, however
\* its copies spread over the queues and the handlers.
THEOREM ExecutionsStayPaid == Spec => []ExecutionsArePaid
BY TaskPromises, TaskInvariant, TaskStep, PTL DEF Spec

\* The task path implements the ledger for any tasks, workers, limits and
\* faults: handlers, redeliveries and expiries only ever open a task once,
\* answer or park an open one, and close what was answered or parked.
THEOREM TaskPathKeepsLedger == Spec => LedgerSpec
BY LedgerInit, LedgerMove, TaskInvariant, TaskStep, PTL DEF Spec, LedgerSpec, Ledger!Spec
===============================================================================
