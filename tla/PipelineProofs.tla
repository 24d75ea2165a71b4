----------------------------- MODULE PipelineProofs -----------------------------
(* Proofs about an experiment end to end, for any experiments, workers, limits *)
(* and faults: none is lost between the services, an outcome has a source, and *)
(* what takes back an outcome.  What holds of either side alone is taken from  *)
(* its own proofs, in which the indexer takes no part here: it stays down.     *)
EXTENDS Pipeline, TLAPS

W == INSTANCE TaskWorkerProofs WITH
    Tasks <- Experiments, MaxFaults <- MaxWorkerFaults, faults <- workerFaults
A == INSTANCE ExperimentApiProofs WITH
    Ids <- Experiments, MaxFaults <- MaxApiFaults, faults <- apiFaults,
    enqueued <- published, finished <- answered,
    indexer <- "down", committed <- 0, index <- [i \in Experiments |-> 0]

\* What both sides assume of their constants.
LEMMA BothAssume == W!TaskWorkerAssumption /\ A!ExperimentApiAssumption
<1>1. W!Message = Orchestrator!Message /\ A!Record = Api!Record /\ A!Result = Api!Result
    BY DEF W!Message, Orchestrator!Message, A!Record, Api!Record, A!Result, Api!Result,
           A!Statuses, Api!Statuses, A!Terminal, Api!Terminal
<1>. QED
    BY <1>1, PipelineAssumption DEF W!TaskWorkerAssumption, A!ExperimentApiAssumption

\* The orchestrator's steps are those of the proofs about it.
LEMMA SameWorker ==
    ASSUME NEW w \in Workers
    PROVE  /\ Orchestrator!TakeTrigger(w) = W!TakeTrigger(w)
           /\ Orchestrator!Deliver(w) = W!Deliver(w)
           /\ Orchestrator!Handle(w) = W!Handle(w)
           /\ Orchestrator!Fail(w) = W!Fail(w)
           /\ Orchestrator!Restart(w) = W!Restart(w)
<1>. USE DEF Orchestrator!brokerVars, W!brokerVars, Orchestrator!historyVars, W!historyVars
<1>1. /\ Orchestrator!TakeTrigger(w) = W!TakeTrigger(w)
      /\ Orchestrator!Restart(w) = W!Restart(w)
    BY DEF Orchestrator!TakeTrigger, W!TakeTrigger, Orchestrator!Restart, W!Restart
<1>2. Orchestrator!Deliver(w) = W!Deliver(w)
    BY DEF Orchestrator!Deliver, Orchestrator!Begin, Orchestrator!FirstStep,
           Orchestrator!FreshStep, W!Deliver, W!Begin, W!FirstStep, W!FreshStep
<1>3. Orchestrator!Handle(w) = W!Handle(w)
    BY DEF Orchestrator!Handle, Orchestrator!PublishDeadLetter, Orchestrator!PublishRetry,
           Orchestrator!RetryCopy, Orchestrator!Gate, Orchestrator!Decisions,
           Orchestrator!Begin, Orchestrator!PublishWaiting, Orchestrator!Reschedule,
           Orchestrator!WaitCopy, Orchestrator!Execute, Orchestrator!Terminal,
           Orchestrator!PublishResult, Orchestrator!Ack,
           W!Handle, W!PublishDeadLetter, W!PublishRetry, W!RetryCopy, W!Gate, W!Decisions,
           W!Begin, W!PublishWaiting, W!Reschedule, W!WaitCopy, W!Execute, W!Terminal,
           W!PublishResult, W!Ack
<1>4. Orchestrator!Fail(w) = W!Fail(w)
    BY DEF Orchestrator!Fail, Orchestrator!Crash, Orchestrator!PoisonCrash,
           Orchestrator!Disconnect, Orchestrator!ExitDisconnected, Orchestrator!Fault,
           Orchestrator!Exit, Orchestrator!Requeue, Orchestrator!Handling,
           W!Fail, W!Crash, W!PoisonCrash, W!Disconnect, W!ExitDisconnected, W!Fault,
           W!Exit, W!Requeue, W!Handling
<1>. QED
    BY <1>1, <1>2, <1>3, <1>4

\* ... and so are its publish and its expiry.
LEMMA SameQueues ==
    /\ Orchestrator!Expire = W!Expire
    /\ \A i \in Experiments : Orchestrator!PublishTask(i) = W!PublishTask(i)
BY DEF Orchestrator!Expire, W!Expire, Orchestrator!PublishTask, W!PublishTask,
       Orchestrator!NewMessage, W!NewMessage,
       Orchestrator!workerVars, W!workerVars, Orchestrator!historyVars, W!historyVars

\* The API's steps are those of the proofs about it.
LEMMA SameApi ==
    /\ \A i \in Experiments :
        /\ Api!SaveQueued(i) = A!SaveQueued(i) /\ Api!Publish(i) = A!Publish(i)
        /\ Api!SaveFailed(i) = A!SaveFailed(i)
        /\ Api!SaveFailedRaises(i) = A!SaveFailedRaises(i)
        /\ \A taken \in BOOLEAN : Api!PublishRaises(i, taken) = A!PublishRaises(i, taken)
    /\ Api!Take = A!Take /\ Api!Consume = A!Consume /\ Api!ConsumerRaises = A!ConsumerRaises
    /\ Api!Shutdown = A!Shutdown /\ Api!Kill = A!Kill /\ Api!Start = A!Start
BY DEF Api!SaveQueued, Api!SaveFailed, Api!SaveFailedRaises, Api!Publish, Api!PublishRaises,
       Api!Take, Api!Consume, Api!Read, Api!Save, Api!PublishEvent, Api!ConsumerRaises,
       Api!Shutdown, Api!Kill, Api!Start, Api!Queued, Api!NotEnqueued, Api!Fault, Api!Known,
       Api!Acked, Api!Updated, Api!Terminal, Api!Announcement, Api!EventLeft, Api!Reject,
       Api!TakenBack,
       A!SaveQueued, A!SaveFailed, A!SaveFailedRaises, A!Publish, A!PublishRaises,
       A!Take, A!Consume, A!Read, A!Save, A!PublishEvent, A!ConsumerRaises,
       A!Shutdown, A!Kill, A!Start, A!Queued, A!NotEnqueued, A!Fault, A!Known,
       A!Acked, A!Updated, A!Terminal, A!Announcement, A!EventLeft, A!Reject, A!TakenBack

HandlerMove(i) == A!SaveQueued(i) \/ A!SaveFailed(i) \/ A!SaveFailedRaises(i)
ProcessMove == A!Shutdown \/ A!Kill \/ A!Start

\* The steps, named as in those proofs.
LEMMA Steps ==
    ASSUME [Next]_vars
    PROVE  \/ \E i \in Experiments :
                \/ W!PublishTask(i) /\ (A!Publish(i) \/ A!PublishRaises(i, TRUE))
                \/ A!PublishRaises(i, FALSE) /\ UNCHANGED workerOwn
                \/ HandlerMove(i) /\ UNCHANGED workerOwn
           \/ (A!Take \/ A!Consume \/ A!ConsumerRaises \/ ProcessMove) /\ UNCHANGED workerOwn
           \/ W!Move /\ UNCHANGED apiOwn
           \/ UNCHANGED vars
<1>1. CASE \E i \in Experiments : Publish(i) \/ PublishRaises(i)
    BY <1>1, SameApi, SameQueues DEF Publish, PublishRaises
<1>2. CASE ApiStep
    BY <1>2, SameApi DEF ApiStep, HandlerMove, ProcessMove
<1>3. CASE WorkerStep
    BY <1>3, SameWorker, SameQueues DEF WorkerStep, W!Move
<1>. QED
    BY <1>1, <1>2, <1>3 DEF Next

-------------------------------------------------------------------------------
(* What either side knows alone.                                               *)

\* A step of the API alone takes nothing from what is known of the orchestrator.
LEMMA WorkerSideKept ==
    ASSUME W!TaskInv, UNCHANGED <<workerOwn, published, answered>>,
           results' \in Seq(A!Result)
    PROVE  W!TaskInv'
<1>1. W!TypeOK'
    BY DEF W!TaskInv, W!LossInv, W!TypeOK, workerOwn, A!Result, W!Terminal, A!Terminal
<1>2. W!ControlOK'
    BY DEF W!TaskInv, W!LossInv, W!ControlOK, workerOwn
<1>3. W!LiveCopies' = W!LiveCopies /\ W!Copies' = W!Copies
    BY DEF W!LiveCopies, W!Copies, W!Owned, workerOwn
<1>4. W!NoTaskLost' /\ W!AckHasSuccessor'
    BY <1>3 DEF W!TaskInv, W!LossInv, W!NoTaskLost, W!AckHasSuccessor, W!Succeeded,
                W!Settled, workerOwn
<1>5. W!CopyInv'
    BY <1>3 DEF W!TaskInv, W!CopyInv, W!Fine, W!DeadLetterJustified, workerOwn
<1>6. W!CountInv'
    BY DEF W!TaskInv, W!CountInv, W!Paid, W!Load, W!Busy, workerOwn
<1>. QED
    BY <1>1, <1>2, <1>4, <1>5, <1>6 DEF W!TaskInv, W!LossInv

\* A step of the orchestrator alone takes nothing from the types of the API.
LEMMA ApiSideKept ==
    ASSUME A!TypeInv, W!TypeOK', UNCHANGED apiOwn
    PROVE  A!TypeInv'
BY DEF A!TypeInv, A!TypeOK, W!TypeOK, apiOwn, A!Result, W!Terminal, A!Terminal

SideInv == W!TaskInv /\ A!TypeInv

\* It holds at first ...
LEMMA SideInit == Init => SideInv
<1>1. Orchestrator!Init => W!Init
    BY DEF Orchestrator!Init, W!Init
<1>2. Api!Init => A!Init
    BY DEF Api!Init, Api!ApiInit, A!Init, A!ApiInit
<1>. QED
    BY <1>1, <1>2, BothAssume, W!TaskInvariant, A!TypeInit DEF Init, SideInv

\* ... and after every step.
LEMMA SideStep == SideInv /\ [Next]_vars => SideInv'
<1>. SUFFICES ASSUME SideInv, [Next]_vars PROVE SideInv'
    OBVIOUS
<1>. USE BothAssume
<1>1. ASSUME A!Next, UNCHANGED <<workerOwn, published, answered>> PROVE SideInv'
    <2>1. A!TypeInv'
        BY <1>1, A!TypeStep DEF SideInv
    <2>2. results' \in Seq(A!Result)
        BY <2>1 DEF A!TypeInv, A!TypeOK
    <2>. QED
        BY <1>1, <2>1, <2>2, WorkerSideKept DEF SideInv
<1>2. ASSUME NEW i \in Experiments, W!PublishTask(i), A!Publish(i) \/ A!PublishRaises(i, TRUE)
      PROVE  SideInv'
    <2>1. W!Next /\ A!Next
        BY <1>2 DEF W!Next, A!Next, A!Submit
    <2>. QED
        BY <2>1, W!TaskStep, A!TypeStep DEF SideInv
<1>3. ASSUME NEW i \in Experiments, A!PublishRaises(i, FALSE), UNCHANGED workerOwn
      PROVE  SideInv'
    <2>1. A!Next /\ UNCHANGED <<published, answered>>
        BY <1>3 DEF A!Next, A!Submit, A!PublishRaises
    <2>. QED
        BY <1>1, <1>3, <2>1
<1>4. ASSUME NEW i \in Experiments, HandlerMove(i), UNCHANGED workerOwn
      PROVE  SideInv'
    <2>1. A!Next /\ UNCHANGED <<published, answered>>
        BY <1>4 DEF A!Next, A!Submit, HandlerMove, A!SaveQueued, A!SaveFailed,
                    A!SaveFailedRaises
    <2>. QED
        BY <1>1, <1>4, <2>1
<1>5. ASSUME A!Take \/ A!Consume \/ A!ConsumerRaises \/ ProcessMove, UNCHANGED workerOwn
      PROVE  SideInv'
    <2>1. A!Next /\ UNCHANGED <<published, answered>>
        BY <1>5 DEF A!Next, ProcessMove, A!Take, A!Consume, A!Read, A!Save, A!PublishEvent,
                    A!ConsumerRaises, A!Shutdown, A!Kill, A!Start
    <2>. QED
        BY <1>1, <1>5, <2>1
<1>6. ASSUME W!Move, UNCHANGED apiOwn PROVE SideInv'
    <2>1. W!Next
        BY <1>6 DEF W!Next, W!Move
    <2>2. W!TaskInv'
        BY <2>1, W!TaskStep DEF SideInv
    <2>. QED
        BY <1>6, <2>2, ApiSideKept DEF SideInv, W!TaskInv, W!LossInv
<1>7. ASSUME UNCHANGED vars PROVE SideInv'
    <2>1. UNCHANGED W!vars /\ UNCHANGED A!vars
        BY <1>7 DEF vars, workerOwn, apiOwn, W!vars, W!brokerVars, W!workerVars,
                    W!historyVars, A!vars, A!apiVars
    <2>. QED
        BY <2>1, W!TaskStep, A!TypeStep DEF SideInv
<1>. QED
    BY <1>2, <1>3, <1>4, <1>5, <1>6, <1>7, Steps
-------------------------------------------------------------------------------
(* What they know together.                                                    *)

\* Answers not yet worked off, the one under work first.
Pending == A!TakenBack

\* An outcome a worker produced is in the store.
Shown(i) == A!IsTerminal(i) /\ store[i].error # "enqueue"
Outcome(status) ==
    [status |-> status, completed_at |-> TRUE, result |-> status = "completed",
     error |-> IF status = "failed" THEN "task" ELSE "none"]

\* The POST handler: a task is with the broker only after its record is in the store,
\* and is marked failed over a broker's copy only if the publish was ambiguous.
PostInv ==
    \A i \in Experiments :
        /\ post[i] \in {"new", "publish"} => i \notin published
        /\ ~Ambiguous /\ post[i] = "save_failed" => i \notin published
        /\ Durable /\ post[i] # "new" => store[i] # NoRecord
        /\ post[i] = "new" => store[i] = NoRecord
        /\ store[i] # NoRecord /\ store[i].error = "enqueue" =>
              post[i] = "done" /\ (Ambiguous \/ i \notin published)

\* What is pending comes from published tasks, a terminal answer from an answered one.
QueueInv ==
    \A a \in 1 .. Len(Pending) :
        /\ Pending[a].task \in published
        /\ Pending[a].status \in A!Terminal => Pending[a].task \in answered

SourceInv == \A i \in Experiments : Shown(i) => i \in answered /\ store[i] = Outcome(store[i].status)

\* Every answer is announced, rejected or pending: the durable store always knows its
\* experiment.
Accounted(i) ==
    \/ \E n \in 1 .. Len(events) : events[n].task = i
    \/ \E n \in 1 .. Len(dropped) : dropped[n].task = i /\ dropped[n].status \in A!Terminal
    \/ \E a \in 1 .. Len(Pending) : Pending[a].task = i /\ Pending[a].status \in A!Terminal
AnswerInv == Durable => \A i \in answered : Accounted(i)

\* As long as no delivery of an experiment was given back, a terminal answer is the last
\* of its results, and what is pending repeats the outcome shown.
CalmInv ==
    \A i \in Experiments : disruptions[i] = 0 =>
        /\ \A a, b \in 1 .. Len(Pending) :
              a < b /\ Pending[a].task = i /\ Pending[b].task = i => Pending[a].status \notin A!Terminal
        /\ Shown(i) => \A a \in 1 .. Len(Pending) :
              Pending[a].task = i => Pending[a].status = store[i].status

EndInv == PostInv /\ QueueInv /\ SourceInv /\ AnswerInv /\ CalmInv

\* Nothing was published in the first state.
LEMMA EndInit == Init => EndInv
<1>. SUFFICES ASSUME Init PROVE EndInv
    OBVIOUS
<1>1. Pending = <<>> /\ answered = {} /\ published = {}
    BY DEF Init, Api!Init, Api!ApiInit, Pending, A!TakenBack
<1>2. Len(Pending) = 0
    BY <1>1
<1>3. \A i \in Experiments : store[i] = NoRecord /\ post[i] = "new"
    BY DEF Init, Api!Init, Api!ApiInit
<1>4. PostInv
    BY <1>1, <1>3 DEF PostInv
<1>5. \A i \in Experiments : ~Shown(i)
    BY <1>3 DEF Shown, A!IsTerminal
<1>. QED
    BY <1>1, <1>2, <1>4, <1>5 DEF EndInv, QueueInv, SourceInv, AnswerInv, CalmInv

\* The outcomes shown: none is new.
Calm ==
    /\ \A i \in Experiments : Shown(i)' => Shown(i) /\ store'[i] = store[i]
    /\ \A i \in Experiments : disruptions'[i] = 0 => disruptions[i] = 0

\* A log that only grows.
Grown(old, new) == Len(old) <= Len(new) /\ \A n \in 1 .. Len(old) : new[n] = old[n]

\* A step that leaves what is pending, and shows no new outcome.
LEMMA Stays ==
    ASSUME SideInv, SideInv', EndInv, PostInv', Calm, Pending' = Pending,
           answered' = answered, published \subseteq published',
           Grown(events, events'), Grown(dropped, dropped')
    PROVE  EndInv'
<1>1. events \in Seq([task : Experiments, status : A!Terminal]) /\ dropped \in Seq(A!Result)
      /\ events' \in Seq([task : Experiments, status : A!Terminal]) /\ dropped' \in Seq(A!Result)
    BY DEF SideInv, A!TypeInv, A!TypeOK
<1>2. \A n \in 1 .. Len(events) : n \in 1 .. Len(events') /\ events'[n] = events[n]
    BY <1>1 DEF Grown
<1>3. \A n \in 1 .. Len(dropped) : n \in 1 .. Len(dropped') /\ dropped'[n] = dropped[n]
    BY <1>1 DEF Grown
<1>4. QueueInv'
    BY DEF EndInv, QueueInv
<1>5. SourceInv'
    BY DEF EndInv, SourceInv, Calm
<1>6. AnswerInv'
    <2>. SUFFICES ASSUME Durable, NEW i \in answered PROVE Accounted(i)'
        BY DEF AnswerInv
    <2>1. Accounted(i)
        BY DEF EndInv, AnswerInv
    <2>. QED
        BY <1>2, <1>3, <2>1 DEF Accounted
<1>7. CalmInv'
    BY DEF EndInv, CalmInv, Calm
<1>. QED
    BY <1>4, <1>5, <1>6, <1>7 DEF EndInv

\* A step that works the first pending answer off, and shows no new outcome: a
\* terminal one was announced or rejected.
LEMMA Leaves ==
    ASSUME SideInv, SideInv', EndInv, PostInv', Calm, msg # NoResult, Pending' = Tail(Pending),
           UNCHANGED <<answered, published>>,
           Grown(events, events'), Grown(dropped, dropped'),
           Durable /\ msg.status \in A!Terminal =>
               \/ events' = Append(events, [task |-> msg.task, status |-> msg.status])
               \/ dropped' = Append(dropped, msg)
    PROVE  EndInv'
<1>1. /\ Pending \in Seq(A!Result) /\ Pending # <<>> /\ Pending[1] = msg
      /\ msg \in A!Result /\ msg.task \in Experiments
    BY BothAssume, A!PendingHead DEF SideInv, Pending
<1>2. events \in Seq([task : Experiments, status : A!Terminal]) /\ dropped \in Seq(A!Result)
      /\ events' \in Seq([task : Experiments, status : A!Terminal]) /\ dropped' \in Seq(A!Result)
    BY DEF SideInv, A!TypeInv, A!TypeOK
<1>. PICK q : q = Pending
    OBVIOUS
<1>3. /\ q \in Seq(A!Result) /\ q[1] = msg
      /\ Len(q) \in Nat \ {0} /\ Len(Pending') = Len(q) - 1
      /\ \A a \in 1 .. Len(Pending') : Pending'[a] = q[a + 1] /\ a + 1 \in 1 .. Len(q)
      /\ \A a \in 2 .. Len(q) : Pending'[a - 1] = q[a] /\ a - 1 \in 1 .. Len(Pending')
    BY <1>1
<1>4. \A n \in 1 .. Len(events) : n \in 1 .. Len(events') /\ events'[n] = events[n]
    BY <1>2 DEF Grown
<1>5. \A n \in 1 .. Len(dropped) : n \in 1 .. Len(dropped') /\ dropped'[n] = dropped[n]
    BY <1>2 DEF Grown
<1>6. QueueInv'
    BY <1>3 DEF EndInv, QueueInv
<1>7. SourceInv'
    BY DEF EndInv, SourceInv, Calm
<1>8. AnswerInv'
    <2>. SUFFICES ASSUME Durable, NEW i \in answered PROVE Accounted(i)'
        BY DEF AnswerInv
    <2>1. CASE \E a \in 1 .. Len(q) : q[a].task = i /\ q[a].status \in A!Terminal
        <3>1. PICK a \in 1 .. Len(q) : q[a].task = i /\ q[a].status \in A!Terminal
            BY <2>1
        <3>2. CASE a = 1
            <4>1. i = msg.task /\ msg.status \in A!Terminal
                BY <1>3, <3>1, <3>2
            <4>2. CASE events' = Append(events, [task |-> msg.task, status |-> msg.status])
                <5>1. /\ Len(events) + 1 \in 1 .. Len(events')
                      /\ events'[Len(events) + 1] = [task |-> msg.task, status |-> msg.status]
                    BY <1>2, <4>2
                <5>. QED
                    BY <4>1, <5>1 DEF Accounted
            <4>3. CASE dropped' = Append(dropped, msg)
                <5>1. Len(dropped) + 1 \in 1 .. Len(dropped') /\ dropped'[Len(dropped) + 1] = msg
                    BY <1>2, <4>3
                <5>. QED
                    BY <4>1, <5>1 DEF Accounted
            <4>. QED
                BY <4>1, <4>2, <4>3
        <3>3. CASE a # 1
            <4>1. a \in 2 .. Len(q)
                BY <1>3, <3>3
            <4>. QED
                BY <1>3, <3>1, <4>1 DEF Accounted
        <3>. QED
            BY <3>2, <3>3
    <2>2. CASE \E n \in 1 .. Len(events) : events[n].task = i
        BY <1>4, <2>2 DEF Accounted
    <2>3. CASE \E n \in 1 .. Len(dropped) : dropped[n].task = i /\ dropped[n].status \in A!Terminal
        BY <1>5, <2>3 DEF Accounted
    <2>. QED
        BY <2>1, <2>2, <2>3 DEF EndInv, AnswerInv, Accounted
<1>9. CalmInv'
    <2>. SUFFICES ASSUME NEW i \in Experiments, disruptions'[i] = 0
                  PROVE  /\ \A a, b \in 1 .. Len(Pending') :
                              a < b /\ Pending'[a].task = i /\ Pending'[b].task = i
                                  => Pending'[a].status \notin A!Terminal
                         /\ Shown(i)' => \A a \in 1 .. Len(Pending') :
                              Pending'[a].task = i => Pending'[a].status = store'[i].status
        BY DEF CalmInv
    <2>1. disruptions[i] = 0 /\ (Shown(i)' => Shown(i) /\ store'[i] = store[i])
        BY DEF Calm
    <2>2. /\ \A a, b \in 1 .. Len(q) :
                a < b /\ q[a].task = i /\ q[b].task = i => q[a].status \notin A!Terminal
          /\ Shown(i) => \A a \in 1 .. Len(q) : q[a].task = i => q[a].status = store[i].status
        BY <2>1 DEF EndInv, CalmInv
    <2>3. \A a, b \in 1 .. Len(Pending') : a < b => a + 1 < b + 1
        OBVIOUS
    <2>. QED
        BY <1>3, <2>1, <2>2, <2>3
<1>. QED
    BY <1>6, <1>7, <1>8, <1>9 DEF EndInv

\* A worker's step.
LEMMA MoveStep ==
    ASSUME SideInv, SideInv', EndInv, W!Move, UNCHANGED apiOwn
    PROVE  EndInv'
<1>1. /\ published' = published
      /\ \A i \in Experiments : disruptions'[i] = 0 => disruptions[i] = 0
      /\ \/ UNCHANGED <<results, answered>>
         \/ \E r \in A!Result :
               /\ results' = Append(results, r)
               /\ answered' = IF r.status \in A!Terminal THEN answered \cup {r.task} ELSE answered
               /\ r.task \in published
               /\ disruptions[r.task] = 0 => r.task \notin answered
    <2>1. A!Result = [task : Experiments, status : W!Terminal \cup {"waiting_for_calibration"}]
          /\ A!Terminal = W!Terminal
        BY DEF A!Result, W!Terminal, A!Terminal
    <2>. QED
        BY <2>1, BothAssume, W!MoveResults DEF SideInv
<1>2. UNCHANGED <<store, post, msg, events, dropped>>
    BY DEF apiOwn
<1>3. PostInv'
    BY <1>1, <1>2 DEF EndInv, PostInv
<1>4. Calm
    BY <1>1, <1>2 DEF Calm, Shown, A!IsTerminal
<1>5. CASE UNCHANGED <<results, answered>>
    <2>1. Pending' = Pending
        BY <1>2, <1>5 DEF Pending, A!TakenBack
    <2>. QED
        BY <1>1, <1>2, <1>3, <1>4, <1>5, <2>1, Stays DEF Grown, SideInv, A!TypeInv, A!TypeOK
<1>6. ASSUME NEW r \in A!Result, results' = Append(results, r),
             answered' = IF r.status \in A!Terminal THEN answered \cup {r.task} ELSE answered,
             r.task \in published, disruptions[r.task] = 0 => r.task \notin answered
      PROVE  EndInv'
    <2>1. Pending \in Seq(A!Result)
        BY BothAssume, A!PendingTyped DEF SideInv, Pending
    <2>2. Pending' = Append(Pending, r)
        <3>1. results \in Seq(A!Result) /\ msg \in A!Result \cup {NoResult}
            BY DEF SideInv, A!TypeInv, A!TypeOK
        <3>2. CASE msg = NoResult
            BY <1>2, <1>6, <3>2 DEF Pending, A!TakenBack
        <3>3. CASE msg # NoResult
            <4>1. Pending = <<msg>> \o results /\ Pending' = <<msg>> \o Append(results, r)
                BY <1>2, <1>6, <3>3 DEF Pending, A!TakenBack
            <4>. QED
                BY <3>1, <3>3, <4>1
        <3>. QED
            BY <3>2, <3>3
    <2>. PICK n : n = Len(Pending)
        OBVIOUS
    <2>3. /\ n \in Nat /\ Len(Pending') = n + 1 /\ Pending'[n + 1] = r
          /\ \A a \in 1 .. n : Pending'[a] = Pending[a] /\ a \in 1 .. n + 1
          /\ \A a \in 1 .. n + 1 : a = n + 1 \/ a \in 1 .. n
        BY <2>1, <2>2
    <2>4. answered \subseteq answered' /\ (r.status \in A!Terminal => r.task \in answered')
        BY <1>6
    <2>5. QueueInv'
        BY <1>1, <1>6, <2>3, <2>4 DEF EndInv, QueueInv
    <2>6. SourceInv'
        BY <1>2, <1>4, <2>4 DEF EndInv, SourceInv, Calm
    <2>7. AnswerInv'
        <3>. SUFFICES ASSUME Durable, NEW i \in answered' PROVE Accounted(i)'
            BY DEF AnswerInv
        <3>1. CASE i \in answered
            <4>1. Accounted(i)
                BY <3>1 DEF EndInv, AnswerInv
            <4>. QED
                BY <1>2, <2>3, <4>1 DEF Accounted
        <3>2. CASE i \notin answered
            <4>1. i = r.task /\ r.status \in A!Terminal /\ n + 1 \in 1 .. Len(Pending')
                BY <1>6, <2>3, <3>2
            <4>. QED
                BY <2>3, <4>1 DEF Accounted
        <3>. QED
            BY <3>1, <3>2
    <2>8. CalmInv'
        <3>. SUFFICES ASSUME NEW i \in Experiments, disruptions'[i] = 0
                      PROVE  /\ \A a, b \in 1 .. n + 1 :
                                  a < b /\ Pending'[a].task = i /\ Pending'[b].task = i
                                      => Pending'[a].status \notin A!Terminal
                             /\ Shown(i)' => \A a \in 1 .. n + 1 :
                                  Pending'[a].task = i => Pending'[a].status = store'[i].status
            BY <2>3 DEF CalmInv
        <3>1. disruptions[i] = 0 /\ (Shown(i)' => Shown(i) /\ store'[i] = store[i])
            BY <1>4 DEF Calm
        <3>2. /\ \A a, b \in 1 .. n : a < b /\ Pending[a].task = i /\ Pending[b].task = i
                    => Pending[a].status \notin A!Terminal
              /\ Shown(i) => \A a \in 1 .. n : Pending[a].task = i => Pending[a].status = store[i].status
            BY <3>1 DEF EndInv, CalmInv
        <3>3. CASE i # r.task
            BY <2>3, <3>1, <3>2, <3>3
        <3>4. CASE i = r.task
            <4>1. i \notin answered
                BY <1>6, <3>1, <3>4
            <4>2. \A a \in 1 .. n : Pending[a].task = i => Pending[a].status \notin A!Terminal
                BY <4>1 DEF EndInv, QueueInv
            <4>3. ~Shown(i)
                BY <4>1 DEF EndInv, SourceInv
            <4>4. \A a, b \in 1 .. n + 1 : a < b => a \in 1 .. n
                BY <2>3
            <4>. QED
                BY <2>3, <3>1, <4>2, <4>3, <4>4
        <3>. QED
            BY <3>3, <3>4
    <2>. QED
        BY <1>3, <2>5, <2>6, <2>7, <2>8 DEF EndInv
<1>. QED
    BY <1>1, <1>5, <1>6

\* The POST handler writes no outcome but that its publish failed, and lets a task go
\* only once.
LEMMA HandlerStep ==
    ASSUME SideInv, SideInv', EndInv, NEW i \in Experiments, UNCHANGED <<answered, disruptions>>,
           \/ A!SaveQueued(i) \/ A!Publish(i) \/ A!SaveFailed(i) \/ A!SaveFailedRaises(i)
           \/ \E taken \in BOOLEAN : A!PublishRaises(i, taken)
    PROVE  EndInv'
<1>1. /\ store \in [Experiments -> A!Record \cup {NoRecord}]
      /\ post \in [Experiments -> {"new", "publish", "save_failed", "done"}]
    BY DEF SideInv, A!TypeInv, A!TypeOK
<1>2. /\ UNCHANGED <<results, msg, events, dropped>> /\ published \subseteq published'
      /\ \A j \in Experiments \ {i} :
            /\ store'[j] = store[j] /\ post'[j] = post[j]
            /\ j \in published' => j \in published
    BY <1>1 DEF A!SaveQueued, A!Publish, A!SaveFailed, A!SaveFailedRaises, A!PublishRaises
<1>3. /\ store'[i] \in {store[i], A!Queued, A!NotEnqueued}
      /\ A!Queued # NoRecord /\ A!NotEnqueued # NoRecord
    <2>1. store'[i] \in {store[i], A!Queued, A!NotEnqueued}
        BY <1>1 DEF A!SaveQueued, A!Publish, A!SaveFailed, A!SaveFailedRaises, A!PublishRaises
    <2>. QED
        BY <2>1, BothAssume, A!PostRecords DEF A!ExperimentApiAssumption
<1>4. Calm
    <2>1. A!Queued.status \notin A!Terminal /\ A!NotEnqueued.error = "enqueue"
        BY DEF A!Queued, A!NotEnqueued, A!Terminal
    <2>. QED
        BY <1>2, <1>3, <2>1 DEF Calm, Shown, A!IsTerminal
<1>5. PostInv'
    <2>. SUFFICES
            /\ post'[i] \in {"new", "publish"} => i \notin published'
            /\ ~Ambiguous /\ post'[i] = "save_failed" => i \notin published'
            /\ Durable /\ post'[i] # "new" => store'[i] # NoRecord
            /\ post'[i] = "new" => store'[i] = NoRecord
            /\ store'[i] # NoRecord /\ store'[i].error = "enqueue" =>
                  post'[i] = "done" /\ (Ambiguous \/ i \notin published')
        BY <1>2 DEF EndInv, PostInv
    <2>1. /\ post[i] \in {"new", "publish"} => i \notin published
          /\ ~Ambiguous /\ post[i] = "save_failed" => i \notin published
          /\ Durable /\ post[i] # "new" => store[i] # NoRecord
          /\ post[i] = "new" => store[i] = NoRecord
          /\ store[i] # NoRecord /\ store[i].error = "enqueue" =>
                post[i] = "done" /\ (Ambiguous \/ i \notin published)
        BY DEF EndInv, PostInv
    <2>2. CASE A!SaveQueued(i)
        <3>1. store'[i] = A!Queued /\ post'[i] = "publish" /\ post[i] = "new" /\ published' = published
            BY <1>1, <2>2 DEF A!SaveQueued
        <3>2. A!Queued.error = "none"
            BY DEF A!Queued
        <3>. QED
            BY <1>3, <2>1, <3>1, <3>2
    <2>3. CASE A!Publish(i)
        <3>1. store'[i] = store[i] /\ post'[i] = "done" /\ post[i] = "publish"
            BY <1>1, <2>3 DEF A!Publish
        <3>. QED
            BY <2>1, <3>1
    <2>4. ASSUME NEW taken \in BOOLEAN, A!PublishRaises(i, taken)
          PROVE  /\ store'[i] = store[i] /\ post'[i] = "save_failed" /\ post[i] = "publish"
                 /\ ~Ambiguous => published' = published
        BY <1>1, <2>4 DEF A!PublishRaises
    <2>5. CASE \E taken \in BOOLEAN : A!PublishRaises(i, taken)
        BY <2>1, <2>4, <2>5
    <2>6. CASE A!SaveFailed(i)
        <3>1. /\ store'[i] = A!NotEnqueued /\ post'[i] = "done" /\ post[i] = "save_failed"
              /\ published' = published
            BY <1>1, <2>6 DEF A!SaveFailed
        <3>. QED
            BY <1>3, <2>1, <3>1
    <2>7. CASE A!SaveFailedRaises(i)
        <3>1. store'[i] = store[i] /\ post'[i] = "done" /\ post[i] = "save_failed" /\ published' = published
            BY <1>1, <2>7 DEF A!SaveFailedRaises
        <3>. QED
            BY <2>1, <3>1
    <2>. QED
        BY <2>2, <2>3, <2>5, <2>6, <2>7
<1>6. Pending' = Pending
    BY <1>2 DEF Pending, A!TakenBack
<1>. QED
    BY <1>2, <1>4, <1>5, <1>6, Stays DEF Grown, SideInv, A!TypeInv, A!TypeOK

\* The event of a consumer that was interrupted may be out.
LEMMA EventGrown ==
    ASSUME SideInv, A!EventLeft
    PROVE  Grown(events, events')
<1>1. events \in Seq([task : Experiments, status : A!Terminal])
    BY DEF SideInv, A!TypeInv, A!TypeOK
<1>2. events' = events \/ \E e : events' = Append(events, e)
    BY DEF A!EventLeft, A!Announcement
<1>. QED
    BY <1>1, <1>2 DEF Grown

\* The message under work is rejected.
LEMMA RejectStep ==
    ASSUME SideInv, SideInv', EndInv, PostInv', Calm, msg # NoResult, A!Reject, A!EventLeft,
           UNCHANGED <<results, answered, published>>
    PROVE  EndInv'
<1>1. msg' = NoResult /\ dropped' = Append(dropped, msg)
    BY DEF A!Reject
<1>2. Pending' = Tail(Pending)
    BY <1>1, BothAssume, A!PendingHead DEF SideInv, Pending, A!TakenBack
<1>3. Grown(dropped, dropped')
    BY <1>1 DEF Grown, SideInv, A!TypeInv, A!TypeOK
<1>. QED
    BY <1>1, <1>2, <1>3, EventGrown, Leaves

\* The consumer takes a result, looks its experiment up, announces it, or fails.
LEMMA ConsumerStep ==
    ASSUME SideInv, SideInv', EndInv, UNCHANGED <<answered, published, disruptions>>,
           A!Take \/ A!Read \/ A!PublishEvent \/ A!ConsumerRaises
    PROVE  EndInv'
<1>1. UNCHANGED <<store, post>>
    BY DEF A!Take, A!Read, A!PublishEvent, A!ConsumerRaises
<1>2. PostInv' /\ Calm
    BY <1>1 DEF EndInv, PostInv, Calm, Shown, A!IsTerminal
<1>3. Grown(events, events) /\ Grown(dropped, dropped)
    BY DEF Grown, SideInv, A!TypeInv, A!TypeOK
<1>4. CASE A!Take
    <2>1. /\ msg = NoResult /\ UNCHANGED <<events, dropped>>
          /\ results \in Seq(A!Result) /\ results # <<>>
          /\ msg' = Head(results) /\ results' = Tail(results) /\ msg' # NoResult
        BY <1>4 DEF A!Take, SideInv, A!TypeInv, A!TypeOK
    <2>2. <<Head(results)>> \o Tail(results) = results
        BY <2>1
    <2>3. Pending' = Pending
        BY <2>1, <2>2 DEF Pending, A!TakenBack
    <2>. QED
        BY <1>2, <1>3, <2>1, <2>3, Stays
<1>5. CASE A!Read
    <2>1. /\ msg # NoResult /\ UNCHANGED <<results, events, dropped>>
          /\ msg.task \in Experiments /\ 1 \in 1 .. Len(Pending) /\ Pending[1] = msg
        BY <1>5, BothAssume, A!PendingHead DEF A!Read, SideInv, A!TypeInv, Pending
    <2>2. CASE A!Known(msg.task)
        <3>1. Pending' = Pending
            BY <1>5, <2>2 DEF A!Read, Pending, A!TakenBack
        <3>. QED
            BY <1>2, <1>3, <2>1, <3>1, Stays
    <2>3. CASE ~A!Known(msg.task)
        <3>1. ~Durable
            <4>1. post[msg.task] # "new"
                BY <2>1 DEF EndInv, QueueInv, PostInv
            <4>. QED
                BY <2>1, <2>3, <4>1 DEF EndInv, PostInv, A!Known
        <3>2. msg' = NoResult
            BY <1>5, <2>3 DEF A!Read, A!Acked
        <3>3. Pending' = Tail(Pending)
            BY <2>1, <3>2, BothAssume, A!PendingHead DEF SideInv, Pending, A!TakenBack
        <3>. QED
            BY <1>2, <1>3, <2>1, <3>1, <3>3, Leaves
    <2>. QED
        BY <2>2, <2>3
<1>6. CASE A!PublishEvent
    <2>1. /\ msg # NoResult /\ msg' = NoResult /\ UNCHANGED <<results, dropped>>
          /\ events' = Append(events, [task |-> msg.task, status |-> msg.status])
        BY <1>6 DEF A!PublishEvent, A!Acked, A!Announcement, SideInv, A!TypeInv
    <2>2. Pending' = Tail(Pending)
        BY <2>1, BothAssume, A!PendingHead DEF SideInv, Pending, A!TakenBack
    <2>3. Grown(events, events')
        BY <2>1 DEF Grown, SideInv, A!TypeInv, A!TypeOK
    <2>. QED
        BY <1>2, <1>3, <2>1, <2>2, <2>3, Leaves
<1>7. CASE A!ConsumerRaises
    <2>1. msg # NoResult /\ A!Reject /\ A!EventLeft /\ UNCHANGED results
        BY <1>7 DEF A!ConsumerRaises, SideInv, A!TypeInv
    <2>. QED
        BY <1>2, <2>1, RejectStep
<1>. QED
    BY <1>4, <1>5, <1>6, <1>7

\* What the consumer saves: a terminal answer's outcome, whatever the record was.
LEMMA SavedOutcome ==
    ASSUME NEW r, NEW status \in A!Terminal
    PROVE  A!Updated(r, status) = Outcome(status)
BY DEF A!Updated, Outcome, A!Terminal

\* The save.
LEMMA SaveStep ==
    ASSUME SideInv, SideInv', EndInv, UNCHANGED <<answered, published, disruptions>>, A!Save
    PROVE  EndInv'
<1>1. /\ msg # NoResult /\ UNCHANGED <<post, results, events, dropped>>
      /\ seen \in A!Record /\ store \in [Experiments -> A!Record \cup {NoRecord}]
    BY DEF A!Save, SideInv, A!TypeInv, A!TypeOK
<1>2. /\ msg \in A!Result /\ msg.task \in Experiments
      /\ Pending \in Seq(A!Result) /\ 1 \in 1 .. Len(Pending) /\ Pending[1] = msg
    BY <1>1, BothAssume, A!PendingHead DEF SideInv, Pending
<1>. PICK t : t = msg.task
    OBVIOUS
<1>3. t \in Experiments /\ t \in published /\ (msg.status \in A!Terminal => t \in answered)
    BY <1>2 DEF EndInv, QueueInv
<1>4. /\ store'[t] = A!Updated(seen, msg.status)
      /\ \A j \in Experiments \ {t} : store'[j] = store[j]
    BY <1>1, <1>2 DEF A!Save
<1>5. store'[t] # NoRecord /\ store'[t].status = msg.status /\ store'[t].error # "enqueue"
    <2>1. msg.status \in A!Terminal \cup {"waiting_for_calibration"}
        BY <1>2 DEF A!Result
    <2>2. store'[t] \in A!Record
        BY <1>1, <1>4, <2>1, BothAssume, A!UpdatedIsRecord
    <2>3. store'[t].status = msg.status /\ store'[t].error # "enqueue"
        BY <1>4 DEF A!Updated
    <2>. QED
        BY <2>2, <2>3, BothAssume DEF A!ExperimentApiAssumption
<1>6. PostInv'
    <2>1. post[t] # "new"
        BY <1>3 DEF EndInv, PostInv
    <2>. QED
        BY <1>1, <1>3, <1>4, <1>5, <2>1 DEF EndInv, PostInv
<1>7. Grown(events, events') /\ Grown(dropped, dropped')
    BY <1>1 DEF Grown, SideInv, A!TypeInv, A!TypeOK
<1>8. \A j \in Experiments \ {t} : Shown(j)' => Shown(j) /\ store'[j] = store[j]
    BY <1>4 DEF Shown, A!IsTerminal
<1>9. CASE msg.status \notin A!Terminal
    <2>1. Pending' = Tail(Pending)
        <3>1. msg' = NoResult
            BY <1>9 DEF A!Save, A!Acked
        <3>. QED
            BY <1>1, <3>1, BothAssume, A!PendingHead DEF SideInv, Pending, A!TakenBack
    <2>2. ~Shown(t)'
        BY <1>5, <1>9 DEF Shown, A!IsTerminal
    <2>3. Calm
        BY <1>8, <2>2 DEF Calm
    <2>. QED
        BY <1>1, <1>6, <1>7, <1>9, <2>1, <2>3, Leaves
<1>10. CASE msg.status \in A!Terminal
    <2>1. Pending' = Pending
        BY <1>1, <1>10 DEF A!Save, Pending, A!TakenBack
    <2>2. store'[t] = Outcome(store'[t].status)
        BY <1>4, <1>5, <1>10, SavedOutcome
    <2>3. QueueInv'
        BY <2>1 DEF EndInv, QueueInv
    <2>4. SourceInv'
        <3>. SUFFICES ASSUME NEW j \in Experiments, Shown(j)'
                      PROVE  j \in answered /\ store'[j] = Outcome(store'[j].status)
            BY DEF SourceInv
        <3>1. CASE j = t
            BY <1>3, <1>10, <2>2, <3>1
        <3>2. CASE j # t
            BY <1>8, <3>2 DEF EndInv, SourceInv
        <3>. QED
            BY <3>1, <3>2
    <2>5. AnswerInv'
        BY <1>1, <2>1 DEF EndInv, AnswerInv, Accounted
    <2>6. CalmInv'
        <3>. SUFFICES ASSUME NEW j \in Experiments, disruptions[j] = 0, Shown(j)',
                             NEW a \in 1 .. Len(Pending), Pending[a].task = j
                      PROVE  Pending[a].status = store'[j].status
            BY <2>1 DEF EndInv, CalmInv
        <3>1. CASE j = t
            <4>1. a = 1
                <5>1. a > 1 => Pending[1].status \notin A!Terminal
                    BY <1>2, <1>3, <3>1 DEF EndInv, CalmInv
                <5>. QED
                    BY <1>2, <1>10, <5>1
            <4>. QED
                BY <1>2, <1>5, <3>1, <4>1
        <3>2. CASE j # t
            BY <1>8, <3>2 DEF EndInv, CalmInv
        <3>. QED
            BY <3>1, <3>2
    <2>. QED
        BY <1>6, <2>3, <2>4, <2>5, <2>6 DEF EndInv
<1>. QED
    BY <1>9, <1>10

\* The process goes down, with the store if it is in memory, and comes up.
LEMMA ProcessStep ==
    ASSUME SideInv, SideInv', EndInv, UNCHANGED <<answered, published, disruptions>>, ProcessMove
    PROVE  EndInv'
<1>1. store \in [Experiments -> A!Record \cup {NoRecord}]
      /\ post \in [Experiments -> {"new", "publish", "save_failed", "done"}]
    BY DEF SideInv, A!TypeInv, A!TypeOK
<1>2. /\ store' = store \/ (~Durable /\ store' = [i \in Experiments |-> NoRecord])
      /\ \A i \in Experiments : post'[i] = post[i] \/ (post[i] # "new" /\ post'[i] = "done")
    BY <1>1 DEF ProcessMove, A!Shutdown, A!Kill, A!Start
<1>3. PostInv'
    BY <1>2 DEF EndInv, PostInv
<1>4. Calm
    BY <1>2 DEF Calm, Shown, A!IsTerminal
<1>5. Grown(events, events) /\ Grown(dropped, dropped)
    BY DEF Grown, SideInv, A!TypeInv, A!TypeOK
<1>6. CASE A!Shutdown /\ msg # NoResult
    BY <1>3, <1>4, <1>6, RejectStep DEF A!Shutdown
<1>7. CASE A!Shutdown /\ msg = NoResult
    <2>1. UNCHANGED <<results, msg, dropped>> /\ A!EventLeft
        BY <1>7 DEF A!Shutdown
    <2>2. Pending' = Pending
        BY <2>1 DEF Pending, A!TakenBack
    <2>. QED
        BY <1>3, <1>4, <1>5, <2>1, <2>2, EventGrown, Stays
<1>8. CASE A!Kill
    <2>1. results' = A!TakenBack /\ msg' = NoResult /\ dropped' = dropped /\ A!EventLeft
        BY <1>8 DEF A!Kill
    <2>2. Pending' = Pending
        BY <2>1 DEF Pending, A!TakenBack
    <2>. QED
        BY <1>3, <1>4, <1>5, <2>1, <2>2, EventGrown, Stays
<1>9. CASE A!Start
    <2>1. UNCHANGED <<results, msg, dropped, events>>
        BY <1>9 DEF A!Start
    <2>2. Pending' = Pending
        BY <2>1 DEF Pending, A!TakenBack
    <2>. QED
        BY <1>3, <1>4, <1>5, <2>1, <2>2, Stays
<1>. QED
    BY <1>6, <1>7, <1>8, <1>9 DEF ProcessMove

-------------------------------------------------------------------------------
(* The invariant of the pipeline, and its theorems.                            *)

PipeInv == SideInv /\ EndInv

\* Every step keeps it.
LEMMA PipeStep == PipeInv /\ [Next]_vars => PipeInv'
<1>. SUFFICES ASSUME PipeInv, [Next]_vars PROVE EndInv'
    BY SideStep DEF PipeInv
<1>1. SideInv /\ SideInv' /\ EndInv
    BY SideStep DEF PipeInv
<1>2. ASSUME NEW i \in Experiments, W!PublishTask(i), A!Publish(i) \/ A!PublishRaises(i, TRUE)
      PROVE  EndInv'
    <2>1. UNCHANGED <<answered, disruptions>>
        BY <1>2 DEF W!PublishTask
    <2>. QED
        BY <1>1, <1>2, <2>1, HandlerStep
<1>3. ASSUME NEW i \in Experiments, A!PublishRaises(i, FALSE) \/ HandlerMove(i), UNCHANGED workerOwn
      PROVE  EndInv'
    <2>1. UNCHANGED <<answered, disruptions>>
        BY <1>3 DEF workerOwn, HandlerMove, A!PublishRaises, A!SaveQueued, A!SaveFailed,
                    A!SaveFailedRaises
    <2>. QED
        BY <1>1, <1>3, <2>1, HandlerStep DEF HandlerMove
<1>4. ASSUME A!Take \/ A!Consume \/ A!ConsumerRaises \/ ProcessMove, UNCHANGED workerOwn
      PROVE  EndInv'
    <2>1. UNCHANGED <<answered, published, disruptions>>
        BY <1>4 DEF workerOwn, ProcessMove, A!Take, A!Consume, A!Read, A!Save, A!PublishEvent,
                    A!ConsumerRaises, A!Shutdown, A!Kill, A!Start
    <2>. QED
        BY <1>1, <1>4, <2>1, ConsumerStep, SaveStep, ProcessStep DEF A!Consume
<1>5. ASSUME W!Move, UNCHANGED apiOwn PROVE EndInv'
    BY <1>1, <1>5, MoveStep
<1>6. ASSUME UNCHANGED vars PROVE EndInv'
    <2>1. UNCHANGED <<published, answered, disruptions, store, post, events, dropped>>
          /\ Pending' = Pending
        BY <1>6 DEF vars, workerOwn, apiOwn, Pending, A!TakenBack
    <2>. QED
        BY <1>1, <2>1 DEF EndInv, PostInv, QueueInv, SourceInv, AnswerInv, CalmInv, Accounted,
                          Shown, A!IsTerminal
<1>. QED
    BY <1>2, <1>3, <1>4, <1>5, <1>6, Steps

\* It holds throughout.
LEMMA SpecPipe == Spec => []PipeInv
<1>1. Init => PipeInv
    BY SideInit, EndInit DEF PipeInv
<1>. QED
    BY <1>1, PipeStep, PTL DEF Spec

\* A sequence's entries are its members.
LEMMA Members ==
    ASSUME NEW S, NEW s \in Seq(S), NEW n \in 1 .. Len(s)
    PROVE  s[n] \in ToSet(s)
BY DEF ToSet

\* An answer pending is in a queue or under work.
LEMMA PendingInTransit ==
    ASSUME A!TypeInv, NEW i, NEW a \in 1 .. Len(Pending),
           Pending[a].task = i, Pending[a].status \in A!Terminal
    PROVE  AnswerInTransit(i)
<1>1. results \in Seq(A!Result) /\ NoResult \notin A!Result /\ msg \in A!Result \cup {NoResult}
    BY BothAssume DEF A!TypeInv, A!TypeOK, A!ExperimentApiAssumption
<1>2. Pending[a] \in ToSet(results) \cup {msg}
    <2>1. CASE msg = NoResult
        BY <1>1, <2>1, Members DEF Pending, A!TakenBack
    <2>2. CASE msg # NoResult
        <3>1. Pending[1] = msg /\ Tail(Pending) = results /\ Pending \in Seq(A!Result)
            BY <2>2, BothAssume, A!PendingHead DEF Pending
        <3>2. a # 1 => a - 1 \in 1 .. Len(results) /\ results[a - 1] = Pending[a]
            BY <3>1
        <3>. QED
            BY <1>1, <3>1, <3>2, Members
    <2>. QED
        BY <2>1, <2>2
<1>3. Pending[a] \in A!Result
    <2>1. Pending \in Seq(A!Result)
        BY BothAssume, A!PendingTyped DEF Pending
    <2>. QED
        BY <2>1
<1>4. Api!Terminal = A!Terminal
    BY DEF Api!Terminal, A!Terminal
<1>. QED
    BY <1>1, <1>2, <1>3, <1>4 DEF AnswerInTransit

\* With the durable store no accepted experiment disappears between the services, for
\* any number of experiments, workers, limits and faults on either side: whatever
\* crashes at which await, its outcome is shown, announced or on its way, or it is
\* parked, or a queue holds its task.  (The in-memory store forgets, by design.)
THEOREM ExperimentsAreNeverLost == Spec => [](Durable => NoExperimentLost)
<1>1. PipeInv => (Durable => NoExperimentLost)
    <2>. SUFFICES ASSUME PipeInv, Durable, NEW i \in published
                  PROVE  \/ Api!IsTerminal(i) \/ Announced(i)
                         \/ i \in dlq
                         \/ AnswerInTransit(i) \/ Rejected(i)
                         \/ \E m \in Orchestrator!LiveCopies : m.task = i
        BY DEF NoExperimentLost
    <2>1. i \in answered \cup dlq \/ \E m \in W!LiveCopies : m.task = i
        BY DEF PipeInv, SideInv, W!TaskInv, W!LossInv, W!NoTaskLost, W!Settled
    <2>2. W!LiveCopies = Orchestrator!LiveCopies
        BY DEF W!LiveCopies, Orchestrator!LiveCopies, W!Owned, Orchestrator!Owned,
               W!Handling, Orchestrator!Handling, W!ToSet, Orchestrator!ToSet
    <2>3. CASE i \in answered
        <3>1. Accounted(i) /\ A!TypeInv
            BY <2>3 DEF PipeInv, SideInv, EndInv, AnswerInv
        <3>2. events \in Seq([task : Experiments, status : A!Terminal]) /\ dropped \in Seq(A!Result)
            BY <3>1 DEF A!TypeInv, A!TypeOK
        <3>3. CASE \E n \in 1 .. Len(events) : events[n].task = i
            <4>1. Announced(i)
                BY <3>2, <3>3, Members DEF Announced
            <4>. QED
                BY <4>1
        <3>4. CASE \E n \in 1 .. Len(dropped) :
                        dropped[n].task = i /\ dropped[n].status \in A!Terminal
            <4>1. Rejected(i)
                BY <3>2, <3>4, Members DEF Rejected, A!Terminal, Api!Terminal
            <4>. QED
                BY <4>1
        <3>5. CASE \E a \in 1 .. Len(Pending) :
                        Pending[a].task = i /\ Pending[a].status \in A!Terminal
            BY <3>1, <3>5, PendingInTransit
        <3>. QED
            BY <3>1, <3>3, <3>4, <3>5 DEF Accounted
    <2>. QED
        BY <2>1, <2>2, <2>3
<1>. QED
    BY <1>1, SpecPipe, PTL

\* No crash makes the API invent an outcome: one that GET shows was produced by a
\* worker, or the handler had to take the task for not enqueued.  With either store,
\* for any experiments, workers, limits and faults.
THEOREM OutcomesHaveASource == Spec => []OutcomeHasSource
<1>1. PipeInv => OutcomeHasSource
    <2>. SUFFICES ASSUME PipeInv, NEW i \in Experiments, Api!IsTerminal(i)
                  PROVE  IF store[i].error = "enqueue" THEN Ambiguous \/ i \notin published
                                                       ELSE i \in answered
        BY DEF OutcomeHasSource
    <2>1. A!IsTerminal(i)
        BY DEF Api!IsTerminal, A!IsTerminal, Api!Terminal, A!Terminal
    <2>. QED
        BY <2>1 DEF PipeInv, EndInv, PostInv, SourceInv, Shown, A!IsTerminal
<1>. QED
    BY <1>1, SpecPipe, PTL

\* What a step may do to an outcome shown by the durable store.
LEMMA Revocation ==
    ASSUME PipeInv, [Next]_vars, Durable, NEW i \in Experiments,
           A!IsTerminal(i), store'[i] # store[i]
    PROVE  \/ disruptions[i] > 0
           \/ Ambiguous /\ (post[i] = "save_failed" \/ store[i].error = "enqueue")
<1>1. /\ A!TypeInv /\ store \in [Experiments -> A!Record \cup {NoRecord}] /\ store[i] # NoRecord
      /\ disruptions[i] \in Nat
    BY DEF PipeInv, SideInv, W!TaskInv, W!LossInv, W!TypeOK, A!TypeInv, A!TypeOK, A!IsTerminal
<1>2. Shown(i) => i \in published /\ i \in answered
    BY DEF PipeInv, SideInv, W!TaskInv, W!CopyInv, EndInv, SourceInv
<1>3. CASE A!SaveFailed(i)
    <2>1. post[i] = "save_failed"
        BY <1>3 DEF A!SaveFailed
    <2>2. store[i].error # "enqueue"
        BY <1>1, <2>1 DEF PipeInv, EndInv, PostInv
    <2>. QED
        BY <1>2, <2>1, <2>2 DEF PipeInv, EndInv, PostInv, Shown
<1>4. CASE A!Save
    <2>1. /\ msg # NoResult /\ msg.task = i /\ store'[i] = A!Updated(seen, msg.status)
          /\ msg \in A!Result
        BY <1>1, <1>4 DEF A!Save, A!TypeInv, A!TypeOK
    <2>2. 1 \in 1 .. Len(Pending) /\ Pending[1] = msg /\ Pending[1].task = i
        BY <1>1, <2>1, BothAssume, A!PendingHead DEF Pending
    <2>3. CASE store[i].error = "enqueue"
        <3>1. i \in published
            BY <2>2 DEF PipeInv, EndInv, QueueInv
        <3>. QED
            BY <1>1, <2>3, <3>1 DEF PipeInv, EndInv, PostInv
    <2>4. CASE Shown(i) /\ disruptions[i] = 0
        <3>1. msg.status = store[i].status /\ store[i] = Outcome(store[i].status)
            BY <2>2, <2>4 DEF PipeInv, EndInv, CalmInv, SourceInv
        <3>2. store'[i] = Outcome(msg.status)
            BY <2>1, <3>1, SavedOutcome DEF A!IsTerminal
        <3>. QED
            BY <3>1, <3>2
    <2>. QED
        BY <1>1, <2>3, <2>4 DEF Shown
<1>5. ASSUME NEW j \in Experiments, A!SaveQueued(j) PROVE FALSE
    BY <1>1, <1>5 DEF A!SaveQueued, PipeInv, EndInv, PostInv
<1>6. ASSUME NEW j \in Experiments, A!SaveFailed(j) PROVE j = i
    BY <1>1, <1>6 DEF A!SaveFailed
<1>7. ASSUME UNCHANGED store PROVE FALSE
    BY <1>7
<1>8. ASSUME NEW j \in Experiments,
             \/ A!Publish(j) \/ A!SaveFailedRaises(j) \/ \E taken \in BOOLEAN : A!PublishRaises(j, taken)
      PROVE  FALSE
    BY <1>7, <1>8 DEF A!Publish, A!SaveFailedRaises, A!PublishRaises
<1>9. ASSUME A!Take \/ A!Read \/ A!PublishEvent \/ A!ConsumerRaises PROVE FALSE
    BY <1>7, <1>9 DEF A!Take, A!Read, A!PublishEvent, A!ConsumerRaises
<1>10. ASSUME ProcessMove PROVE FALSE
    BY <1>7, <1>10 DEF ProcessMove, A!Shutdown, A!Kill, A!Start
<1>11. ASSUME UNCHANGED apiOwn \/ UNCHANGED vars PROVE FALSE
    BY <1>7, <1>11 DEF vars, apiOwn
<1>. QED
    BY <1>3, <1>4, <1>5, <1>6, <1>8, <1>9, <1>10, <1>11, Steps DEF HandlerMove, A!Consume

\* What takes back an outcome that the durable store has shown is a redelivery of that
\* very experiment's task, or a publish that raised although the broker had the task:
\* nothing else, for any interleaving of handlers, workers and crashes.
THEOREM OnlyDisruptionRevokes == Durable => (Spec => RevokedOnlyByDisruption)
<1>. SUFFICES ASSUME Durable PROVE Spec => RevokedOnlyByDisruption
    OBVIOUS
<1>1. PipeInv /\ [Next]_vars =>
        [\A i \in Experiments :
            Api!IsTerminal(i) /\ store'[i] # store[i] =>
               \/ disruptions[i] > 0
               \/ Ambiguous /\ (post[i] = "save_failed" \/ store[i].error = "enqueue")]_store
    <2>1. \A i \in Experiments : Api!IsTerminal(i) <=> A!IsTerminal(i)
        BY DEF Api!IsTerminal, A!IsTerminal, Api!Terminal, A!Terminal
    <2>. QED
        BY <2>1, Revocation
<1>. QED
    BY <1>1, SpecPipe, PTL DEF Spec, RevokedOnlyByDisruption

\* A task that the queue does not get is no step of the ledger, and neither is
\* what the API does with its record or a result.
LEMMA PipeLedger == SideInv /\ SideInv' /\ [Next]_vars => [W!Ledger!Next]_(W!Ledger!vars)
<1>. SUFFICES ASSUME SideInv, SideInv', [Next]_vars PROVE [W!Ledger!Next]_(W!Ledger!vars)
    OBVIOUS
<1>1. W!TaskInv /\ W!TaskInv'
    BY DEF SideInv
<1>2. CASE W!Next
    BY <1>1, <1>2, W!LedgerMove, BothAssume
<1>3. CASE UNCHANGED <<workerOwn, answered>>
    BY <1>3, W!LedgerRests, BothAssume DEF workerOwn
<1>4. W!Next \/ UNCHANGED <<workerOwn, answered>>
    <2>1. ASSUME NEW i \in Experiments, W!PublishTask(i) PROVE W!Next
        BY <2>1 DEF W!Next
    <2>2. ASSUME NEW i \in Experiments, A!PublishRaises(i, FALSE) \/ HandlerMove(i)
          PROVE  UNCHANGED answered
        BY <2>2 DEF A!PublishRaises, HandlerMove, A!SaveQueued, A!SaveFailed,
                    A!SaveFailedRaises
    <2>3. ASSUME A!Take \/ A!Consume \/ A!ConsumerRaises \/ ProcessMove
          PROVE  UNCHANGED answered
        BY <2>3 DEF ProcessMove, A!Take, A!Consume, A!Read, A!Save, A!PublishEvent,
                    A!ConsumerRaises, A!Shutdown, A!Kill, A!Start
    <2>4. W!Move => W!Next
        BY DEF W!Next, W!Move
    <2>5. UNCHANGED vars => UNCHANGED <<workerOwn, answered>>
        BY DEF vars
    <2>. QED
        BY <2>1, <2>2, <2>3, <2>4, <2>5, Steps
<1>. QED
    BY <1>2, <1>3, <1>4

\* The orchestrator keeps its ledger also when the API submits its tasks and
\* consumes its results, with publishes that raise, kills and restarts on that side:
\* an accepted experiment is opened once, and closed only when answered or parked.
THEOREM PipelineKeepsLedger == Spec => W!LedgerSpec
<1>1. Init => W!Ledger!Init
    <2>1. Orchestrator!Init => W!Init
        BY DEF Orchestrator!Init, W!Init
    <2>. QED
        BY <2>1, W!LedgerInit, BothAssume DEF Init
<1>. QED
    BY <1>1, SideInit, SideStep, PipeLedger, PTL DEF Spec, W!LedgerSpec, W!Ledger!Spec

\* Joined with the API the orchestrator keeps every promise it keeps alone: nothing
\* the API does takes a copy away or adds a disruption.
THEOREM OrchestratorKeepsItsPromises ==
    Spec => [](/\ W!NoTaskLost /\ W!AckHasSuccessor /\ W!HeadersBounded
               /\ W!RetriesArePaid /\ W!DeadLetterJustified /\ W!ExecutionsArePaid)
<1>1. SideInv => /\ W!NoTaskLost /\ W!AckHasSuccessor /\ W!HeadersBounded
                 /\ W!RetriesArePaid /\ W!DeadLetterJustified /\ W!ExecutionsArePaid
    BY BothAssume, W!TaskPromises DEF SideInv
<1>. QED
    BY <1>1, SideInit, SideStep, PTL DEF Spec

\* Nobody writes a record between the consumer's get and its save, also when the
\* results are those of workers that crash, are disconnected and answer twice: the
\* handler's last write precedes its publish or follows one that failed.
LEMMA SeenStep ==
    PipeInv /\ (~Ambiguous => A!NoLostUpdate) /\ [Next]_vars => (~Ambiguous => A!NoLostUpdate)'
<1>. SUFFICES ASSUME PipeInv, ~Ambiguous, A!NoLostUpdate, [Next]_vars PROVE A!NoLostUpdate'
    OBVIOUS
<1>. USE DEF A!NoLostUpdate
<1>1. /\ store \in [Experiments -> A!Record \cup {NoRecord}]
      /\ consumer = "save" => msg # NoResult /\ msg.task \in Experiments
    BY DEF PipeInv, SideInv, A!TypeInv, A!TypeOK, A!Result
<1>2. consumer = "save" => msg.task \in published
    <2>1. msg # NoResult => 1 \in 1 .. Len(Pending) /\ Pending[1] = msg
        BY BothAssume, A!PendingHead DEF PipeInv, SideInv, Pending
    <2>. QED
        BY <1>1, <2>1 DEF PipeInv, EndInv, QueueInv
<1>3. PostInv
    BY DEF PipeInv, EndInv
<1>4. ASSUME NEW i \in Experiments, A!Publish(i) \/ A!PublishRaises(i, TRUE) \/ A!PublishRaises(i, FALSE)
      PROVE  A!NoLostUpdate'
    BY <1>4 DEF A!Publish, A!PublishRaises
<1>5. ASSUME NEW i \in Experiments, HandlerMove(i)
      PROVE  A!NoLostUpdate'
    <2>1. UNCHANGED <<consumer, msg, seen>> /\ \A j \in Experiments : j # i => store'[j] = store[j]
        BY <1>1, <1>5 DEF HandlerMove, A!SaveQueued, A!SaveFailed, A!SaveFailedRaises
    <2>2. store' # store => i \notin published
        BY <1>3, <1>5 DEF HandlerMove, A!SaveQueued, A!SaveFailed, A!SaveFailedRaises, PostInv
    <2>. QED
        BY <1>1, <1>2, <2>1, <2>2
<1>6. ASSUME A!Take \/ A!Consume \/ A!ConsumerRaises \/ ProcessMove
      PROVE  A!NoLostUpdate'
    BY <1>6 DEF ProcessMove, A!Take, A!Consume, A!Read, A!Save, A!PublishEvent, A!Acked,
                A!ConsumerRaises, A!Shutdown, A!Kill, A!Start
<1>7. CASE UNCHANGED apiOwn \/ UNCHANGED vars
    BY <1>7 DEF vars, apiOwn
<1>. QED
    BY <1>4, <1>5, <1>6, <1>7, Steps

\* With the durable store every result that the workers send is of a known experiment,
\* and unless a publish that raises may have worked the consumer's read and save of a
\* record are one: for any workers, limits and faults on either side.
THEOREM ResultsMeetTheirRecords == Spec => [](A!NoUnknownResult /\ (~Ambiguous => A!NoLostUpdate))
<1>1. PipeInv => A!NoUnknownResult
    <2>. SUFFICES ASSUME PipeInv, Durable, consumer = "read" PROVE store[msg.task] # NoRecord
        BY DEF A!NoUnknownResult
    <2>1. msg # NoResult /\ msg.task \in Experiments
        BY DEF PipeInv, SideInv, A!TypeInv, A!TypeOK, A!Result
    <2>2. 1 \in 1 .. Len(Pending) /\ Pending[1] = msg
        BY <2>1, BothAssume, A!PendingHead DEF PipeInv, SideInv, Pending
    <2>. QED
        BY <2>1, <2>2 DEF PipeInv, EndInv, QueueInv, PostInv
<1>2. Init => (~Ambiguous => A!NoLostUpdate)
    BY DEF Init, Api!Init, Api!ApiInit, A!NoLostUpdate
<1>. QED
    BY <1>1, <1>2, SpecPipe, SeenStep, PTL DEF Spec
===============================================================================
