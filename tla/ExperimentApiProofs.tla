-------------------------- MODULE ExperimentApiProofs --------------------------
(* Proofs about the API process, its store and the indexer of its events, for  *)
(* any experiments and faults: types, what the consumer knows at each of its   *)
(* awaits, what a completion event promises, that no answer is lost, and that  *)
(* the index is a projection of the events.                                    *)
EXTENDS ResultIndexer, TLAPS

\* An entry of a sequence is one of its kind.
LEMMA ElementOf ==
    ASSUME NEW S, NEW s \in Seq(S), NEW n \in 1 .. Len(s)
    PROVE  s[n] \in S
OBVIOUS

\* The message under work and its type go together, and an event follows a
\* terminal answer.
TypeInv ==
    /\ TypeOK
    /\ msg # NoResult <=> consumer \in {"read", "save", "event"}
    /\ api = "down" <=> consumer = "off"
    /\ consumer = "save" => seen # NoRecord
    /\ consumer = "event" => msg.status \in Terminal

\* The first state is typed.
LEMMA TypeInit == Init => TypeInv
BY ExperimentApiAssumption
   DEF Init, ApiInit, TypeInv, TypeOK, Terminal, Result

\* Saving what an answer makes of a record keeps the records well formed.
LEMMA UpdatedIsRecord ==
    ASSUME NEW r \in Record, NEW s \in Terminal \cup {"waiting_for_calibration"}
    PROVE  Updated(r, s) \in Record
<1>1. r.result \in BOOLEAN /\ s \in {"completed", "failed", "waiting_for_calibration"}
    BY DEF Record, Terminal
<1>2. CASE s = "completed"
    <2>1. Updated(r, s) = [status |-> "completed", completed_at |-> TRUE, result |-> TRUE,
                           error |-> "none"]
        BY <1>2 DEF Updated, Terminal
    <2>. QED
        BY <2>1 DEF Record, Statuses, Terminal
<1>3. CASE s = "failed"
    <2>1. Updated(r, s) = [status |-> "failed", completed_at |-> TRUE, result |-> FALSE,
                           error |-> "task"]
        BY <1>3, "failed" # "completed" DEF Updated, Terminal
    <2>. QED
        BY <2>1 DEF Record, Statuses, Terminal
<1>4. CASE s = "waiting_for_calibration"
    <2>1. (s \in Terminal) = FALSE /\ (s = "failed") = FALSE
        BY <1>4 DEF Terminal
    <2>2. Updated(r, s) = [status |-> s, completed_at |-> FALSE, result |-> r.result,
                           error |-> "none"]
        BY <2>1, Zenon DEF Updated
    <2>3. CASE r.result = TRUE
        <3>1. Updated(r, s) = [status |-> "waiting_for_calibration", completed_at |-> FALSE,
                               result |-> TRUE, error |-> "none"]
            BY <1>4, <2>2, <2>3, Zenon
        <3>. QED
            BY <3>1 DEF Record, Statuses, Terminal
    <2>4. CASE r.result = FALSE
        <3>1. Updated(r, s) = [status |-> "waiting_for_calibration", completed_at |-> FALSE,
                               result |-> FALSE, error |-> "none"]
            BY <1>4, <2>2, <2>4, Zenon
        <3>. QED
            BY <3>1 DEF Record, Statuses, Terminal
    <2>. QED
        BY <1>1, <2>3, <2>4
<1>. QED
    BY <1>1, <1>2, <1>3, <1>4

\* The record is typed on its way to the store.
LEMMA PostRecords == Queued \in Record /\ NotEnqueued \in Record
BY DEF Queued, NotEnqueued, Record, Statuses, Terminal

\* The topic holds completion events only.
LEMMA EventLeftTyped ==
    ASSUME TypeInv, EventLeft
    PROVE  events' \in Seq([task : Ids, status : Terminal])
<1>1. CASE events' = events
    BY <1>1 DEF TypeInv, TypeOK
<1>2. CASE consumer = "event" /\ events' = Announcement
    <2>1. msg \in Result /\ msg.status \in Terminal
        BY <1>2 DEF TypeInv, TypeOK
    <2>2. [task |-> msg.task, status |-> msg.status] \in [task : Ids, status : Terminal]
        BY <2>1 DEF Result
    <2>. QED
        BY <1>2, <2>2 DEF Announcement, TypeInv, TypeOK
<1>. QED
    BY <1>1, <1>2 DEF EventLeft

\* Every step keeps the types.
LEMMA TypeStep == TypeInv /\ [Next]_vars => TypeInv'
<1>. SUFFICES ASSUME TypeInv, [Next]_vars PROVE TypeInv'
    OBVIOUS
<1>. USE ExperimentApiAssumption
<1>0. faults \in Nat /\ MaxFaults \in Nat /\ (Fault => faults' \in 0 .. MaxFaults)
    BY DEF TypeInv, TypeOK, Fault
<1>1. ASSUME NEW i \in Ids, Submit(i) \/ Publish(i) PROVE TypeInv'
    <2>1. CASE SaveQueued(i)
        BY <2>1, PostRecords DEF SaveQueued, TypeInv, TypeOK
    <2>2. CASE Publish(i)
        BY <2>2 DEF Publish, TypeInv, TypeOK
    <2>3. ASSUME NEW taken \in BOOLEAN, PublishRaises(i, taken) PROVE TypeInv'
        BY <1>0, <2>3 DEF PublishRaises, TypeInv, TypeOK
    <2>4. CASE SaveFailed(i)
        BY <2>4, PostRecords DEF SaveFailed, TypeInv, TypeOK
    <2>5. CASE SaveFailedRaises(i)
        BY <1>0, <2>5 DEF SaveFailedRaises, TypeInv, TypeOK
    <2>. QED
        BY <1>1, <2>1, <2>2, <2>3, <2>4, <2>5 DEF Submit
<1>2. CASE Take
    <2>1. Head(results) \in Result /\ Tail(results) \in Seq(Result)
        BY <1>2 DEF Take, TypeInv, TypeOK
    <2>. QED
        BY <1>2, <2>1 DEF Take, TypeInv, TypeOK
<1>3. CASE Read
    <2>1. msg \in Result /\ msg.task \in Ids
        BY <1>3 DEF Read, TypeInv, TypeOK, Result
    <2>2. CASE Known(msg.task)
        <3>1. store[msg.task] \in Record
            BY <2>1, <2>2 DEF Known, TypeInv, TypeOK
        <3>. QED
            BY <1>3, <2>1, <2>2, <3>1 DEF Read, Known, TypeInv, TypeOK
    <2>3. CASE ~Known(msg.task)
        BY <1>3, <2>3 DEF Read, Acked, TypeInv, TypeOK
    <2>. QED
        BY <2>2, <2>3
<1>4. CASE Save
    <2>1. msg \in Result /\ msg.task \in Ids /\ seen \in Record
        BY <1>4 DEF Save, TypeInv, TypeOK, Result
    <2>2. Updated(seen, msg.status) \in Record
        BY <2>1, UpdatedIsRecord DEF Result
    <2>3. store' \in [Ids -> Record \cup {NoRecord}]
        BY <1>4, <2>1, <2>2 DEF Save, TypeInv, TypeOK
    <2>. QED
        BY <1>4, <2>1, <2>3 DEF Save, Acked, TypeInv, TypeOK
<1>5. CASE PublishEvent
    <2>1. events' \in Seq([task : Ids, status : Terminal])
        BY <1>5, EventLeftTyped DEF PublishEvent, EventLeft
    <2>. QED
        BY <1>5, <2>1 DEF PublishEvent, Acked, TypeInv, TypeOK
<1>6. CASE ConsumerRaises
    <2>1. events' \in Seq([task : Ids, status : Terminal])
        BY <1>6, EventLeftTyped DEF ConsumerRaises
    <2>2. msg \in Result
        BY <1>6 DEF ConsumerRaises, TypeInv, TypeOK
    <2>3. dropped' \in Seq(Result)
        BY <1>6, <2>2 DEF ConsumerRaises, Reject, TypeInv, TypeOK
    <2>. QED
        BY <1>0, <1>6, <2>1, <2>3 DEF ConsumerRaises, Reject, TypeInv, TypeOK
<1>7. CASE Shutdown
    <2>1. events' \in Seq([task : Ids, status : Terminal])
        BY <1>7, EventLeftTyped DEF Shutdown
    <2>2. dropped' \in Seq(Result) /\ msg' = NoResult /\ seen' \in Record \cup {NoRecord}
        <3>1. CASE msg # NoResult
            <4>1. Reject /\ msg \in Result
                BY <1>7, <3>1 DEF Shutdown, TypeInv, TypeOK
            <4>. QED
                BY <4>1 DEF Reject, TypeInv, TypeOK
        <3>2. CASE msg = NoResult
            BY <1>7, <3>2 DEF Shutdown, TypeInv, TypeOK
        <3>. QED
            BY <3>1, <3>2
    <2>3. store' \in [Ids -> Record \cup {NoRecord}]
        BY <1>7 DEF Shutdown, TypeInv, TypeOK
    <2>. QED
        BY <1>0, <1>7, <2>1, <2>2, <2>3 DEF Shutdown, TypeInv, TypeOK
<1>8. CASE Kill
    <2>1. events' \in Seq([task : Ids, status : Terminal])
        BY <1>8, EventLeftTyped DEF Kill
    <2>2. results' \in Seq(Result)
        BY <1>8 DEF Kill, TakenBack, TypeInv, TypeOK
    <2>3. store' \in [Ids -> Record \cup {NoRecord}]
        BY <1>8 DEF Kill, TypeInv, TypeOK
    <2>4. post' \in [Ids -> {"new", "publish", "save_failed", "done"}]
        BY <1>8 DEF Kill
    <2>. QED
        BY <1>0, <1>8, <2>1, <2>2, <2>3, <2>4 DEF Kill, TypeInv, TypeOK
<1>9. CASE Start
    BY <1>9 DEF Start, TypeInv, TypeOK
<1>10. ASSUME NEW i \in Ids, Announce(i) PROVE TypeInv'
    <2>1. [task |-> i, status |-> "waiting_for_calibration"] \in Result
        BY DEF Result
    <2>. QED
        BY <1>10, <2>1 DEF Announce, apiVars, TypeInv, TypeOK
<1>11. ASSUME NEW i \in Ids, NEW status \in Terminal, Finish(i, status) PROVE TypeInv'
    <2>1. [task |-> i, status |-> status] \in Result
        BY DEF Result
    <2>. QED
        BY <1>11, <2>1 DEF Finish, apiVars, TypeInv, TypeOK
<1>12. CASE UNCHANGED vars
    BY <1>12 DEF vars, apiVars, TypeInv, TypeOK
<1>. QED
    BY <1>1, <1>2, <1>3, <1>4, <1>5, <1>6, <1>7, <1>8, <1>9, <1>10, <1>11, <1>12
       DEF Next, Consume

\* Of the answers still to be worked on, in their order, each is of a task that was
\* given out; a terminal one is its task's last and only, and is there as long as any.
QueueInv(q, given, answered) ==
    /\ \A a \in 1 .. Len(q) :
        /\ q[a].task \in given
        /\ q[a].status \in Terminal => q[a].task \in answered
        /\ q[a].task \in answered =>
            \E b \in a .. Len(q) : q[b].task = q[a].task /\ q[b].status \in Terminal
    /\ \A a, b \in 1 .. Len(q) : a < b /\ q[a].task = q[b].task => q[a].status \notin Terminal

\* Taking the first away disturbs no other.
LEMMA QueueInvTail ==
    ASSUME NEW q \in Seq(Result), q # <<>>, NEW given, NEW answered,
           QueueInv(q, given, answered)
    PROVE  QueueInv(Tail(q), given, answered)
<1>1. Len(q) \in Nat \ {0} /\ Len(Tail(q)) = Len(q) - 1
    OBVIOUS
<1>2. \A a \in 1 .. Len(q) - 1 : Tail(q)[a] = q[a + 1] /\ a + 1 \in 1 .. Len(q)
    BY <1>1
<1>3. ASSUME NEW a \in 1 .. Len(q) - 1, q[a + 1].task \in answered
      PROVE  \E b \in a .. Len(q) - 1 :
                Tail(q)[b].task = q[a + 1].task /\ Tail(q)[b].status \in Terminal
    <2>1. PICK b \in a + 1 .. Len(q) : q[b].task = q[a + 1].task /\ q[b].status \in Terminal
        BY <1>2, <1>3 DEF QueueInv
    <2>2. b - 1 \in a .. Len(q) - 1 /\ b - 1 \in 1 .. Len(q) - 1 /\ (b - 1) + 1 = b
        BY <1>1
    <2>. QED
        BY <1>2, <2>1, <2>2
<1>. QED
    BY <1>1, <1>2, <1>3 DEF QueueInv

\* What is added is of a task without a terminal answer.
LEMMA QueueInvAppend ==
    ASSUME NEW q \in Seq(Result), NEW r \in Result, NEW given, NEW answered, NEW after,
           QueueInv(q, given, answered),
           r.task \in given \ answered,
           after = IF r.status \in Terminal THEN answered \cup {r.task} ELSE answered
    PROVE  QueueInv(Append(q, r), given, after)
<1>. DEFINE n == Len(q)
            s == Append(q, r)
<1>1. n \in Nat /\ Len(s) = n + 1 /\ s[n + 1] = r /\ \A a \in 1 .. n : s[a] = q[a]
    OBVIOUS
<1>2. \A a \in 1 .. n : q[a].task = r.task => q[a].status \notin Terminal
    BY DEF QueueInv
<1>3. ASSUME NEW a \in 1 .. n + 1, s[a].task \in after
      PROVE  \E b \in a .. n + 1 : s[b].task = s[a].task /\ s[b].status \in Terminal
    <2>1. CASE s[a].task = r.task
        BY <1>1, <1>3, <2>1
    <2>2. CASE s[a].task # r.task
        <3>1. a \in 1 .. n /\ s[a] = q[a] /\ q[a].task \in answered
            BY <1>1, <1>3, <2>2
        <3>2. PICK b \in a .. n : q[b].task = q[a].task /\ q[b].status \in Terminal
            BY <3>1 DEF QueueInv
        <3>3. b \in a .. n + 1 /\ s[b] = q[b]
            BY <1>1, <3>1
        <3>. QED
            BY <3>1, <3>2, <3>3
    <2>. QED
        BY <2>1, <2>2
<1>4. \A a \in 1 .. n + 1 :
        s[a].task \in given /\ (s[a].status \in Terminal => s[a].task \in after)
    BY <1>1 DEF QueueInv
<1>5. \A a, b \in 1 .. n + 1 : a < b /\ s[a].task = s[b].task => s[a].status \notin Terminal
    <2>. SUFFICES ASSUME NEW a \in 1 .. n + 1, NEW b \in 1 .. n + 1,
                         a < b, s[a].task = s[b].task
                  PROVE  s[a].status \notin Terminal
        OBVIOUS
    <2>1. a \in 1 .. n /\ s[a] = q[a]
        BY <1>1
    <2>2. CASE b = n + 1
        BY <1>1, <1>2, <2>1, <2>2
    <2>3. CASE b # n + 1
        BY <1>1, <2>1, <2>3 DEF QueueInv
    <2>. QED
        BY <2>2, <2>3
<1>. QED
    BY <1>1, <1>3, <1>4, <1>5 DEF QueueInv

-------------------------------------------------------------------------------
\* A task is given out by its POST handler, after the record is there and not before
\* the publish; only a publish that failed visibly but worked lets the handler
\* write after it.
PostInv ==
    /\ \A i \in Ids :
        /\ post[i] \in {"new", "publish"} => i \notin enqueued
        /\ ~Ambiguous /\ post[i] = "save_failed" => i \notin enqueued
        /\ Durable /\ post[i] # "new" => store[i] # NoRecord
    /\ finished \subseteq enqueued

\* What the consumer knows at its awaits.
ConsumerInv ==
    /\ ~Ambiguous /\ consumer = "save" => store[msg.task] = seen
    /\ Durable /\ consumer = "event" =>
        /\ IsTerminal(msg.task)
        /\ ~Ambiguous => store[msg.task].status = msg.status

\* What follows an announced answer can only repeat it.
EventsInv ==
    \A n \in 1 .. Len(events) :
        LET e == events[n] IN
        /\ e.task \in finished
        /\ Durable /\ ~Ambiguous => IsTerminal(e.task) /\ store[e.task].status = e.status
        /\ \A a \in 1 .. Len(TakenBack) :
            TakenBack[a].task = e.task => TakenBack[a].status = e.status

\* AnswersAccounted, with what is worked on still in its queue.
AccountInv ==
    \A i \in finished :
        \/ \E a \in 1 .. Len(TakenBack) : TakenBack[a].task = i /\ TakenBack[a].status \in Terminal
        \/ \E a \in 1 .. Len(dropped) : dropped[a].task = i /\ dropped[a].status \in Terminal
        \/ Durable => IsTerminal(i)

IInv ==
    /\ TypeInv
    /\ QueueInv(TakenBack, enqueued, finished)
    /\ PostInv
    /\ ConsumerInv
    /\ EventsInv
    /\ AccountInv

\* It holds at the start.
LEMMA InvInit == Init => IInv
<1>. SUFFICES ASSUME Init PROVE IInv
    OBVIOUS
<1>1. TypeInv
    BY TypeInit
<1>2. TakenBack = <<>> /\ events = <<>> /\ finished = {} /\ enqueued = {}
    BY DEF Init, ApiInit, TakenBack
<1>3. Len(TakenBack) = 0 /\ Len(events) = 0
    BY <1>2
<1>. QED
    BY <1>1, <1>2, <1>3
       DEF IInv, QueueInv, PostInv, ConsumerInv, EventsInv, AccountInv, Init, ApiInit

\* The message under work is the first of what is left to do.
LEMMA PendingHead ==
    ASSUME TypeInv, msg # NoResult
    PROVE  /\ msg \in Result /\ msg.task \in Ids
           /\ TakenBack \in Seq(Result) /\ TakenBack # <<>>
           /\ 1 \in 1 .. Len(TakenBack) /\ TakenBack[1] = msg
           /\ Tail(TakenBack) = results
<1>1. msg \in Result /\ results \in Seq(Result) /\ TakenBack = <<msg>> \o results
    BY DEF TypeInv, TypeOK, TakenBack
<1>2. Len(TakenBack) = Len(results) + 1 /\ Len(results) \in Nat /\ TakenBack \in Seq(Result)
    BY <1>1
<1>3. TakenBack[1] = msg
    BY <1>1
<1>4. Tail(TakenBack) = results
    BY <1>1
<1>. QED
    BY <1>1, <1>2, <1>3, <1>4 DEF Result

\* What is left to do is a sequence of results.
LEMMA PendingTyped == TypeInv => TakenBack \in Seq(Result)
<1>. SUFFICES ASSUME TypeInv PROVE TakenBack \in Seq(Result)
    OBVIOUS
<1>1. CASE msg = NoResult
    BY <1>1 DEF TakenBack, TypeInv, TypeOK
<1>. QED
    BY <1>1, PendingHead

\* The answer under work is of a task that was given out.
LEMMA MsgGiven ==
    ASSUME IInv, msg # NoResult
    PROVE  /\ msg.task \in enqueued
           /\ msg.status \in Terminal => msg.task \in finished
           /\ \A a \in 2 .. Len(TakenBack) :
                TakenBack[a].task = msg.task => msg.status \notin Terminal
BY PendingHead DEF IInv, QueueInv

\* Giving out more changes nothing in what is left to do.
LEMMA QueueInvMore ==
    ASSUME NEW q, NEW given, NEW more, NEW answered,
           QueueInv(q, given, answered), given \subseteq more
    PROVE  QueueInv(q, more, answered)
BY DEF QueueInv

\* The POST handler: it writes only a record whose task is not given out, or one that
\* an ambiguous publish has already let go.
LEMMA PostSteps ==
    ASSUME IInv, TypeInv', NEW i \in Ids, Submit(i) \/ Publish(i)
    PROVE  IInv'
<1>. DEFINE Kept == /\ UNCHANGED <<results, msg, seen, events, finished, dropped>>
                    /\ enqueued \subseteq enqueued'
<1>1. ASSUME Kept PROVE QueueInv(TakenBack, enqueued, finished)' /\ TakenBack' = TakenBack
    <2>1. TakenBack' = TakenBack
        BY <1>1 DEF TakenBack
    <2>2. QueueInv(TakenBack, enqueued', finished)
        BY <1>1, QueueInvMore DEF IInv
    <2>. QED
        BY <1>1, <2>1, <2>2
<1>2. ASSUME Kept, UNCHANGED <<store, consumer>>, PostInv'
      PROVE  IInv'
    BY <1>1, <1>2 DEF IInv, ConsumerInv, EventsInv, AccountInv, IsTerminal
<1>3. store \in [Ids -> Record \cup {NoRecord}]
      /\ post \in [Ids -> {"new", "publish", "save_failed", "done"}]
    BY DEF IInv, TypeInv, TypeOK
<1>4. CASE SaveQueued(i)
    <2>1. i \notin enqueued /\ i \notin finished
        BY <1>4 DEF SaveQueued, IInv, PostInv
    <2>2. Kept /\ consumer' = consumer
        BY <1>4 DEF SaveQueued
    <2>3. \A j \in Ids : j # i => store'[j] = store[j] /\ post'[j] = post[j]
        BY <1>3, <1>4 DEF SaveQueued
    <2>4. PostInv'
        <3>1. store'[i] # NoRecord /\ post'[i] = "publish" /\ enqueued' = enqueued
            BY <1>3, <1>4, PostRecords, ExperimentApiAssumption DEF SaveQueued
        <3>. QED
            BY <2>1, <2>2, <2>3, <3>1 DEF IInv, PostInv
    <2>5. ConsumerInv'
        <3>1. ASSUME consumer \in {"save", "event"} PROVE msg.task \in Ids /\ msg.task # i
            <4>1. msg # NoResult
                BY <3>1 DEF IInv, TypeInv
            <4>. QED
                BY <2>1, <4>1, MsgGiven, PendingHead DEF IInv
        <3>. QED
            BY <2>2, <2>3, <3>1 DEF IInv, ConsumerInv, IsTerminal
    <2>6. finished \subseteq Ids
        BY DEF IInv, TypeInv, TypeOK
    <2>7. EventsInv'
        BY <1>1, <2>1, <2>2, <2>3, <2>6 DEF IInv, EventsInv, IsTerminal
    <2>8. AccountInv'
        BY <1>1, <2>1, <2>2, <2>3, <2>6 DEF IInv, AccountInv, IsTerminal
    <2>. QED
        BY <1>1, <2>2, <2>4, <2>5, <2>7, <2>8 DEF IInv
<1>5. CASE Publish(i)
    <2>1. PostInv'
        BY <1>3, <1>5 DEF Publish, IInv, PostInv
    <2>. QED
        BY <1>2, <1>5, <2>1 DEF Publish
<1>6. ASSUME NEW taken \in BOOLEAN, PublishRaises(i, taken) PROVE IInv'
    <2>1. PostInv'
        <3>1. CASE taken
            BY <1>3, <1>6, <3>1 DEF PublishRaises, IInv, PostInv
        <3>2. CASE ~taken
            BY <1>3, <1>6, <3>2 DEF PublishRaises, IInv, PostInv
        <3>. QED
            BY <3>1, <3>2
    <2>2. Kept /\ UNCHANGED <<store, consumer>>
        BY <1>6 DEF PublishRaises
    <2>. QED
        BY <1>2, <2>1, <2>2
<1>7. CASE SaveFailed(i)
    <2>1. Kept /\ consumer' = consumer /\ enqueued' = enqueued
        BY <1>7 DEF SaveFailed
    <2>2. \A j \in Ids : j # i => store'[j] = store[j] /\ post'[j] = post[j]
        BY <1>3, <1>7 DEF SaveFailed
    <2>3. store'[i] = NotEnqueued /\ post'[i] = "done"
        BY <1>3, <1>7 DEF SaveFailed
    <2>4. store'[i] # NoRecord /\ store'[i].status \in Terminal
        <3>1. store'[i] # NoRecord
            BY <2>3, PostRecords, ExperimentApiAssumption
        <3>2. store'[i].status \in Terminal
            BY <2>3 DEF NotEnqueued, Terminal
        <3>. QED
            BY <3>1, <3>2
    <2>5. ~Ambiguous => i \notin enqueued
        BY <1>7 DEF SaveFailed, IInv, PostInv
    <2>6. PostInv'
        BY <2>1, <2>2, <2>3, <2>4 DEF IInv, PostInv
    <2>7. finished \subseteq Ids /\ finished \subseteq enqueued
        BY DEF IInv, TypeInv, TypeOK, PostInv
    <2>8. ConsumerInv'
        <3>1. ASSUME consumer \in {"save", "event"} PROVE msg.task \in Ids /\ msg.task \in enqueued
            <4>1. msg # NoResult
                BY <3>1 DEF IInv, TypeInv
            <4>. QED
                BY <4>1, MsgGiven, PendingHead DEF IInv
        <3>. QED
            BY <2>1, <2>2, <2>4, <2>5, <3>1 DEF IInv, ConsumerInv, IsTerminal
    <2>9. EventsInv'
        <3>. SUFFICES ASSUME NEW n \in 1 .. Len(events)
                      PROVE  /\ events[n].task \in finished
                             /\ Durable /\ ~Ambiguous =>
                                    /\ IsTerminal(events[n].task)'
                                    /\ store'[events[n].task].status = events[n].status
                             /\ \A a \in 1 .. Len(TakenBack) :
                                    TakenBack[a].task = events[n].task
                                        => TakenBack[a].status = events[n].status
            BY <1>1, <2>1 DEF EventsInv, IsTerminal
        <3>. QED
            BY <2>1, <2>2, <2>5, <2>7 DEF IInv, EventsInv, IsTerminal
    <2>10. AccountInv'
        BY <1>1, <2>1, <2>2, <2>4, <2>7 DEF IInv, AccountInv, IsTerminal
    <2>. QED
        BY <1>1, <2>1, <2>6, <2>8, <2>9, <2>10 DEF IInv
<1>8. CASE SaveFailedRaises(i)
    <2>1. PostInv'
        BY <1>3, <1>8 DEF SaveFailedRaises, IInv, PostInv
    <2>. QED
        BY <1>2, <1>8, <2>1 DEF SaveFailedRaises
<1>. QED
    BY <1>4, <1>5, <1>6, <1>7, <1>8 DEF Submit

\* The orchestrator: what it adds is of a task it has and has not answered.
LEMMA OrchestratorSteps ==
    ASSUME IInv, TypeInv', NEW i \in Ids,
           Announce(i) \/ \E status \in Terminal : Finish(i, status)
    PROVE  IInv'
<1>1. PICK status \in Terminal \cup {"waiting_for_calibration"} :
        /\ i \in enqueued \ finished
        /\ results' = Append(results, [task |-> i, status |-> status])
        /\ finished' = IF status \in Terminal THEN finished \cup {i} ELSE finished
        /\ UNCHANGED <<apiVars, enqueued>>
    BY DEF Announce, Finish, Terminal
<1>. DEFINE r == [task |-> i, status |-> status]
<1>2. r \in Result /\ r.task = i /\ r.status = status
    BY DEF Result
<1>3. results \in Seq(Result) /\ msg \in Result \cup {NoResult} /\ TakenBack \in Seq(Result)
    BY PendingTyped DEF IInv, TypeInv, TypeOK
<1>4. TakenBack' = Append(TakenBack, r)
    <2>1. CASE msg = NoResult
        BY <1>1, <2>1 DEF TakenBack, apiVars
    <2>2. CASE msg # NoResult
        <3>1. msg \in Result
            BY <1>3, <2>2
        <3>2. <<msg>> \o Append(results, r) = Append(<<msg>> \o results, r)
            BY <1>2, <1>3, <3>1
        <3>. QED
            BY <1>1, <2>2, <3>2 DEF TakenBack, apiVars
    <2>. QED
        BY <2>1, <2>2
<1>5. QueueInv(Append(TakenBack, r), enqueued, finished')
    BY <1>1, <1>2, <1>3, QueueInvAppend DEF IInv
<1>6. /\ Len(TakenBack) \in Nat /\ Len(TakenBack') = Len(TakenBack) + 1
      /\ TakenBack'[Len(TakenBack) + 1] = r
      /\ \A a \in 1 .. Len(TakenBack) : TakenBack'[a] = TakenBack[a]
    BY <1>2, <1>3, <1>4
<1>7. PostInv'
    BY <1>1 DEF IInv, PostInv, apiVars
<1>8. ConsumerInv'
    BY <1>1 DEF IInv, ConsumerInv, IsTerminal, apiVars
<1>9. EventsInv'
    <2>. SUFFICES ASSUME NEW n \in 1 .. Len(events)
                  PROVE  /\ events[n].task \in finished'
                         /\ Durable /\ ~Ambiguous =>
                                /\ IsTerminal(events[n].task)
                                /\ store[events[n].task].status = events[n].status
                         /\ \A a \in 1 .. Len(TakenBack') :
                                TakenBack'[a].task = events[n].task
                                    => TakenBack'[a].status = events[n].status
        BY <1>1 DEF EventsInv, IsTerminal, apiVars
    <2>1. events[n].task \in finished /\ events[n].task # i
        BY <1>1 DEF IInv, EventsInv
    <2>. QED
        BY <1>1, <1>2, <1>6, <2>1 DEF IInv, EventsInv
<1>10. AccountInv'
    <2>. SUFFICES ASSUME NEW j \in finished'
                  PROVE  \/ \E a \in 1 .. Len(TakenBack') :
                                TakenBack'[a].task = j /\ TakenBack'[a].status \in Terminal
                         \/ \E a \in 1 .. Len(dropped) :
                                dropped[a].task = j /\ dropped[a].status \in Terminal
                         \/ Durable => IsTerminal(j)
        BY <1>1 DEF AccountInv, IsTerminal, apiVars
    <2>1. CASE j = i
        <3>1. status \in Terminal
            BY <1>1, <2>1
        <3>. QED
            BY <1>2, <1>6, <2>1, <3>1
    <2>2. CASE j # i
        <3>1. j \in finished
            BY <1>1, <2>2
        <3>. QED
            BY <1>6, <3>1 DEF IInv, AccountInv
    <2>. QED
        BY <2>1, <2>2
<1>. QED
    BY <1>1, <1>4, <1>5, <1>7, <1>8, <1>9, <1>10 DEF IInv, apiVars

-------------------------------------------------------------------------------
\* Where the consumer only moves on, what is left to do stays.
LEMMA TakeStep ==
    ASSUME IInv, TypeInv', Take
    PROVE  IInv'
<1>1. consumer = "idle" /\ msg = NoResult /\ results \in Seq(Result) /\ results # <<>>
    BY DEF Take, IInv, TypeInv, TypeOK
<1>2. TakenBack' = TakenBack
    <2>1. results = <<Head(results)>> \o Tail(results) /\ Head(results) \in Result
        BY <1>1
    <2>2. msg' # NoResult
        BY <2>1, ExperimentApiAssumption DEF Take
    <2>. QED
        BY <1>1, <2>1, <2>2 DEF Take, TakenBack
<1>. QED
    BY <1>2 DEF Take, IInv, PostInv, ConsumerInv, EventsInv, AccountInv, IsTerminal

\* Where it is done with an answer, whatever it knows of that task is still known.
LEMMA Leaves ==
    ASSUME IInv, TypeInv', msg # NoResult, msg' = NoResult,
           UNCHANGED <<enqueued, results, finished>>, Durable => store' = store,
           consumer' \notin {"save", "event"},
           \/ dropped' = dropped /\ (msg.status \in Terminal => (Durable => IsTerminal(msg.task)))
           \/ dropped' = Append(dropped, msg),
           PostInv', EventsInv'
    PROVE  IInv'
<1>. DEFINE q == TakenBack
<1>1. /\ q \in Seq(Result) /\ q # <<>> /\ q[1] = msg
      /\ TakenBack' = Tail(q) /\ msg \in Result /\ dropped \in Seq(Result)
    BY PendingHead DEF IInv, TypeInv, TypeOK, TakenBack
<1>2. QueueInv(TakenBack, enqueued, finished)'
    BY <1>1, QueueInvTail DEF IInv
<1>3. Len(Tail(q)) = Len(q) - 1 /\ Len(q) \in Nat \ {0} /\ \A a \in 2 .. Len(q) : Tail(q)[a - 1] = q[a]
    BY <1>1
<1>4. ConsumerInv'
    BY DEF ConsumerInv
<1>5. AccountInv'
    <2>. SUFFICES ASSUME NEW i \in finished
                  PROVE  \/ \E a \in 1 .. Len(Tail(q)) :
                                Tail(q)[a].task = i /\ Tail(q)[a].status \in Terminal
                         \/ \E a \in 1 .. Len(dropped') :
                                dropped'[a].task = i /\ dropped'[a].status \in Terminal
                         \/ Durable => IsTerminal(i)
        BY <1>1 DEF AccountInv, IsTerminal
    <2>1. CASE \E a \in 1 .. Len(q) : q[a].task = i /\ q[a].status \in Terminal
        <3>1. PICK a \in 1 .. Len(q) : q[a].task = i /\ q[a].status \in Terminal
            BY <2>1
        <3>2. CASE a = 1
            <4>1. CASE dropped' = Append(dropped, msg)
                <5>1. /\ Len(dropped) + 1 \in 1 .. Len(dropped')
                      /\ dropped'[Len(dropped) + 1] = msg
                    BY <1>1, <4>1
                <5>. QED
                    BY <1>1, <3>1, <3>2, <5>1
            <4>. QED
                BY <1>1, <3>1, <3>2, <4>1
        <3>3. CASE a # 1
            <4>1. a \in 2 .. Len(q) /\ a - 1 \in 1 .. Len(Tail(q))
                BY <1>3, <3>3
            <4>. QED
                BY <1>3, <3>1, <4>1
        <3>. QED
            BY <3>2, <3>3
    <2>2. CASE \E a \in 1 .. Len(dropped) : dropped[a].task = i /\ dropped[a].status \in Terminal
        <3>1. Len(dropped) \in Nat /\ Len(dropped') >= Len(dropped)
              /\ \A a \in 1 .. Len(dropped) : dropped'[a] = dropped[a]
            BY <1>1
        <3>. QED
            BY <2>2, <3>1
    <2>3. CASE Durable => IsTerminal(i)
        BY <2>3
    <2>. QED
        BY <2>1, <2>2, <2>3 DEF IInv, AccountInv
<1>. QED
    BY <1>2, <1>4, <1>5 DEF IInv

\* A new event can only repeat what the store shows and what will follow.
LEMMA EventsKept ==
    ASSUME IInv, EventLeft, UNCHANGED finished,
           Durable => store' = store,
           TakenBack' = TakenBack \/ (msg # NoResult /\ TakenBack' = Tail(TakenBack))
    PROVE  EventsInv'
<1>. DEFINE q == TakenBack
<1>1. q \in Seq(Result)
    BY PendingTyped DEF IInv
<1>2. \A a \in 1 .. Len(TakenBack') : \E b \in 1 .. Len(q) : TakenBack'[a] = q[b]
    <2>1. CASE TakenBack' = q
        BY <2>1
    <2>2. CASE msg # NoResult /\ TakenBack' = Tail(q)
        <3>1. q # <<>>
            BY <2>2, PendingHead DEF IInv
        <3>2. Len(Tail(q)) = Len(q) - 1 /\ Len(q) \in Nat
              /\ \A a \in 1 .. Len(q) - 1 : Tail(q)[a] = q[a + 1] /\ a + 1 \in 1 .. Len(q)
            BY <1>1, <3>1
        <3>. QED
            BY <2>2, <3>2
    <2>. QED
        BY <2>1, <2>2
<1>3. events \in Seq([task : Ids, status : Terminal])
    BY DEF IInv, TypeInv, TypeOK
<1>. DEFINE Sound(e) ==
        /\ e.task \in finished
        /\ Durable /\ ~Ambiguous => IsTerminal(e.task) /\ store[e.task].status = e.status
        /\ \A b \in 1 .. Len(q) : q[b].task = e.task => q[b].status = e.status
<1>4. \A n \in 1 .. Len(events) : Sound(events[n])
    BY DEF IInv, EventsInv
<1>5. \A n \in 1 .. Len(events') : Sound(events'[n])
    <2>1. CASE events' = events
        BY <1>4, <2>1
    <2>2. CASE consumer = "event" /\ events' = Announcement
        <3>. DEFINE e == [task |-> msg.task, status |-> msg.status]
        <3>1. msg # NoResult /\ msg.status \in Terminal
            BY <2>2 DEF IInv, TypeInv
        <3>2. Sound(e)
            <4>1. e.task = msg.task /\ e.status = msg.status
                OBVIOUS
            <4>2. msg.task \in finished /\ \A a \in 2 .. Len(q) : q[a].task # msg.task
                BY <3>1, MsgGiven
            <4>3. q[1] = msg /\ \A b \in 1 .. Len(q) : b = 1 \/ b \in 2 .. Len(q)
                BY <3>1, PendingHead DEF IInv
            <4>4. Durable /\ ~Ambiguous => IsTerminal(msg.task) /\ store[msg.task].status = msg.status
                BY <2>2 DEF IInv, ConsumerInv
            <4>. QED
                BY <4>1, <4>2, <4>3, <4>4
        <3>3. Len(events') = Len(events) + 1 /\ events'[Len(events) + 1] = e
              /\ \A n \in 1 .. Len(events) : events'[n] = events[n]
            BY <1>3, <2>2 DEF Announcement
        <3>4. Len(events) \in Nat
            BY <1>3
        <3>. HIDE DEF e, Sound
        <3>. QED
            BY <1>4, <3>2, <3>3, <3>4
    <2>. QED
        BY <2>1, <2>2 DEF EventLeft
<1>. SUFFICES ASSUME NEW n \in 1 .. Len(events')
              PROVE  /\ events'[n].task \in finished
                     /\ Durable /\ ~Ambiguous =>
                            /\ store'[events'[n].task] # NoRecord
                            /\ store'[events'[n].task].status \in Terminal
                            /\ store'[events'[n].task].status = events'[n].status
                     /\ \A a \in 1 .. Len(TakenBack') :
                            TakenBack'[a].task = events'[n].task
                                => TakenBack'[a].status = events'[n].status
    BY DEF EventsInv, IsTerminal
<1>6. Sound(events'[n])
    BY <1>5
<1>. QED
    BY <1>2, <1>6 DEF IsTerminal

\* Nothing is left or added, and the consumer writes nothing next.
LEMMA Stays ==
    ASSUME IInv, TypeInv', TakenBack' = TakenBack, Durable => store' = store,
           UNCHANGED <<enqueued, finished, dropped>>, PostInv', EventLeft,
           consumer' \notin {"save", "event"}
    PROVE  IInv'
<1>1. EventsInv'
    BY EventsKept
<1>2. AccountInv'
    BY DEF IInv, AccountInv, IsTerminal
<1>3. ConsumerInv'
    BY DEF ConsumerInv
<1>. QED
    BY <1>1, <1>2, <1>3 DEF IInv

\* Only a store that forgets can leave the consumer with an unknown experiment.
LEMMA ReadStep ==
    ASSUME IInv, TypeInv', Read
    PROVE  IInv'
<1>1. consumer = "read" /\ msg # NoResult /\ msg.task \in enqueued /\ msg.task \in Ids
    BY MsgGiven, PendingHead DEF Read, IInv, TypeInv
<1>2. PostInv'
    BY DEF Read, IInv, PostInv
<1>3. CASE Known(msg.task)
    <2>1. TakenBack' = TakenBack /\ UNCHANGED <<store, msg, events, dropped, finished, enqueued>>
        BY <1>3 DEF Read, TakenBack
    <2>2. ConsumerInv'
        BY <1>3 DEF Read, ConsumerInv
    <2>3. EventsInv' /\ AccountInv'
        BY <2>1 DEF IInv, EventsInv, AccountInv, IsTerminal
    <2>. QED
        BY <1>2, <2>1, <2>2, <2>3 DEF IInv
<1>4. CASE ~Known(msg.task)
    <2>1. ~Durable
        <3>1. post[msg.task] # "new"
            BY <1>1 DEF IInv, PostInv
        <3>. QED
            BY <1>1, <1>4, <3>1 DEF IInv, PostInv, Known
    <2>2. /\ msg' = NoResult /\ UNCHANGED <<store, enqueued, results, finished, dropped, events>>
          /\ consumer' = "idle"
        BY <1>4 DEF Read, Acked
    <2>3. TakenBack' = Tail(TakenBack)
        BY <1>1, <2>2, PendingHead DEF IInv, TakenBack
    <2>4. EventsInv'
        BY <1>1, <2>2, <2>3, EventsKept DEF EventLeft
    <2>. QED
        BY <1>1, <1>2, <2>1, <2>2, <2>4, Leaves
<1>. QED
    BY <1>3, <1>4

\* The save repeats what was announced, or makes the answer shown.
LEMMA SaveStep ==
    ASSUME IInv, TypeInv', Save
    PROVE  IInv'
<1>. DEFINE t == msg.task
<1>1. /\ consumer = "save" /\ msg # NoResult /\ t \in enqueued /\ t \in Ids
      /\ msg \in Result /\ TakenBack[1] = msg /\ 1 \in 1 .. Len(TakenBack)
      /\ store \in [Ids -> Record \cup {NoRecord}] /\ store' \in [Ids -> Record \cup {NoRecord}]
    BY MsgGiven, PendingHead DEF Save, IInv, TypeInv, TypeOK
<1>2. /\ store'[t] = Updated(seen, msg.status) /\ store'[t].status = msg.status
      /\ \A i \in Ids : i # t => store'[i] = store[i]
    BY <1>1 DEF Save, Updated
<1>3. store'[t] # NoRecord
    <2>1. seen \in Record
        BY <1>1 DEF IInv, TypeInv, TypeOK
    <2>2. Updated(seen, msg.status) \in Record
        BY <1>1, <2>1, UpdatedIsRecord DEF Result
    <2>. QED
        BY <1>2, <2>2, ExperimentApiAssumption
<1>4. PostInv'
    BY <1>1, <1>2, <1>3 DEF Save, IInv, PostInv
<1>5. finished \subseteq Ids /\ UNCHANGED <<enqueued, results, events, finished, dropped>>
    BY DEF Save, IInv, TypeInv, TypeOK
<1>6. \A n \in 1 .. Len(events) : events[n].task = t => events[n].status = msg.status
    BY <1>1 DEF IInv, EventsInv
<1>7. ASSUME NEW n \in 1 .. Len(events)
      PROVE  events[n].status \in Terminal /\ events[n].task \in Ids
    <2>1. events \in Seq([task : Ids, status : Terminal])
        BY DEF IInv, TypeInv, TypeOK
    <2>2. events[n] \in [task : Ids, status : Terminal]
        BY <2>1, ElementOf
    <2>. QED
        BY <2>2
<1>. DEFINE Shown(e) ==
        /\ e.task \in finished
        /\ Durable /\ ~Ambiguous =>
            store'[e.task] # NoRecord /\ e.status \in Terminal /\ store'[e.task].status = e.status
        /\ \A a \in 1 .. Len(TakenBack) : TakenBack[a].task = e.task => TakenBack[a].status = e.status
<1>8. \A n \in 1 .. Len(events) : Shown(events[n])
    <2>. SUFFICES ASSUME NEW n \in 1 .. Len(events) PROVE Shown(events[n])
        OBVIOUS
    <2>1. CASE events[n].task = t
        BY <1>2, <1>3, <1>6, <1>7, <2>1 DEF IInv, EventsInv, IsTerminal
    <2>2. CASE events[n].task # t
        BY <1>2, <1>7, <2>2 DEF IInv, EventsInv, IsTerminal
    <2>. QED
        BY <2>1, <2>2
<1>9. CASE msg.status \in Terminal
    <2>1. consumer' = "event" /\ UNCHANGED <<msg, seen>> /\ TakenBack' = TakenBack
        BY <1>5, <1>9 DEF Save, TakenBack
    <2>2. ConsumerInv'
        BY <1>2, <1>3, <1>9, <2>1 DEF ConsumerInv, IsTerminal
    <2>3. EventsInv'
        BY <1>5, <1>8, <2>1 DEF EventsInv, IsTerminal
    <2>4. AccountInv'
        BY <1>2, <1>3, <1>5, <1>9, <2>1 DEF IInv, AccountInv, IsTerminal
    <2>. QED
        BY <1>4, <1>5, <2>1, <2>2, <2>3, <2>4 DEF IInv
<1>10. CASE msg.status \notin Terminal
    <2>. DEFINE q == TakenBack
    <2>1. consumer' = "idle" /\ msg' = NoResult /\ q \in Seq(Result) /\ q # <<>>
        BY <1>1, <1>10, PendingHead DEF Save, Acked, IInv
    <2>2. TakenBack' = Tail(q)
        BY <1>1, <1>5, <2>1, PendingHead DEF IInv, TakenBack
    <2>3. /\ Len(q) \in Nat \ {0} /\ Len(Tail(q)) = Len(q) - 1
          /\ \A a \in 1 .. Len(q) - 1 : Tail(q)[a] = q[a + 1] /\ a + 1 \in 1 .. Len(q)
          /\ \A a \in 2 .. Len(q) : Tail(q)[a - 1] = q[a] /\ a - 1 \in 1 .. Len(q) - 1
        BY <2>1
    <2>4. QueueInv(TakenBack, enqueued, finished)'
        BY <1>5, <2>1, <2>2, QueueInvTail DEF IInv
    <2>5. ConsumerInv'
        BY <2>1 DEF ConsumerInv
    <2>6. EventsInv'
        <3>. SUFFICES ASSUME NEW n \in 1 .. Len(events), NEW a \in 1 .. Len(Tail(q)),
                             Tail(q)[a].task = events[n].task
                      PROVE  Tail(q)[a].status = events[n].status
            BY <1>5, <1>8, <2>2 DEF EventsInv, IsTerminal
        <3>. QED
            BY <1>8, <2>3
    <2>7. AccountInv'
        <3>. SUFFICES ASSUME NEW i \in finished
                      PROVE  \/ \E a \in 1 .. Len(Tail(q)) :
                                    Tail(q)[a].task = i /\ Tail(q)[a].status \in Terminal
                             \/ \E a \in 1 .. Len(dropped) :
                                    dropped[a].task = i /\ dropped[a].status \in Terminal
                             \/ Durable => IsTerminal(i)'
            BY <1>5, <2>2 DEF AccountInv
        <3>1. CASE \E a \in 1 .. Len(q) : q[a].task = i /\ q[a].status \in Terminal
            <4>1. PICK a \in 1 .. Len(q) : q[a].task = i /\ q[a].status \in Terminal
                BY <3>1
            <4>2. a # 1
                BY <1>1, <1>10, <4>1
            <4>3. a \in 2 .. Len(q)
                BY <2>3, <4>2
            <4>. QED
                BY <2>3, <4>1, <4>3
        <3>2. CASE \E a \in 1 .. Len(dropped) : dropped[a].task = i /\ dropped[a].status \in Terminal
            BY <3>2
        <3>3. CASE (Durable => IsTerminal(i)) /\ i # t
            BY <1>2, <1>5, <3>3 DEF IsTerminal
        <3>4. CASE i = t
            <4>1. \E b \in 1 .. Len(q) : q[b].task = i /\ q[b].status \in Terminal
                BY <1>1, <3>4 DEF IInv, QueueInv
            <4>. QED
                BY <3>1, <4>1
        <3>. QED
            BY <3>1, <3>2, <3>3, <3>4 DEF IInv, AccountInv
    <2>. QED
        BY <1>4, <2>4, <2>5, <2>6, <2>7 DEF IInv
<1>. QED
    BY <1>9, <1>10

\* The announcement, and the message is done with.
LEMMA PublishEventStep ==
    ASSUME IInv, TypeInv', PublishEvent
    PROVE  IInv'
<1>1. consumer = "event" /\ msg # NoResult /\ msg' = NoResult /\ consumer' = "idle" /\ EventLeft
    BY DEF PublishEvent, Acked, EventLeft, IInv, TypeInv
<1>2. UNCHANGED <<store, enqueued, results, finished, dropped, post>>
    BY DEF PublishEvent
<1>3. TakenBack' = Tail(TakenBack)
    BY <1>1, <1>2, PendingHead DEF IInv, TakenBack
<1>4. PostInv'
    BY <1>2 DEF IInv, PostInv
<1>5. EventsInv'
    BY <1>1, <1>2, <1>3, EventsKept
<1>6. Durable => IsTerminal(msg.task)
    BY <1>1 DEF IInv, ConsumerInv
<1>. QED
    BY <1>1, <1>2, <1>4, <1>5, <1>6, Leaves

\* The message is rejected, and so accounted for.
LEMMA ConsumerRaisesStep ==
    ASSUME IInv, TypeInv', ConsumerRaises
    PROVE  IInv'
<1>1. /\ msg # NoResult /\ msg' = NoResult /\ consumer' = "dead" /\ EventLeft
      /\ dropped' = Append(dropped, msg)
    BY DEF ConsumerRaises, Reject, IInv, TypeInv
<1>2. UNCHANGED <<store, enqueued, results, finished, post>>
    BY DEF ConsumerRaises
<1>3. TakenBack' = Tail(TakenBack)
    BY <1>1, <1>2, PendingHead DEF IInv, TakenBack
<1>4. PostInv'
    BY <1>2 DEF IInv, PostInv
<1>5. EventsInv'
    BY <1>1, <1>2, <1>3, EventsKept
<1>. QED
    BY <1>1, <1>2, <1>4, <1>5, Leaves

\* The process goes down and comes up.
LEMMA LifeSteps ==
    ASSUME IInv, TypeInv', Shutdown \/ Kill \/ Start
    PROVE  IInv'
<1>1. CASE Shutdown
    <2>1. /\ consumer' = "off" /\ EventLeft /\ UNCHANGED <<post, enqueued, results, finished>>
          /\ Durable => store' = store
        BY <1>1 DEF Shutdown
    <2>2. PostInv'
        BY <2>1 DEF IInv, PostInv
    <2>3. CASE msg # NoResult
        <3>1. msg' = NoResult /\ dropped' = Append(dropped, msg)
            BY <1>1, <2>3 DEF Shutdown, Reject
        <3>2. TakenBack' = Tail(TakenBack)
            BY <2>1, <2>3, <3>1, PendingHead DEF IInv, TakenBack
        <3>3. EventsInv'
            BY <2>1, <2>3, <3>2, EventsKept
        <3>. QED
            BY <2>1, <2>2, <2>3, <3>1, <3>3, Leaves
    <2>4. CASE msg = NoResult
        <3>1. UNCHANGED <<msg, dropped>> /\ TakenBack' = TakenBack
            BY <1>1, <2>1, <2>4 DEF Shutdown, TakenBack
        <3>. QED
            BY <2>1, <2>2, <3>1, Stays
    <2>. QED
        BY <2>3, <2>4
<1>2. CASE Kill
    <2>1. /\ consumer' = "off" /\ EventLeft /\ UNCHANGED <<enqueued, finished, dropped>>
          /\ (Durable => store' = store) /\ TakenBack' = TakenBack
        BY <1>2 DEF Kill, TakenBack
    <2>2. \A i \in Ids : /\ post'[i] = "new" => post[i] = "new"
                         /\ post'[i] \in {"new", "done"}
                         /\ post[i] = "new" => post'[i] = "new"
        BY <1>2 DEF Kill
    <2>3. PostInv'
        BY <2>1, <2>2 DEF IInv, PostInv
    <2>. QED
        BY <2>1, <2>3, Stays
<1>3. CASE Start
    <2>1. /\ consumer' = "idle" /\ EventLeft /\ UNCHANGED <<store, post, enqueued, finished, dropped>>
          /\ TakenBack' = TakenBack
        BY <1>3 DEF Start, EventLeft, TakenBack
    <2>2. PostInv'
        BY <2>1 DEF IInv, PostInv
    <2>. QED
        BY <2>1, <2>2, Stays
<1>. QED
    BY <1>1, <1>2, <1>3

\* Every step keeps the invariant.
LEMMA InvStep == IInv /\ [Next]_vars => IInv'
<1>. SUFFICES ASSUME IInv, [Next]_vars PROVE IInv'
    OBVIOUS
<1>1. TypeInv'
    BY TypeStep DEF IInv
<1>2. CASE UNCHANGED vars
    BY <1>1, <1>2 DEF vars, apiVars, IInv, PostInv, ConsumerInv, EventsInv, AccountInv,
                      IsTerminal, TakenBack
<1>3. CASE Next
    BY <1>1, <1>3, PostSteps, TakeStep, ReadStep, SaveStep, PublishEventStep,
       ConsumerRaisesStep, LifeSteps, OrchestratorSteps
       DEF Next, Consume
<1>. QED
    BY <1>2, <1>3

\* The invariant holds throughout.
LEMMA SpecInv == Spec => []IInv
<1>. QED
    BY InvInit, InvStep, PTL DEF Spec

-------------------------------------------------------------------------------
\* A sequence's members are its entries.
LEMMA Members ==
    ASSUME NEW S, NEW s \in Seq(S)
    PROVE  /\ \A e \in ToSet(s) : \E n \in 1 .. Len(s) : s[n] = e
           /\ \A n \in 1 .. Len(s) : s[n] \in ToSet(s)
<1>1. DOMAIN s = 1 .. Len(s)
    OBVIOUS
<1>. QED
    BY <1>1 DEF ToSet

\* The API's state is always well formed, whatever fails and whenever.
THEOREM Typed == Spec => []TypeOK
<1>1. IInv => TypeOK
    BY DEF IInv, TypeInv
<1>. QED
    BY <1>1, SpecInv, PTL

\* experiments.py:49-53: with the durable store the consumer never meets a result of
\* an experiment it does not know, for any interleaving with the POST handlers.
THEOREM ResultsAreKnown == Spec => []NoUnknownResult
<1>1. IInv => NoUnknownResult
    <2>. SUFFICES ASSUME IInv, Durable, consumer = "read" PROVE store[msg.task] # NoRecord
        BY DEF NoUnknownResult
    <2>1. msg # NoResult
        BY DEF IInv, TypeInv
    <2>2. msg.task \in Ids /\ msg.task \in enqueued
        BY <2>1, MsgGiven, PendingHead DEF IInv
    <2>. QED
        BY <2>2 DEF IInv, PostInv
<1>. QED
    BY <1>1, SpecInv, PTL

\* The consumer's read-modify-write loses no update when a publish that raises was
\* not taken by the broker; otherwise the POST handler may still write.
THEOREM NoUpdateIsLost == Spec => [](~Ambiguous => NoLostUpdate)
<1>1. IInv => (~Ambiguous => NoLostUpdate)
    BY DEF IInv, ConsumerInv, NoLostUpdate
<1>. QED
    BY <1>1, SpecInv, PTL

\* Under the same condition a completion event never contradicts the durable store.
THEOREM EventsAgree == Spec => [](~Ambiguous => EventsMatchStore)
<1>1. IInv => (~Ambiguous => EventsMatchStore)
    <2>. SUFFICES ASSUME IInv, ~Ambiguous, Durable, NEW e \in ToSet(events)
                  PROVE  IsTerminal(e.task) /\ store[e.task].status = e.status
        BY DEF EventsMatchStore
    <2>1. PICK n \in 1 .. Len(events) : events[n] = e
        BY Members DEF IInv, TypeInv, TypeOK
    <2>. QED
        BY <2>1 DEF IInv, EventsInv
<1>. QED
    BY <1>1, SpecInv, PTL

\* No terminal answer is ever lost: it is waiting, under work, in the store, or was
\* rejected by a consumer that failed.
THEOREM NoAnswerIsLost == Spec => []AnswersAccounted
<1>1. IInv => AnswersAccounted
    <2>. SUFFICES ASSUME IInv, NEW i \in finished
                  PROVE  \/ \E r \in ToSet(results) \cup ToSet(dropped) :
                                r.task = i /\ r.status \in Terminal
                         \/ msg # NoResult /\ msg.task = i /\ msg.status \in Terminal
                         \/ Durable => IsTerminal(i)
        BY DEF AnswersAccounted
    <2>1. results \in Seq(Result) /\ dropped \in Seq(Result)
        BY DEF IInv, TypeInv, TypeOK
    <2>2. CASE \E a \in 1 .. Len(TakenBack) :
                    TakenBack[a].task = i /\ TakenBack[a].status \in Terminal
        <3>1. PICK a \in 1 .. Len(TakenBack) :
                    TakenBack[a].task = i /\ TakenBack[a].status \in Terminal
            BY <2>2
        <3>2. CASE msg = NoResult
            <4>1. TakenBack = results
                BY <3>2 DEF TakenBack
            <4>2. results[a] \in ToSet(results)
                BY <2>1, <4>1, Members
            <4>. QED
                BY <3>1, <4>1, <4>2
        <3>3. CASE msg # NoResult
            <4>1. /\ TakenBack \in Seq(Result) /\ TakenBack # <<>> /\ TakenBack[1] = msg
                  /\ Tail(TakenBack) = results
                BY <3>3, PendingHead DEF IInv
            <4>2. CASE a = 1
                BY <3>1, <3>3, <4>1, <4>2
            <4>3. CASE a # 1
                <5>1. a - 1 \in 1 .. Len(results) /\ results[a - 1] = TakenBack[a]
                    BY <4>1, <4>3
                <5>2. results[a - 1] \in ToSet(results)
                    BY <2>1, <5>1, Members
                <5>. QED
                    BY <3>1, <5>1, <5>2
            <4>. QED
                BY <4>2, <4>3
        <3>. QED
            BY <3>2, <3>3
    <2>3. CASE \E a \in 1 .. Len(dropped) : dropped[a].task = i /\ dropped[a].status \in Terminal
        BY <2>1, <2>3, Members
    <2>. QED
        BY <2>2, <2>3 DEF IInv, AccountInv
<1>. QED
    BY <1>1, SpecInv, PTL

--------------------------------------------------------------------------------
(* The semantic index is always a projection of the completion events.         *)

\* Every row is that of the last event about its experiment among the first k.
Projection(k) == \A i \in Ids : IsLast(index[i], i, k)

\* While an event is being worked on there is one, and its row is written before the
\* offset moves; a process that died may have left the row without moving it.
IndexInv ==
    /\ IInv
    /\ committed \in 0 .. Len(events)
    /\ indexer \in {"down", "idle", "encode", "upsert", "commit"}
    /\ indexer \in {"encode", "upsert", "commit"} => committed < Len(events)
    /\ index \in [Ids -> Nat]
    /\ \/ indexer # "commit" /\ Projection(committed)
       \/ committed < Len(events) /\ Projection(committed + 1)

\* There is no event and no row at the start.
LEMMA IndexInvInit == IndexInit => IndexInv
<1>. SUFFICES ASSUME IndexInit PROVE IndexInv
    OBVIOUS
<1>1. IInv
    BY InvInit DEF IndexInit
<1>2. Len(events) = 0
    BY DEF IndexInit, Init, ApiInit
<1>3. Projection(0)
    BY DEF IndexInit, Projection, IsLast
<1>. QED
    BY <1>1, <1>2, <1>3 DEF IndexInit, IndexInv

\* The topic only grows.
LEMMA EventsGrow ==
    ASSUME TypeInv, [Next]_vars
    PROVE  /\ Len(events) \in Nat /\ Len(events') \in Nat /\ Len(events) <= Len(events')
           /\ \A n \in 1 .. Len(events) : events'[n] = events[n]
<1>1. events \in Seq([task : Ids, status : Terminal])
    BY DEF TypeInv, TypeOK
<1>2. events' = events \/ EventLeft
    BY DEF Next, Submit, SaveQueued, Publish, PublishRaises, SaveFailed, SaveFailedRaises,
           Take, Consume, Read, Save, PublishEvent, ConsumerRaises, Shutdown, Kill, Start,
           Announce, Finish, vars, apiVars, EventLeft
<1>3. \/ events' = events
      \/ consumer = "event" /\ events' = Append(events, [task |-> msg.task, status |-> msg.status])
    BY <1>2 DEF EventLeft, Announcement
<1>. QED
    BY <1>1, <1>3

\* A projection of the first k events is one still when more have come.
LEMMA ProjectionKept ==
    ASSUME NEW k \in Nat, k <= Len(events), Len(events) \in Nat, Projection(k),
           \A n \in 1 .. Len(events) : events'[n] = events[n], index' = index,
           index \in [Ids -> Nat]
    PROVE  Projection(k)'
<1>. SUFFICES ASSUME NEW i \in Ids PROVE IsLast(index[i], i, k)'
    BY DEF Projection
<1>1. IsLast(index[i], i, k) /\ index[i] \in 0 .. k
    BY DEF Projection, IsLast
<1>2. index[i] # 0 => index[i] \in 1 .. Len(events)
    BY <1>1
<1>3. \A m \in index[i] + 1 .. k : m \in 1 .. Len(events)
    BY <1>1
<1>. QED
    BY <1>1, <1>2, <1>3 DEF IsLast

\* The upsert makes it a projection of one event more, a first time or again.
LEMMA UpsertProjects ==
    ASSUME IInv, NEW c \in Nat, c < Len(events), Projection(c) \/ Projection(c + 1),
           UNCHANGED events, index \in [Ids -> Nat],
           index' = [index EXCEPT ![events[c + 1].task] = c + 1]
    PROVE  Projection(c + 1)' /\ index' \in [Ids -> Nat]
<1>. DEFINE t == events[c + 1].task
<1>1. t \in Ids
    <2>1. c + 1 \in 1 .. Len(events) /\ events \in Seq([task : Ids, status : Terminal])
        BY DEF IInv, TypeInv, TypeOK
    <2>2. events[c + 1] \in [task : Ids, status : Terminal]
        BY <2>1, ElementOf
    <2>. QED
        BY <2>2
<1>2. SUFFICES ASSUME NEW i \in Ids PROVE IsLast(index[i], i, c + 1)'
    BY <1>1 DEF Projection
<1>3. CASE i = t
    BY <1>1, <1>3 DEF IsLast
<1>4. CASE i # t
    <2>1. index'[i] = index[i] /\ index[i] \in Nat
        BY <1>1, <1>4
    <2>2. CASE Projection(c + 1)
        BY <2>1, <2>2 DEF Projection, IsLast
    <2>3. CASE Projection(c)
        <3>1. IsLast(index[i], i, c)
            BY <2>3 DEF Projection
        <3>2. \A m \in index[i] + 1 .. c + 1 : events[m].task # i
            BY <1>4, <2>1, <3>1 DEF IsLast
        <3>. QED
            BY <2>1, <3>1, <3>2 DEF IsLast
    <2>. QED
        BY <2>2, <2>3
<1>. QED
    BY <1>3, <1>4

\* Every step keeps the invariant.
LEMMA IndexInvStep == IndexInv /\ [IndexNext]_allVars => IndexInv'
<1>. SUFFICES ASSUME IndexInv, [IndexNext]_allVars PROVE IndexInv'
    OBVIOUS
<1>1. CASE [Next]_vars /\ UNCHANGED indexVars
    <2>1. IInv'
        BY <1>1, InvStep DEF IndexInv
    <2>2. /\ Len(events) \in Nat /\ Len(events') \in Nat /\ Len(events) <= Len(events')
          /\ \A n \in 1 .. Len(events) : events'[n] = events[n]
        BY <1>1, EventsGrow DEF IndexInv, IInv
    <2>3. UNCHANGED <<indexer, committed, index>>
        BY <1>1 DEF indexVars
    <2>4. ASSUME NEW k \in {committed, committed + 1}, k <= Len(events), Projection(k)
          PROVE  Projection(k)'
        BY <2>2, <2>3, <2>4, ProjectionKept DEF IndexInv
    <2>5. CASE indexer # "commit" /\ Projection(committed)
        <3>1. Projection(committed)'
            BY <2>3, <2>4, <2>5 DEF IndexInv, Projection
        <3>. QED
            BY <2>1, <2>2, <2>3, <2>5, <3>1 DEF IndexInv
    <2>6. CASE committed < Len(events) /\ Projection(committed + 1)
        <3>1. committed + 1 <= Len(events)
            BY <2>2, <2>6 DEF IndexInv
        <3>2. Projection(committed + 1)'
            BY <2>3, <2>4, <2>6, <3>1 DEF IndexInv, Projection
        <3>. QED
            BY <2>1, <2>2, <2>3, <2>6, <3>2 DEF IndexInv
    <2>. QED
        BY <2>5, <2>6 DEF IndexInv
<1>2. ASSUME UNCHANGED vars PROVE IInv' /\ UNCHANGED events
    BY <1>2, InvStep DEF IndexInv, vars, apiVars
<1>3. committed \in Nat /\ Len(events) \in Nat
    BY DEF IndexInv, IInv, TypeInv, TypeOK
<1>4. CASE StartIndexer /\ UNCHANGED vars
    BY <1>2, <1>4 DEF StartIndexer, IndexInv, Projection, IsLast
<1>5. CASE TakeEvent /\ UNCHANGED vars
    BY <1>2, <1>3, <1>5 DEF TakeEvent, IndexInv, Projection, IsLast
<1>6. CASE Encode /\ UNCHANGED vars
    BY <1>2, <1>6 DEF Encode, IndexInv, Projection, IsLast
<1>7. CASE Upsert /\ UNCHANGED vars
    <2>1. CASE HasRecord(Event.task)
        <3>1. /\ indexer' = "commit" /\ committed' = committed /\ committed < Len(events)
              /\ index' = [index EXCEPT ![events[committed + 1].task] = committed + 1]
              /\ Projection(committed) \/ Projection(committed + 1)
            BY <1>7, <2>1 DEF Upsert, Event, IndexInv
        <3>2. index' \in [Ids -> Nat] /\ \A i \in Ids : IsLast(index[i], i, committed + 1)'
            BY <1>2, <1>3, <1>7, <3>1, UpsertProjects DEF IndexInv, Projection
        <3>3. Projection(committed + 1)'
            BY <3>1, <3>2 DEF Projection
        <3>. QED
            BY <1>2, <1>7, <3>1, <3>2, <3>3 DEF IndexInv
    <2>2. CASE ~HasRecord(Event.task)
        BY <1>2, <1>7, <2>2 DEF Upsert, IndexInv, Projection, IsLast
    <2>. QED
        BY <2>1, <2>2
<1>8. CASE Commit /\ UNCHANGED vars
    <2>1. /\ committed < Len(events) /\ Projection(committed + 1)
          /\ committed' = committed + 1 /\ indexer' = "idle" /\ index' = index
        BY <1>8 DEF Commit, IndexInv
    <2>2. Projection(committed)'
        BY <1>2, <1>8, <2>1 DEF Projection, IsLast
    <2>. QED
        BY <1>2, <1>3, <1>8, <2>1, <2>2 DEF IndexInv
<1>9. CASE /\ IndexerEnds
           /\ faults' = faults + 1
           /\ UNCHANGED <<store, post, enqueued, results, api, consumer, msg, seen, events,
                          finished, dropped>>
    <2>1. IInv'
        <3>1. faults' \in 0 .. MaxFaults
            BY <1>9, ExperimentApiAssumption DEF IndexerEnds, IndexInv, IInv, TypeInv, TypeOK
        <3>2. TypeInv'
            BY <1>9, <3>1 DEF IndexInv, IInv, TypeInv, TypeOK
        <3>3. QueueInv(TakenBack, enqueued, finished)' /\ TakenBack' = TakenBack
            BY <1>9 DEF IndexInv, IInv, TakenBack
        <3>4. PostInv'
            BY <1>9 DEF IndexInv, IInv, PostInv
        <3>5. ConsumerInv'
            BY <1>9 DEF IndexInv, IInv, ConsumerInv, IsTerminal
        <3>6. EventsInv'
            BY <1>9, <3>3 DEF IndexInv, IInv, EventsInv, IsTerminal
        <3>7. AccountInv'
            BY <1>9, <3>3 DEF IndexInv, IInv, AccountInv, IsTerminal
        <3>. QED
            BY <3>2, <3>3, <3>4, <3>5, <3>6, <3>7 DEF IInv
    <2>2. indexer' = "down" /\ UNCHANGED events
        BY <1>9 DEF IndexerEnds
    <2>3. CASE UNCHANGED <<committed, index>>
        BY <2>1, <2>2, <2>3 DEF IndexInv, Projection, IsLast
    <2>4. CASE /\ indexer = "upsert" /\ HasRecord(Event.task)
               /\ index' = [index EXCEPT ![Event.task] = committed + 1]
               /\ UNCHANGED committed
        <3>1. /\ committed' = committed /\ committed < Len(events)
              /\ index' = [index EXCEPT ![events[committed + 1].task] = committed + 1]
              /\ Projection(committed) \/ Projection(committed + 1)
            BY <2>4 DEF Event, IndexInv
        <3>2. index' \in [Ids -> Nat] /\ \A i \in Ids : IsLast(index[i], i, committed + 1)'
            BY <1>3, <2>2, <3>1, UpsertProjects DEF IndexInv, Projection
        <3>3. Projection(committed + 1)'
            BY <3>1, <3>2 DEF Projection
        <3>. QED
            BY <2>1, <2>2, <3>1, <3>2, <3>3 DEF IndexInv
    <2>5. CASE indexer = "commit" /\ committed' = committed + 1 /\ UNCHANGED index
        <3>1. committed < Len(events) /\ Projection(committed + 1)
            BY <2>5 DEF IndexInv
        <3>2. Projection(committed)'
            BY <2>2, <2>5, <3>1 DEF Projection, IsLast
        <3>. QED
            BY <1>3, <2>1, <2>2, <2>5, <3>1, <3>2 DEF IndexInv
    <2>. QED
        BY <1>9, <2>3, <2>4, <2>5 DEF IndexerEnds
<1>. QED
    BY <1>1, <1>4, <1>5, <1>6, <1>7, <1>8, <1>9
       DEF IndexNext, IndexerStep, allVars, vars, apiVars, indexVars

\* worker.py:47-54: whatever fails, is repeated or comes twice, the index is always a
\* projection of the events committed, or of one more.
THEOREM IndexIsProjection == IndexSpec => []IndexFollowsEvents
<1>1. IndexInv => IndexFollowsEvents
    <2>. SUFFICES ASSUME IndexInv PROVE IndexFollowsEvents
        OBVIOUS
    <2>1. committed \in Nat /\ committed <= Len(events) /\ Len(events) \in Nat
        BY DEF IndexInv, IInv, TypeInv, TypeOK
    <2>2. CASE Projection(committed)
        BY <2>1, <2>2 DEF IndexFollowsEvents, Projection
    <2>3. CASE committed < Len(events) /\ Projection(committed + 1)
        <3>1. committed + 1 <= Len(events)
            BY <2>1, <2>3
        <3>. QED
            BY <2>3, <3>1 DEF IndexFollowsEvents, Projection
    <2>. QED
        BY <2>2, <2>3 DEF IndexInv
<1>. QED
    BY <1>1, IndexInvInit, IndexInvStep, PTL DEF IndexSpec
================================================================================
