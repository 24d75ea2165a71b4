----------------------------- MODULE ResultIndexer -----------------------------
(* The semantic index (services/result-indexer/app), composed with the API     *)
(* whose completion events it consumes: an event is taken from Kafka, its text *)
(* embedded, the row of its experiment upserted and the offset committed.  An  *)
(* exception at any of these ends the process, and whoever starts it again     *)
(* makes it go on from the committed offset.                                   *)
EXTENDS ExperimentApi

VARIABLES
    indexer,    \* "down", "idle", or what is awaited: "encode", "upsert", "commit"
    committed,  \* events the consumer group has committed
    index       \* experiment_embeddings: for each experiment the event, by its
                \* number in the topic, that its row was made from; 0: no row

indexVars == <<indexer, committed, index>>
allVars == <<vars, indexVars>>

IndexInit ==
    /\ Init
    /\ indexer = "down"
    /\ committed = 0
    /\ index = [i \in Ids |-> 0]

Event == events[committed + 1]

\* The model is loaded and the consumer started.
StartIndexer ==
    /\ indexer = "down"
    /\ indexer' = "idle"
    /\ UNCHANGED <<committed, index>>

TakeEvent ==
    /\ indexer = "idle"
    /\ committed < Len(events)
    /\ indexer' = "encode"
    /\ UNCHANGED <<committed, index>>

Encode ==
    /\ indexer = "encode"
    /\ indexer' = "upsert"
    /\ UNCHANGED <<committed, index>>

\* experiment_id references experiments(id), a table of the durable store only.
HasRecord(i) == Durable /\ store[i] # NoRecord

UpsertUnlessPresent ==
    /\ indexer = "upsert"
    /\ IF HasRecord(Event.task)
       THEN /\ index' = [index EXCEPT ![Event.task] = IF @ = 0 THEN committed + 1 ELSE @]
            /\ indexer' = "commit"
       ELSE UNCHANGED index /\ indexer' = "down"
    /\ UNCHANGED committed

\* upsert_embedding: the row is replaced; a foreign key that nothing bears out
\* raises.
Upsert ==
    /\ indexer = "upsert"
    /\ IF HasRecord(Event.task)
       THEN index' = [index EXCEPT ![Event.task] = committed + 1] /\ indexer' = "commit"
       ELSE UNCHANGED index /\ indexer' = "down"
    /\ UNCHANGED committed

CommitFetched ==
    /\ indexer = "commit"
    /\ committed' = Len(events)
    /\ indexer' = "idle"
    /\ UNCHANGED index

Commit ==
    /\ indexer = "commit"
    /\ committed' = committed + 1
    /\ indexer' = "idle"
    /\ UNCHANGED index

\* Something raises, or the process is killed; what it awaited may be done.
IndexerEnds ==
    /\ indexer # "down"
    /\ faults < MaxFaults
    /\ indexer' = "down"
    /\ \/ UNCHANGED <<committed, index>>
       \/ /\ indexer = "upsert" /\ HasRecord(Event.task)
          /\ index' = [index EXCEPT ![Event.task] = committed + 1]
          /\ UNCHANGED committed
       \/ /\ indexer = "commit"
          /\ committed' = committed + 1
          /\ UNCHANGED index

IndexerStep == TakeEvent \/ Encode \/ Upsert \/ Commit

IndexNext ==
    \/ Next /\ UNCHANGED indexVars
    \/ (StartIndexer \/ IndexerStep) /\ UNCHANGED vars
    \/ /\ IndexerEnds
       /\ faults' = faults + 1
       /\ UNCHANGED <<store, post, enqueued, results, api, consumer, msg, seen, events, finished, dropped>>

IndexSpec ==
    /\ IndexInit /\ [][IndexNext]_allVars
    /\ Fairness
    /\ WF_indexVars(IndexerStep)

--------------------------------------------------------------------------------
(* Properties.                                                                 *)

\* Of the first k events, number n is the last about experiment i; 0: none is.
IsLast(n, i, k) ==
    /\ n \in 0 .. k
    /\ n # 0 => events[n].task = i
    /\ \A m \in n + 1 .. k : events[m].task # i

\* worker.py:47-54: whatever was repeated, duplicated or interrupted, the index is
\* the projection of the committed events, or of one more when the process is, or
\* was, between the upsert and the commit.  It loses none, and a replay never
\* takes a row back to an older event.
IndexFollowsEvents ==
    \E k \in {committed, committed + 1} :
        /\ k <= Len(events)
        /\ \A i \in Ids : IsLast(index[i], i, k)

\* An experiment that was answered can be searched for in the end, with
\* its last event, unless its answer was rejected or a process stays down.
AnswersBecomeSearchable ==
    <>[](consumer \notin {"dead", "off"} /\ indexer # "down") =>
        \A i \in Ids :
            i \in finished ~> \/ ~Durable
                              \/ index[i] # 0 /\ IsLast(index[i], i, Len(events))
                              \/ \E r \in ToSet(dropped) : r.task = i
================================================================================
