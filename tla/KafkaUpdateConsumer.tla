-------------------------- MODULE KafkaUpdateConsumer --------------------------
(***************************************************************************)
(* The Kafka consumer of a load, call by call                              *)
(* (src/src/ingest/kafka_update_consumer.cc): it is created in steps each  *)
(* of which may fail, told where to begin, and polled for one message      *)
(* after the other; the coordinator (update_coordinator.cc) applies the    *)
(* batch and commits behind it; the catch-up runner (rebuild/async_load.cc) *)
(* drives it and gives it up at the first error.  In AsyncLoad a poll and  *)
(* the creation of a consumer are one step each.                           *)
(*                                                                         *)
(* librdkafka and the broker are modelled from how the code uses them: an  *)
(* object is known by whether it lives, partitions are assigned and        *)
(* revoked at any time, an assigned partition is read from the committed   *)
(* offset or its beginning, and its end is announced once when reached.    *)
(***************************************************************************)
EXTENDS Integers, Sequences, FiniteSets

LOCAL INSTANCE SequencesExt

LOCAL INSTANCE Functions

SP == INSTANCE SourceProgress

CONSTANTS
  Log,            \* Log[p]: the keys that will be sent to partition p, each
                  \* "decimal" or not
  Sent,           \* Sent[p]: how many of them were sent before all this
  Topic,          \* Topic[p]: the topic of partition p
  Requests,       \* [config, topic, checkpoint, poll_options] of loads
  kInt64Max,      \* the largest offset
  MaxFaults,      \* bound on the calls that fail
  MaxRebalances   \* bound on the partitions that are revoked

Partitions == DOMAIN Log

NoOffset == -1

ASSUME ConsumerAssumption ==
  /\ Log \in [Partitions -> Seq({"decimal", "other"})]
  /\ Partitions = DOMAIN Topic
  /\ Sent \in [Partitions -> Nat] /\ \A p \in Partitions : Sent[p] <= Len(Log[p])
  /\ \A r \in Requests : \A i \in DOMAIN r.checkpoint : r.checkpoint[i].offset \in Int
  /\ kInt64Max \in Nat /\ MaxFaults \in Nat /\ MaxRebalances \in Nat

VARIABLES
  end,         \* end[p]: the offset behind the last message of p
  committed,   \* committed[p]: the group's offset, or NoOffset
  request,     \* the request that is served
  pc,          \* where the load is; "none" without a client
  handles,     \* how many rd_kafka_conf_t and rd_kafka_t live
  position,    \* position[p]: next offset to read, NoOffset if unassigned
  eof,         \* partitions whose end is to be announced
  batch,       \* messages of the poll
  polled,      \* rounds of the poll
  published,   \* messages applied for this client
  faults,      \* calls that failed
  rebalances,  \* partitions that were revoked
  origin,      \* history: where reading of p began; a rebalance that finds
               \* the group ahead of that is another beginning
  mine         \* history: mine[p] is the offset this client has committed

broker == <<end, committed>>
client == <<position, eof, batch, polled, published, origin, mine>>
vars == <<broker, request, pc, handles, client, faults, rebalances>>

NoHandles == [conf |-> 0, consumer |-> 0]

Nowhere == [p \in Partitions |-> NoOffset]

Init ==
  /\ end = Sent
  /\ committed = Nowhere
  /\ request \in Requests
  /\ pc = "none"
  /\ handles = NoHandles
  /\ position = Nowhere /\ eof = {} /\ batch = <<>> /\ polled = 0
  /\ published = {} /\ origin = Nowhere /\ mine = Nowhere
  /\ faults = 0 /\ rebalances = 0

-----------------------------------------------------------------------------
(* Validation. *)

Distinct(s) == Cardinality(ToSet(s)) = Len(s)

ValidateConfig(config) ==
  /\ config.bootstrap_servers # "" /\ config.group_id # ""
  /\ config.topics # <<>> /\ Distinct(config.topics)
  /\ \A i \in DOMAIN config.topics : config.topics[i] # ""

(* The partitions of a checkpoint are valid by themselves here. *)
ValidateCheckpoint(checkpoint) ==
  /\ checkpoint # <<>>
  /\ \A i \in DOMAIN checkpoint : checkpoint[i].offset >= 0
  /\ Distinct([i \in DOMAIN checkpoint |-> checkpoint[i].partition])

(* ValidateOptions and ValidatePollOptions *)
ValidateOptions(r) ==
  /\ r.topic # "" /\ r.poll_options.timeout_ms >= 0
  /\ r.poll_options.max_messages # 0

Message(p, offset) == [partition |-> p, offset |-> offset]

(* ConvertMessage and ParsePrimaryKey *)
Convertible(m) == Log[m.partition][m.offset + 1] = "decimal"

(* ValidateBatchTopicAndPositions and the check of BuildCommitCheckpoint *)
ValidMessage(m) == Topic[m.partition] = request.topic /\ m.offset # kInt64Max

(* The largest offset of every partition of the batch, plus one. *)
BuildCommitCheckpoint(messages) ==
  [p \in {m.partition : m \in ToSet(messages)} |->
     LET offsets == {m.offset : m \in {n \in ToSet(messages) : n.partition = p}}
     IN 1 + CHOOSE o \in offsets : \A x \in offsets : x <= o]

-----------------------------------------------------------------------------
(* Creation: LibrdkafkaUpdateConsumerClient::Create. *)

Fault == faults < MaxFaults /\ faults' = faults + 1

Goto(there) == pc' = there /\ UNCHANGED <<client, request>>

DestroyConf == handles' = [handles EXCEPT !.conf = @ - 1]

DestroyConsumer == handles' = [handles EXCEPT !.consumer = @ - 1]

Create(r) ==
  /\ pc \in {"none", "done"}
  /\ request' = r
  /\ \/ /\ ValidateConfig(r.config)
        /\ handles' = [handles EXCEPT !.conf = @ + 1]
        /\ pc' = "set" /\ UNCHANGED faults
     \/ /\ ValidateConfig(r.config)
        /\ Fault /\ pc' = "none" /\ UNCHANGED handles
     \/ /\ ~ValidateConfig(r.config)
        /\ pc' = "none" /\ UNCHANGED <<handles, faults>>
  /\ UNCHANGED <<broker, client, rebalances>>

SetKafkaConfig ==
  /\ pc = "set"
  /\ \/ Goto("new") /\ UNCHANGED <<handles, faults>>
     \/ Fault /\ DestroyConf /\ Goto("none")
  /\ UNCHANGED <<broker, rebalances>>

(* rd_kafka_new takes the configuration over if it succeeds. *)
NewConsumer ==
  /\ pc = "new"
  /\ \/ /\ handles' = [handles EXCEPT !.consumer = @ + 1, !.conf = @ - 1]
        /\ Goto("poll_set") /\ UNCHANGED faults
     \/ Fault /\ DestroyConf /\ Goto("none")
  /\ UNCHANGED <<broker, rebalances>>

PollSetConsumer ==
  /\ pc = "poll_set"
  /\ \/ Goto("subscribe") /\ UNCHANGED <<handles, faults>>
     \/ Fault /\ DestroyConsumer /\ Goto("none")
  /\ UNCHANGED <<broker, rebalances>>

(* Mutant: the consumer is forgotten. *)
SubscribeLeaks ==
  /\ pc = "subscribe"
  /\ \/ Goto("seek") /\ UNCHANGED <<handles, faults>>
     \/ Fault /\ UNCHANGED handles /\ Goto("none")
  /\ UNCHANGED <<broker, rebalances>>

Subscribe ==
  /\ pc = "subscribe"
  /\ \/ Goto("seek") /\ UNCHANGED <<handles, faults>>
     \/ Fault /\ DestroyConsumer /\ Goto("none")
  /\ UNCHANGED <<broker, rebalances>>

-----------------------------------------------------------------------------
(* The end of a client: its destructor, after an error or when done. *)

Release(there) ==
  /\ DestroyConsumer
  /\ pc' = there
  /\ position' = Nowhere /\ eof' = {} /\ batch' = <<>> /\ polled' = 0
  /\ published' = {} /\ origin' = Nowhere /\ mine' = Nowhere
  /\ UNCHANGED <<request, rebalances>>

Fails == Release("none")

-----------------------------------------------------------------------------
(* The group. *)

Subscribed == pc \notin {"none", "done", "set", "new", "poll_set", "subscribe"}

Assign(p) ==
  LET start == IF committed[p] = NoOffset THEN 0 ELSE committed[p] IN
  /\ Subscribed /\ position[p] = NoOffset
  /\ Topic[p] \in ToSet(request.config.topics)
  /\ position' = [position EXCEPT ![p] = start]
  /\ eof' = IF start = end[p] THEN eof \cup {p} ELSE eof
  /\ origin' = [origin EXCEPT ![p] = IF start \in {mine[p]} \cup 0 .. @ THEN @ ELSE start]
  /\ UNCHANGED <<broker, request, pc, handles, batch, polled, published, mine,
                 faults, rebalances>>

Revoke(p) ==
  /\ Subscribed /\ position[p] # NoOffset
  /\ rebalances < MaxRebalances
  /\ rebalances' = rebalances + 1
  /\ position' = [position EXCEPT ![p] = NoOffset]
  /\ eof' = eof \ {p}
  /\ UNCHANGED <<broker, request, pc, handles, batch, polled, published, origin,
                 mine, faults>>

Produce(p) ==
  /\ end[p] < Len(Log[p])
  /\ end' = [end EXCEPT ![p] = @ + 1]
  /\ UNCHANGED <<committed, request, pc, handles, client, faults, rebalances>>

-----------------------------------------------------------------------------
(* The runner. *)

Wanted == {request.checkpoint[i].partition : i \in DOMAIN request.checkpoint}

OffsetOf(p) ==
  request.checkpoint[CHOOSE i \in DOMAIN request.checkpoint :
                       request.checkpoint[i].partition = p].offset

(* ProductionCatchUpRunner::Start.  Partitions that are not assigned are   *)
(* not moved, which nobody notices.                                        *)
Seek ==
  LET moved == {p \in Wanted : position[p] # NoOffset} IN
  /\ pc = "seek"
  /\ \/ /\ ValidateCheckpoint(request.checkpoint)
        /\ pc' = "capture"
        /\ position' = [p \in Partitions |-> IF p \in moved THEN OffsetOf(p) ELSE position[p]]
        /\ origin' = [p \in Partitions |-> IF p \in moved THEN OffsetOf(p) ELSE origin[p]]
        /\ eof' = (eof \ moved) \cup {p \in moved : OffsetOf(p) >= end[p]}
        /\ UNCHANGED <<request, handles, batch, polled, published, mine, faults, rebalances>>
     \/ ValidateCheckpoint(request.checkpoint) /\ Fault /\ Fails
     \/ ~ValidateCheckpoint(request.checkpoint) /\ Fails /\ UNCHANGED faults
  /\ UNCHANGED broker

(* KafkaUpdateConsumer::Progress: the partitions that are assigned. *)
Progress ==
  [p \in {q \in Partitions : position[q] # NoOffset} |->
     [committed_next_offset |-> IF committed[p] = NoOffset THEN 0 ELSE committed[p],
      high_watermark |-> end[p]]]

(* CaptureSafeProgress, and whether the catch-up loop goes on. *)
Capture ==
  /\ pc = "capture"
  /\ \/ /\ Wanted \subseteq DOMAIN Progress
        /\ IF SP!CatchUpRequired(Restrict(Progress, Wanted))
           THEN Goto("ready") /\ UNCHANGED <<handles, rebalances>>
           ELSE Release("done")
        /\ UNCHANGED faults
     \/ ~(Wanted \subseteq DOMAIN Progress) /\ Fails /\ UNCHANGED faults
     \/ Fault /\ Fails
  /\ UNCHANGED broker

-----------------------------------------------------------------------------
(* UpdateCoordinator::PollApplyCommitOnce *)

BeginPoll ==
  /\ pc = "ready"
  /\ IF ValidateOptions(request)
     THEN /\ pc' = "poll" /\ batch' = <<>> /\ polled' = 0
          /\ UNCHANGED <<request, handles, position, eof, published, origin, mine, rebalances>>
     ELSE Fails
  /\ UNCHANGED <<broker, faults>>

Polling == pc = "poll" /\ polled < request.poll_options.max_messages

(* No message within the time given, or as many as were asked for. *)
EndPoll ==
  /\ pc = "poll"
  /\ pc' = "polled"
  /\ UNCHANGED <<broker, request, handles, client, faults, rebalances>>

(* Mutant: the end of a partition is an error like any other. *)
PollEofFails(p) ==
  /\ Polling /\ p \in eof
  /\ Fails
  /\ UNCHANGED <<broker, faults>>

(* The end of a partition counts as a round. *)
PollEof(p) ==
  /\ Polling /\ p \in eof
  /\ eof' = eof \ {p}
  /\ polled' = polled + 1
  /\ UNCHANGED <<broker, request, pc, handles, position, batch, published, origin,
                 mine, faults, rebalances>>

(* What was read before goes with the client. *)
PollError ==
  /\ Polling
  /\ Fault /\ Fails
  /\ UNCHANGED broker

(* Mutant: a message that cannot be converted is passed over. *)
PollMessageSkips(p) ==
  LET m == Message(p, position[p]) IN
  /\ Polling /\ position[p] # NoOffset /\ position[p] < end[p]
  /\ position' = [position EXCEPT ![p] = @ + 1]
  /\ eof' = IF position[p] + 1 = end[p] THEN eof \cup {p} ELSE eof
  /\ batch' = IF Convertible(m) THEN Append(batch, m) ELSE batch
  /\ polled' = polled + 1
  /\ UNCHANGED <<broker, request, pc, handles, published, origin, mine, faults, rebalances>>

PollMessage(p) ==
  LET m == Message(p, position[p]) IN
  /\ Polling /\ position[p] # NoOffset /\ position[p] < end[p]
  /\ IF Convertible(m)
     THEN /\ position' = [position EXCEPT ![p] = @ + 1]
          /\ eof' = IF position[p] + 1 = end[p] THEN eof \cup {p} ELSE eof
          /\ batch' = Append(batch, m)
          /\ polled' = polled + 1
          /\ UNCHANGED <<request, pc, handles, published, origin, mine, rebalances>>
     ELSE Fails
  /\ UNCHANGED <<broker, faults>>

(* An empty batch is neither applied nor committed. *)
CheckBatch ==
  /\ pc = "polled"
  /\ \/ batch = <<>> /\ Goto("capture") /\ UNCHANGED <<handles, rebalances>>
     \/ /\ batch # <<>> /\ \A m \in ToSet(batch) : ValidMessage(m)
        /\ Goto("apply") /\ UNCHANGED <<handles, rebalances>>
     \/ (\E m \in ToSet(batch) : ~ValidMessage(m)) /\ Fails
  /\ UNCHANGED <<broker, faults>>

(* UpdateApplier::ApplyBatch: message by message, or up to a failure, with *)
(* which the published messages go as the client does.                     *)
Apply ==
  /\ pc = "apply"
  /\ \/ /\ published' = published \cup ToSet(batch)
        /\ pc' = "commit"
        /\ UNCHANGED <<request, handles, position, eof, batch, polled, origin, mine,
                       faults, rebalances>>
     \/ Fault /\ Fails
  /\ UNCHANGED broker

(* The offsets after the commit of the batch. *)
Checkpointed(offsets) ==
  LET checkpoint == BuildCommitCheckpoint(batch)
  IN [p \in Partitions |-> IF p \in DOMAIN checkpoint THEN checkpoint[p] ELSE offsets[p]]

Commit ==
  /\ pc = "commit"
  /\ \/ /\ committed' = Checkpointed(committed)
        /\ mine' = Checkpointed(mine)
        /\ pc' = "capture"
        /\ UNCHANGED <<request, handles, position, eof, batch, polled, published,
                       origin, faults, rebalances>>
     \/ /\ committed' \in {committed, Checkpointed(committed)}   \* the answer may be lost
        /\ Fault /\ Fails
  /\ UNCHANGED end

-----------------------------------------------------------------------------

Next ==
  \/ \E r \in Requests : Create(r)
  \/ SetKafkaConfig \/ NewConsumer \/ PollSetConsumer \/ Subscribe
  \/ Seek \/ Capture \/ BeginPoll \/ EndPoll \/ PollError
  \/ CheckBatch \/ Apply \/ Commit
  \/ \E p \in Partitions :
       Assign(p) \/ Revoke(p) \/ Produce(p) \/ PollEof(p) \/ PollMessage(p)

(* The thread of a load runs on.  A message that a consumer waits for in   *)
(* one poll after the other is delivered.                                  *)
Fairness ==
  /\ WF_vars(Capture \/ BeginPoll \/ EndPoll \/ CheckBatch \/ Apply \/ Commit)
  /\ \A p \in Partitions : SF_vars(PollMessage(p))

Spec == Init /\ [][Next]_vars /\ Fairness

-----------------------------------------------------------------------------
(* Properties *)

(* An offset that the consumer commits has every message before it, from   *)
(* where the consumer began, published: no message that a poll read and    *)
(* dropped is passed over (Poll, PollApplyCommitOnce).                     *)
CommitLeavesNoGap ==
  \A p \in Partitions :
    origin[p] # NoOffset =>
      \A offset \in origin[p] .. mine[p] - 1 : Message(p, offset) \in published

(* librdkafka objects are destroyed once and not forgotten, whichever step *)
(* of Create, of the start or of a poll fails: no client, no object; a     *)
(* client, one consumer, which owns the configuration.                     *)
HandlesReleasedOnce ==
  handles = [conf |-> IF pc \in {"set", "new"} THEN 1 ELSE 0,
             consumer |-> IF pc \in {"none", "done", "set", "new"} THEN 0 ELSE 1]

(* Nothing fails any more, all partitions are assigned, and everything     *)
(* ahead can be applied.                                                   *)
Unhindered ==
  /\ pc \in {"capture", "ready", "poll", "polled", "apply", "commit"}
  /\ faults = MaxFaults /\ rebalances = MaxRebalances
  /\ ValidateOptions(request)
  /\ end = [p \in Partitions |-> Len(Log[p])]
  /\ \A p \in Partitions : Topic[p] \in ToSet(request.config.topics) =>
       /\ position[p] # NoOffset
       /\ \A o \in position[p] .. end[p] - 1 :
            Convertible(Message(p, o)) /\ ValidMessage(Message(p, o))
  /\ \A m \in ToSet(batch) : ValidMessage(m)

(* Unhindered, a consumer commits what it still has to read of a partition *)
(* that the load waits for: neither ends of partitions nor small batches   *)
(* keep it from getting there (Poll, RunExternalArtifactLoad).             *)
WhatIsAheadIsCommitted ==
  \A p \in Partitions :
    (Unhindered /\ p \in Wanted /\ position[p] < end[p]) ~> (committed[p] = end[p])

===============================================================================
