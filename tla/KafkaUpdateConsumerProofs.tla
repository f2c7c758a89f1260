----------------------- MODULE KafkaUpdateConsumerProofs -----------------------
(***************************************************************************)
(* Proofs about the Kafka consumer and the coordinator that commits behind *)
(* it, for every log, every set of requests and any number of failures and *)
(* rebalances.                                                             *)
(***************************************************************************)
EXTENDS KafkaUpdateConsumer, NumberFacts, TLAPS

LOCAL INSTANCE SequencesExt

-----------------------------------------------------------------------------
(* The inductive invariant. *)

MessageType == [partition : Partitions, offset : Nat]

PositionType == [Partitions -> Nat \cup {NoOffset}]

Unsubscribed == {"none", "done", "set", "new", "poll_set", "subscribe"}

Labels ==
  Unsubscribed \cup {"seek", "capture", "ready", "poll", "polled", "apply", "commit"}

ConsumerTypes ==
  /\ pc \in Labels /\ request \in Requests
  /\ end \in [Partitions -> Nat]
  /\ committed \in PositionType /\ position \in PositionType
  /\ origin \in PositionType /\ mine \in PositionType
  /\ batch \in Seq(MessageType) /\ published \subseteq MessageType

(* A client that has not been polled has read and committed nothing. *)
StartsClean ==
  /\ pc \in Unsubscribed => position = Nowhere /\ origin = Nowhere
  /\ pc \in Unsubscribed \cup {"seek"} => batch = <<>> /\ published = {} /\ mine = Nowhere

(* The messages of p from where reading began to n are published or in the *)
(* batch.                                                                  *)
Reached(p, n) ==
  \A o \in origin[p] .. n - 1 : Message(p, o) \in published \cup ToSet(batch)

(* The consumer has read everything up to its position, and what this      *)
(* client committed is published.                                          *)
PartitionOK(p) ==
  /\ position[p] # NoOffset => origin[p] # NoOffset /\ Reached(p, position[p])
  /\ mine[p] # NoOffset => origin[p] # NoOffset
  /\ \A o \in origin[p] .. mine[p] - 1 : Message(p, o) \in published

(* A batch has no holes either, also when a rebalance in the middle of the *)
(* poll moved the consumer back.                                           *)
InBatchOK(m) ==
  /\ origin[m.partition] # NoOffset
  /\ Reached(m.partition, m.offset + 1)
  /\ m.offset < end[m.partition]

(* Outside a poll the batch has been applied. *)
BatchApplied ==
  pc \in {"capture", "ready", "commit"} => ToSet(batch) \subseteq published

ConsumerInv ==
  /\ ConsumerTypes /\ StartsClean /\ BatchApplied
  /\ \A p \in Partitions : PartitionOK(p)
  /\ \A m \in ToSet(batch) : InBatchOK(m)
-----------------------------------------------------------------------------
(* The largest offset of a batch. *)

LEMMA InBatchType ==
  ASSUME ConsumerTypes, NEW m \in ToSet(batch)
  PROVE  m \in MessageType /\ m = Message(m.partition, m.offset)
<1>1. m \in MessageType
  BY DEF ConsumerTypes, ToSet
<1>2. QED
  BY <1>1 DEF MessageType, Message

(* The checkpoint of a batch is behind a message that is in it. *)
LEMMA CheckpointIsInBatch ==
  ASSUME ConsumerInv, NEW p \in DOMAIN BuildCommitCheckpoint(batch)
  PROVE  /\ p \in Partitions
         /\ \E m \in ToSet(batch) :
              m.partition = p /\ BuildCommitCheckpoint(batch)[p] = m.offset + 1
<1> DEFINE offsets == {m.offset : m \in {n \in ToSet(batch) : n.partition = p}}
           last == CHOOSE o \in offsets : \A x \in offsets : x <= o
<1>1. /\ ConsumerTypes /\ end \in [Partitions -> Nat]
      /\ \A m \in ToSet(batch) : m \in MessageType /\ m.offset < end[m.partition]
  BY InBatchType DEF ConsumerInv, InBatchOK, ConsumerTypes
<1>2. PICK n \in ToSet(batch) : n.partition = p
  BY DEF BuildCommitCheckpoint
<1>3. BuildCommitCheckpoint(batch)[p] = 1 + last
  BY <1>2 DEF BuildCommitCheckpoint
<1>4. p \in Partitions /\ end[p] \in Nat
  BY <1>1, <1>2 DEF MessageType
<1>5. offsets \in SUBSET Nat /\ offsets # {}
  BY <1>1, <1>2 DEF MessageType
<1>6. \A x \in offsets : x <= end[p]
  BY <1>1, <1>4 DEF MessageType
<1>7. \E o \in offsets : \A x \in offsets : x <= o
  BY <1>4, <1>5, <1>6, LargestNumber
<1>8. last \in offsets
  BY <1>7
<1>9. PICK m \in ToSet(batch) : m.partition = p /\ m.offset = last
  BY <1>8
<1>10. m.offset \in Nat
  BY <1>1, <1>9 DEF MessageType
<1>11. BuildCommitCheckpoint(batch)[p] = m.offset + 1
  BY <1>3, <1>9, <1>10
<1>12. QED
  BY <1>4, <1>9, <1>11

LEMMA CheckpointedType ==
  ASSUME ConsumerInv, NEW offsets \in PositionType
  PROVE  Checkpointed(offsets) \in PositionType
<1>1. ASSUME NEW p \in DOMAIN BuildCommitCheckpoint(batch)
      PROVE  BuildCommitCheckpoint(batch)[p] \in Nat
  <2>1. PICK m \in ToSet(batch) :
          m.partition = p /\ BuildCommitCheckpoint(batch)[p] = m.offset + 1
    BY CheckpointIsInBatch
  <2>2. m.offset \in Nat
    BY <2>1, InBatchType DEF ConsumerInv, MessageType
  <2>3. QED
    BY <2>1, <2>2
<1>2. QED
  BY <1>1 DEF Checkpointed, PositionType

LEMMA AppendedSet ==
  ASSUME NEW S, NEW s \in Seq(S), NEW e \in S
  PROVE  ToSet(Append(s, e)) = ToSet(s) \cup {e}
<1>1. /\ DOMAIN s = 1 .. Len(s) /\ Len(s) \in Nat
      /\ DOMAIN Append(s, e) = 1 .. Len(s) + 1
      /\ Append(s, e)[Len(s) + 1] = e /\ \A i \in 1 .. Len(s) : Append(s, e)[i] = s[i]
  OBVIOUS
<1>2. 1 .. Len(s) + 1 = (1 .. Len(s)) \cup {Len(s) + 1}
  BY <1>1
<1>3. QED
  BY <1>1, <1>2 DEF ToSet

LEMMA EmptyBatch == ToSet(<<>>) = {}
BY DEF ToSet

-----------------------------------------------------------------------------
(* Steps *)

LEMMA NowhereType == Nowhere \in PositionType /\ \A p \in Partitions : Nowhere[p] = NoOffset
BY DEF Nowhere, PositionType

LEMMA InitConsumerInv == ASSUME Init PROVE ConsumerInv
<1>1. ConsumerTypes
  BY ConsumerAssumption, NowhereType DEF Init, ConsumerTypes, Labels, Unsubscribed
<1>2. StartsClean /\ BatchApplied
  BY DEF Init, StartsClean, BatchApplied
<1>3. \A p \in Partitions : PartitionOK(p)
  BY NowhereType DEF Init, PartitionOK, NoOffset
<1>4. \A m \in ToSet(batch) : InBatchOK(m)
  BY EmptyBatch DEF Init
<1>5. QED
  BY <1>1, <1>2, <1>3, <1>4 DEF ConsumerInv

(* A client that ends leaves nothing behind. *)
LEMMA ReleaseKeeps ==
  ASSUME ConsumerInv, NEW there \in {"none", "done"}, Release(there),
         committed' \in PositionType, end' \in [Partitions -> Nat]
  PROVE  ConsumerInv'
<1>1. /\ pc' = there /\ position' = Nowhere /\ batch' = <<>> /\ published' = {}
      /\ origin' = Nowhere /\ mine' = Nowhere /\ request' = request
  BY DEF Release
<1>2. ConsumerTypes'
  BY <1>1, NowhereType DEF ConsumerInv, ConsumerTypes, Labels, Unsubscribed
<1>3. StartsClean' /\ BatchApplied'
  <2>1. Nowhere' = Nowhere
    BY DEF Nowhere
  <2>2. QED
    BY <1>1, <2>1 DEF StartsClean, BatchApplied
<1>4. \A p \in Partitions : PartitionOK(p)'
  BY <1>1, NowhereType DEF PartitionOK, NoOffset
<1>5. \A m \in ToSet(batch') : InBatchOK(m)'
  BY <1>1, EmptyBatch
<1>6. QED
  BY <1>2, <1>3, <1>4, <1>5 DEF ConsumerInv

LEMMA FailsKeeps ==
  ASSUME ConsumerInv, Fails, UNCHANGED broker PROVE ConsumerInv'
BY ReleaseKeeps DEF Fails, broker, ConsumerInv, ConsumerTypes

(* The label changes, and what the label says still holds. *)
LEMMA LabelStep ==
  ASSUME ConsumerInv, NEW there \in Labels, pc' = there, UNCHANGED <<broker, client>>,
         request' \in Requests,
         there \in Unsubscribed => pc \in Unsubscribed,
         there = "seek" => pc \in Unsubscribed \cup {"seek"},
         there \in {"capture", "ready", "commit"} =>
           pc \in {"capture", "ready", "commit"} \/ batch = <<>>
  PROVE  ConsumerInv'
<1>1. /\ end' = end /\ committed' = committed /\ position' = position /\ batch' = batch
      /\ published' = published /\ origin' = origin /\ mine' = mine
  BY DEF broker, client
<1>2. ConsumerTypes'
  BY <1>1 DEF ConsumerInv, ConsumerTypes
<1>3. StartsClean'
  BY <1>1 DEF ConsumerInv, StartsClean, Unsubscribed, Labels, Nowhere
<1>4. BatchApplied'
  BY <1>1, EmptyBatch DEF ConsumerInv, BatchApplied
<1>5. \A p \in Partitions : PartitionOK(p)'
  BY <1>1 DEF ConsumerInv, PartitionOK, Reached
<1>6. \A m \in ToSet(batch') : InBatchOK(m)'
  BY <1>1 DEF ConsumerInv, InBatchOK, Reached
<1>7. QED
  BY <1>2, <1>3, <1>4, <1>5, <1>6 DEF ConsumerInv

LEMMA CreationKeeps ==
  ASSUME ConsumerInv,
         \/ \E r \in Requests : Create(r)
         \/ SetKafkaConfig \/ NewConsumer \/ PollSetConsumer \/ Subscribe
  PROVE  ConsumerInv'
<1>1. /\ pc \in Unsubscribed /\ pc' \in Unsubscribed \cup {"seek"}
      /\ broker' = broker /\ client' = client /\ request' \in Requests
  BY DEF Create, SetKafkaConfig, NewConsumer, PollSetConsumer, Subscribe, Goto,
     Unsubscribed, ConsumerInv, ConsumerTypes
<1>2. QED
  BY <1>1, LabelStep DEF Labels, Unsubscribed

(* A rebalance may find the group ahead of, at or behind what this client  *)
(* has read, in the middle of a poll too.                                  *)
LEMMA AssignKeeps ==
  ASSUME ConsumerInv, NEW q \in Partitions, Assign(q) PROVE ConsumerInv'
<1> DEFINE start == IF committed[q] = NoOffset THEN 0 ELSE committed[q]
<1>1. /\ ConsumerTypes /\ start \in Nat /\ PartitionOK(q)
      /\ origin[q] \in Nat \cup {NoOffset} /\ mine[q] \in Nat \cup {NoOffset}
  BY DEF ConsumerInv, ConsumerTypes, PositionType
<1>2. /\ pc \notin Unsubscribed
      /\ position' = [position EXCEPT ![q] = start]
      /\ origin' = [origin EXCEPT ![q] =
                      IF start \in {mine[q]} \cup 0 .. @ THEN @ ELSE start]
      /\ pc' = pc /\ request' = request /\ batch' = batch /\ published' = published
      /\ mine' = mine /\ end' = end /\ committed' = committed
  BY DEF Assign, Subscribed, Unsubscribed, broker
<1> HIDE DEF start
<1>3. /\ position' \in PositionType /\ origin' \in PositionType
      /\ position'[q] = start
      /\ \A p \in Partitions \ {q} : position'[p] = position[p] /\ origin'[p] = origin[p]
  BY <1>1, <1>2 DEF ConsumerTypes, PositionType
<1>4. /\ origin'[q] \in Nat
      /\ origin[q] # NoOffset => origin'[q] >= origin[q]
      /\ \/ origin'[q] = origin[q] /\ (start = mine[q] \/ start <= origin[q])
         \/ origin'[q] = start
  <2>1. origin'[q] = IF start \in {mine[q]} \cup 0 .. origin[q] THEN origin[q] ELSE start
    BY <1>1, <1>2 DEF ConsumerTypes, PositionType
  <2>2. CASE start = mine[q]
    <3>1. origin[q] # NoOffset
      BY <1>1, <2>2 DEF PartitionOK, NoOffset
    <3>2. QED
      BY <1>1, <2>1, <2>2, <3>1
  <2>3. CASE start \in 0 .. origin[q]
    BY <1>1, <2>1, <2>3 DEF NoOffset
  <2>4. CASE start \notin {mine[q]} \cup 0 .. origin[q]
    BY <1>1, <2>1, <2>4 DEF NoOffset
  <2>5. QED
    BY <2>2, <2>3, <2>4
<1>5. ConsumerTypes'
  BY <1>1, <1>2, <1>3 DEF ConsumerTypes
<1>6. StartsClean' /\ BatchApplied'
  BY <1>2 DEF ConsumerInv, StartsClean, BatchApplied, Unsubscribed, Nowhere
<1>7. ASSUME NEW p \in Partitions PROVE PartitionOK(p)'
  <2>1. CASE p # q
    BY <1>2, <1>3, <2>1 DEF ConsumerInv, PartitionOK, Reached
  <2>2. CASE p = q
    <3>1. \A o \in origin[q] .. mine[q] - 1 : Message(q, o) \in published
      BY <1>1 DEF PartitionOK
    <3>2. mine[q] # NoOffset => origin[q] # NoOffset
      BY <1>1 DEF PartitionOK
    <3>3. ASSUME NEW o \in origin'[q] .. mine[q] - 1 PROVE Message(q, o) \in published
      <4>1. mine[q] \in Nat /\ o \in Int
        BY <1>1, <1>4 DEF NoOffset
      <4>2. origin[q] \in Nat /\ origin'[q] >= origin[q]
        BY <1>1, <1>4, <3>2, <4>1 DEF NoOffset
      <4>3. o \in origin[q] .. mine[q] - 1
        BY <1>4, <4>1, <4>2
      <4>4. QED
        BY <3>1, <4>3
    <3>4. ASSUME NEW o \in origin'[q] .. start - 1 PROVE Message(q, o) \in published
      <4>1. start = mine[q]
        BY <1>1, <1>4 DEF NoOffset
      <4>2. QED
        BY <3>3, <4>1
    <3>5. origin'[q] # NoOffset
      BY <1>4 DEF NoOffset
    <3>6. QED
      BY <1>2, <1>3, <2>2, <3>3, <3>4, <3>5 DEF PartitionOK, Reached
  <2>3. QED
    BY <2>1, <2>2
<1>8. ASSUME NEW m \in ToSet(batch) PROVE InBatchOK(m)'
  <2>1. InBatchOK(m) /\ m.partition \in Partitions /\ m.offset \in Nat
    BY <1>1, InBatchType DEF ConsumerInv, MessageType
  <2>2. CASE m.partition # q
    BY <1>2, <1>3, <2>1, <2>2 DEF InBatchOK, Reached
  <2>3. CASE m.partition = q
    <3>1. /\ origin[q] # NoOffset /\ m.offset < end[q]
          /\ \A o \in origin[q] .. m.offset : Message(q, o) \in published \cup ToSet(batch)
      BY <2>1, <2>3 DEF InBatchOK, Reached
    <3>2. \A o \in origin'[q] .. m.offset : Message(q, o) \in published \cup ToSet(batch)
      BY <1>1, <1>4, <2>1, <3>1
    <3>3. origin'[q] # NoOffset
      BY <1>4 DEF NoOffset
    <3>4. (m.offset + 1) - 1 = m.offset
      BY <2>1
    <3>5. QED
      BY <1>2, <2>3, <3>1, <3>2, <3>3, <3>4 DEF InBatchOK, Reached
  <2>4. QED
    BY <2>2, <2>3
<1>9. QED
  BY <1>2, <1>5, <1>6, <1>7, <1>8 DEF ConsumerInv

LEMMA RevokeKeeps ==
  ASSUME ConsumerInv, NEW q \in Partitions, Revoke(q) PROVE ConsumerInv'
<1>1. /\ pc \notin Unsubscribed /\ position' = [position EXCEPT ![q] = NoOffset]
      /\ pc' = pc /\ request' = request /\ batch' = batch /\ published' = published
      /\ mine' = mine /\ end' = end /\ committed' = committed /\ origin' = origin
  BY DEF Revoke, Subscribed, Unsubscribed, broker
<1>2. ConsumerTypes /\ \A p \in Partitions : position'[p] \in {position[p], NoOffset}
  BY <1>1 DEF ConsumerInv, ConsumerTypes, PositionType
<1>3. ConsumerTypes'
  BY <1>1, <1>2 DEF ConsumerTypes, PositionType
<1>4. StartsClean' /\ BatchApplied'
  BY <1>1 DEF ConsumerInv, StartsClean, BatchApplied, Unsubscribed, Nowhere
<1>5. \A p \in Partitions : PartitionOK(p)'
  BY <1>1, <1>2 DEF ConsumerInv, PartitionOK, Reached
<1>6. \A m \in ToSet(batch') : InBatchOK(m)'
  BY <1>1 DEF ConsumerInv, InBatchOK, Reached
<1>7. QED
  BY <1>3, <1>4, <1>5, <1>6 DEF ConsumerInv

LEMMA ProduceKeeps ==
  ASSUME ConsumerInv, NEW q \in Partitions, Produce(q) PROVE ConsumerInv'
<1>1. /\ end' = [end EXCEPT ![q] = @ + 1] /\ client' = client /\ pc' = pc
      /\ request' = request /\ committed' = committed
  BY DEF Produce
<1>2. /\ position' = position /\ batch' = batch /\ published' = published
      /\ origin' = origin /\ mine' = mine
  BY <1>1 DEF client
<1>3. /\ ConsumerTypes /\ end' \in [Partitions -> Nat]
      /\ \A p \in Partitions : end[p] \in Nat /\ end'[p] >= end[p]
  BY <1>1 DEF ConsumerInv, ConsumerTypes
<1>4. ConsumerTypes'
  BY <1>1, <1>2, <1>3 DEF ConsumerTypes
<1>5. StartsClean' /\ BatchApplied' /\ \A p \in Partitions : PartitionOK(p)'
  BY <1>1, <1>2 DEF ConsumerInv, StartsClean, BatchApplied, PartitionOK, Reached, Nowhere
<1>6. ASSUME NEW m \in ToSet(batch) PROVE InBatchOK(m)'
  <2>1. m.partition \in Partitions /\ m.offset \in Nat /\ InBatchOK(m)
    BY <1>3, InBatchType DEF ConsumerInv, MessageType
  <2>2. m.offset < end'[m.partition]
    BY <1>3, <2>1 DEF InBatchOK
  <2>3. QED
    BY <1>2, <2>1, <2>2 DEF InBatchOK, Reached
<1>7. QED
  BY <1>2, <1>4, <1>5, <1>6 DEF ConsumerInv

(* A seek is the first thing a client does: nothing is read yet. *)
LEMMA SeekKeeps == ASSUME ConsumerInv, Seek PROVE ConsumerInv'
<1> DEFINE moved == {p \in Wanted : position[p] # NoOffset}
<1>1. pc = "seek" /\ UNCHANGED broker
  BY DEF Seek
<1>2. CASE Fails
  BY <1>1, <1>2, FailsKeeps
<1>3. CASE /\ ValidateCheckpoint(request.checkpoint) /\ pc' = "capture"
           /\ position' = [p \in Partitions |-> IF p \in moved THEN OffsetOf(p) ELSE position[p]]
           /\ origin' = [p \in Partitions |-> IF p \in moved THEN OffsetOf(p) ELSE origin[p]]
           /\ UNCHANGED <<request, batch, published, mine>>
  <2>1. ASSUME NEW p \in Wanted PROVE OffsetOf(p) \in Nat
    <3>1. \E i \in DOMAIN request.checkpoint : request.checkpoint[i].partition = p
      BY DEF Wanted
    <3>2. PICK i \in DOMAIN request.checkpoint : OffsetOf(p) = request.checkpoint[i].offset
      BY <3>1 DEF OffsetOf
    <3>3. request.checkpoint[i].offset >= 0
      BY <1>3 DEF ValidateCheckpoint
    <3>4. request.checkpoint[i].offset \in Int
      BY ConsumerAssumption DEF ConsumerInv, ConsumerTypes
    <3>5. QED
      BY <3>2, <3>3, <3>4
  <2>2. ConsumerTypes'
    <3>1. position' \in PositionType /\ origin' \in PositionType
      BY <1>3, <2>1 DEF ConsumerInv, ConsumerTypes, PositionType
    <3>2. QED
      BY <1>1, <1>3, <3>1 DEF ConsumerInv, ConsumerTypes, Labels, broker
  <2>3. batch = <<>> /\ published = {} /\ mine = Nowhere
    BY <1>1 DEF ConsumerInv, StartsClean
  <2>4. StartsClean' /\ BatchApplied'
    BY <1>3, <2>3, EmptyBatch DEF StartsClean, BatchApplied, Unsubscribed
  <2>5. ASSUME NEW p \in Partitions PROVE PartitionOK(p)'
    <3>1. CASE p \in moved
      <4>1. position'[p] = OffsetOf(p) /\ origin'[p] = OffsetOf(p) /\ mine'[p] = NoOffset
        BY <1>3, <2>3, <3>1, NowhereType
      <4>2. OffsetOf(p) \in Nat
        BY <2>1, <3>1
      <4>3. QED
        BY <4>1, <4>2 DEF PartitionOK, Reached, NoOffset
    <3>2. CASE p \notin moved
      <4>1. position'[p] = position[p] /\ origin'[p] = origin[p]
        BY <1>3, <3>2
      <4>2. QED
        BY <1>3, <4>1 DEF ConsumerInv, PartitionOK, Reached
    <3>3. QED
      BY <3>1, <3>2
  <2>6. QED
    BY <1>3, <2>2, <2>3, <2>4, <2>5, EmptyBatch DEF ConsumerInv
<1>4. QED
  BY <1>2, <1>3 DEF Seek

LEMMA CaptureKeeps == ASSUME ConsumerInv, Capture PROVE ConsumerInv'
<1>1. pc = "capture" /\ UNCHANGED broker
  BY DEF Capture
<1>2. CASE Goto("ready")
  <2>1. request' = request /\ request' \in Requests /\ client' = client /\ pc' = "ready"
    BY <1>2 DEF Goto, ConsumerInv, ConsumerTypes
  <2>2. QED
    BY <1>1, <2>1, LabelStep DEF Labels, Unsubscribed
<1>3. CASE Release("done")
  BY <1>1, <1>3, ReleaseKeeps DEF broker, ConsumerInv, ConsumerTypes
<1>4. CASE Fails
  BY <1>1, <1>4, FailsKeeps
<1>5. QED
  BY <1>2, <1>3, <1>4 DEF Capture

(* The batch of the last poll is published when the next one begins. *)
LEMMA BeginPollKeeps == ASSUME ConsumerInv, BeginPoll PROVE ConsumerInv'
<1>1. pc = "ready" /\ UNCHANGED broker
  BY DEF BeginPoll
<1>2. CASE Fails
  BY <1>1, <1>2, FailsKeeps
<1>3. CASE /\ pc' = "poll" /\ batch' = <<>>
           /\ UNCHANGED <<request, position, published, origin, mine>>
  <2>1. ConsumerTypes'
    BY <1>1, <1>3 DEF ConsumerInv, ConsumerTypes, Labels, broker
  <2>2. StartsClean' /\ BatchApplied'
    BY <1>3 DEF StartsClean, BatchApplied, Unsubscribed
  <2>3. ToSet(batch) \subseteq published
    BY <1>1 DEF ConsumerInv, BatchApplied
  <2>4. \A p \in Partitions : PartitionOK(p)'
    BY <1>3, <2>3 DEF ConsumerInv, PartitionOK, Reached
  <2>5. QED
    BY <1>3, <2>1, <2>2, <2>4, EmptyBatch DEF ConsumerInv
<1>4. QED
  BY <1>2, <1>3 DEF BeginPoll

LEMMA EndPollKeeps == ASSUME ConsumerInv, EndPoll PROVE ConsumerInv'
<1>1. /\ pc' = "polled" /\ UNCHANGED <<broker, client>> /\ request' \in Requests
  BY DEF EndPoll, ConsumerInv, ConsumerTypes
<1>2. QED
  BY <1>1, LabelStep DEF Labels, Unsubscribed

LEMMA PollEofKeeps ==
  ASSUME ConsumerInv, NEW q \in Partitions, PollEof(q) PROVE ConsumerInv'
<1>1. /\ end' = end /\ committed' = committed /\ request' = request /\ pc' = pc
      /\ position' = position /\ batch' = batch /\ published' = published
      /\ origin' = origin /\ mine' = mine
  BY DEF PollEof, broker
<1>2. ConsumerTypes'
  BY <1>1 DEF ConsumerInv, ConsumerTypes
<1>3. StartsClean' /\ BatchApplied'
  BY <1>1 DEF ConsumerInv, StartsClean, BatchApplied, Nowhere
<1>4. /\ \A p \in Partitions : PartitionOK(p)'
      /\ \A m \in ToSet(batch') : InBatchOK(m)'
  BY <1>1 DEF ConsumerInv, PartitionOK, InBatchOK, Reached
<1>5. QED
  BY <1>2, <1>3, <1>4 DEF ConsumerInv

(* A message that is read is the next one of its partition. *)
LEMMA PollMessageKeeps ==
  ASSUME ConsumerInv, NEW q \in Partitions, PollMessage(q) PROVE ConsumerInv'
<1> DEFINE n == Message(q, position[q])
<1>1. /\ pc = "poll" /\ position[q] # NoOffset /\ position[q] < end[q] /\ UNCHANGED broker
  BY DEF PollMessage, Polling
<1>2. CASE Fails
  BY <1>1, <1>2, FailsKeeps
<1>3. CASE /\ position' = [position EXCEPT ![q] = @ + 1] /\ batch' = Append(batch, n)
           /\ UNCHANGED <<request, pc, published, origin, mine>>
  <2>1. /\ ConsumerTypes /\ position[q] \in Nat /\ n \in MessageType
        /\ n.partition = q /\ n.offset = position[q]
    BY <1>1 DEF ConsumerInv, ConsumerTypes, PositionType, Message, MessageType
  <2>2. /\ ToSet(batch') = ToSet(batch) \cup {n}
        /\ batch' \in Seq(MessageType)
    BY <1>3, <2>1, AppendedSet DEF ConsumerTypes
  <2>3. /\ position' \in PositionType /\ position'[q] = position[q] + 1
        /\ \A p \in Partitions \ {q} : position'[p] = position[p]
        /\ end' = end /\ committed' = committed
    BY <1>1, <1>3, <2>1 DEF ConsumerTypes, PositionType, broker
  <2> HIDE DEF n
  <2>4. ConsumerTypes'
    BY <1>3, <2>1, <2>2, <2>3 DEF ConsumerTypes
  <2>5. StartsClean' /\ BatchApplied'
    BY <1>1, <1>3 DEF StartsClean, BatchApplied, Unsubscribed
  <2>6. /\ origin[q] # NoOffset
        /\ \A o \in origin[q] .. position[q] : Message(q, o) \in published \cup ToSet(batch')
    <3>1. origin[q] # NoOffset /\ Reached(q, position[q])
      BY <1>1 DEF ConsumerInv, PartitionOK
    <3>2. origin[q] \in Nat
      BY <2>1, <3>1 DEF ConsumerTypes, PositionType
    <3>3. ASSUME NEW o \in origin[q] .. position[q]
          PROVE  Message(q, o) \in published \cup ToSet(batch')
      <4>1. o = position[q] \/ o \in origin[q] .. position[q] - 1
        BY <2>1, <3>2
      <4>2. QED
        BY <2>2, <3>1, <4>1 DEF Reached, n
    <3>4. QED
      BY <3>1, <3>3
  <2>7. (position[q] + 1) - 1 = position[q]
    BY <2>1
  <2>8. ASSUME NEW p \in Partitions PROVE PartitionOK(p)'
    <3>1. PartitionOK(p)
      BY DEF ConsumerInv
    <3>2. CASE p = q
      BY <1>3, <2>3, <2>6, <2>7, <3>1, <3>2 DEF PartitionOK, Reached
    <3>3. CASE p # q
      BY <1>3, <2>2, <2>3, <3>1, <3>3 DEF PartitionOK, Reached
    <3>4. QED
      BY <3>2, <3>3
  <2>9. ASSUME NEW m \in ToSet(batch') PROVE InBatchOK(m)'
    <3>1. CASE m \in ToSet(batch)
      BY <1>3, <2>2, <2>3, <3>1 DEF ConsumerInv, InBatchOK, Reached
    <3>2. CASE m = n
      BY <1>1, <1>3, <2>1, <2>3, <2>6, <2>7, <3>2 DEF InBatchOK, Reached
    <3>3. QED
      BY <2>2, <3>1, <3>2
  <2>10. QED
    BY <2>4, <2>5, <2>8, <2>9 DEF ConsumerInv
<1>4. QED
  BY <1>2, <1>3 DEF PollMessage

LEMMA CheckBatchKeeps == ASSUME ConsumerInv, CheckBatch PROVE ConsumerInv'
<1>1. pc = "polled" /\ UNCHANGED broker
  BY DEF CheckBatch
<1>2. CASE Fails
  BY <1>1, <1>2, FailsKeeps
<1>3. CASE (batch = <<>> /\ Goto("capture")) \/ Goto("apply")
  <2>1. request' \in Requests /\ client' = client
    BY <1>3 DEF Goto, ConsumerInv, ConsumerTypes
  <2>2. QED
    BY <1>1, <1>3, <2>1, LabelStep DEF Goto, Labels, Unsubscribed
<1>4. QED
  BY <1>2, <1>3 DEF CheckBatch

LEMMA ApplyKeeps == ASSUME ConsumerInv, Apply PROVE ConsumerInv'
<1>1. pc = "apply" /\ UNCHANGED broker
  BY DEF Apply
<1>2. CASE Fails
  BY <1>1, <1>2, FailsKeeps
<1>3. CASE /\ published' = published \cup ToSet(batch) /\ pc' = "commit"
           /\ UNCHANGED <<request, position, batch, origin, mine>>
  <2>1. ConsumerTypes'
    <3>1. published' \subseteq MessageType
      BY <1>3, InBatchType DEF ConsumerInv, ConsumerTypes
    <3>2. QED
      BY <1>1, <1>3, <3>1 DEF ConsumerInv, ConsumerTypes, Labels, broker
  <2>2. StartsClean' /\ BatchApplied'
    BY <1>3 DEF StartsClean, BatchApplied, Unsubscribed
  <2>3. \A p \in Partitions : PartitionOK(p)'
    BY <1>3 DEF ConsumerInv, PartitionOK, Reached
  <2>4. \A m \in ToSet(batch') : InBatchOK(m)'
    BY <1>1, <1>3 DEF ConsumerInv, InBatchOK, Reached, broker
  <2>5. QED
    BY <2>1, <2>2, <2>3, <2>4 DEF ConsumerInv
<1>4. QED
  BY <1>2, <1>3 DEF Apply

(* The checkpoint of a batch, all of which is published. *)
LEMMA CommitKeeps == ASSUME ConsumerInv, Commit PROVE ConsumerInv'
<1>1. pc = "commit" /\ end' = end
  BY DEF Commit
<1>2. /\ ConsumerTypes /\ end \in [Partitions -> Nat]
      /\ mine \in PositionType /\ committed \in PositionType
  BY DEF ConsumerInv, ConsumerTypes
<1>3. Checkpointed(committed) \in PositionType /\ Checkpointed(mine) \in PositionType
  BY <1>2, CheckpointedType
<1>4. CASE Fails /\ committed' \in {committed, Checkpointed(committed)}
  BY <1>1, <1>2, <1>3, <1>4, ReleaseKeeps DEF Fails
<1>5. CASE /\ committed' = Checkpointed(committed) /\ mine' = Checkpointed(mine)
           /\ pc' = "capture"
           /\ UNCHANGED <<request, position, batch, published, origin>>
  <2>1. ConsumerTypes'
    BY <1>1, <1>2, <1>3, <1>5 DEF ConsumerTypes, Labels
  <2>2. ToSet(batch) \subseteq published
    BY <1>1 DEF ConsumerInv, BatchApplied
  <2>3. StartsClean' /\ BatchApplied'
    BY <1>5, <2>2 DEF StartsClean, BatchApplied, Unsubscribed
  <2>4. ASSUME NEW p \in Partitions PROVE PartitionOK(p)'
    <3>1. PartitionOK(p)
      BY DEF ConsumerInv
    <3>2. CASE p \in DOMAIN BuildCommitCheckpoint(batch)
      <4>1. PICK m \in ToSet(batch) :
              m.partition = p /\ BuildCommitCheckpoint(batch)[p] = m.offset + 1
        BY <3>2, CheckpointIsInBatch
      <4>2. mine'[p] = m.offset + 1
        BY <1>5, <3>2, <4>1 DEF Checkpointed
      <4>3. origin[p] # NoOffset /\ Reached(p, m.offset + 1)
        BY <4>1 DEF ConsumerInv, InBatchOK
      <4>4. \A o \in origin'[p] .. mine'[p] - 1 : Message(p, o) \in published'
        BY <1>5, <2>2, <4>2, <4>3 DEF Reached
      <4>5. QED
        BY <1>5, <3>1, <4>3, <4>4 DEF PartitionOK, Reached
    <3>3. CASE p \notin DOMAIN BuildCommitCheckpoint(batch)
      <4>1. mine'[p] = mine[p]
        BY <1>5, <3>3 DEF Checkpointed
      <4>2. QED
        BY <1>5, <3>1, <4>1 DEF PartitionOK, Reached
    <3>4. QED
      BY <3>2, <3>3
  <2>5. \A m \in ToSet(batch') : InBatchOK(m)'
    BY <1>1, <1>5 DEF ConsumerInv, InBatchOK, Reached
  <2>6. QED
    BY <2>1, <2>3, <2>4, <2>5 DEF ConsumerInv
<1>6. QED
  BY <1>4, <1>5 DEF Commit

LEMMA NextKeeps == ConsumerInv /\ [Next]_vars => ConsumerInv'
<1> SUFFICES ASSUME ConsumerInv, [Next]_vars PROVE ConsumerInv'
  OBVIOUS
<1>1. CASE \/ \E r \in Requests : Create(r)
           \/ SetKafkaConfig \/ NewConsumer \/ PollSetConsumer \/ Subscribe
  BY <1>1, CreationKeeps
<1>2. CASE Seek \/ Capture \/ BeginPoll \/ EndPoll
  BY <1>2, SeekKeeps, CaptureKeeps, BeginPollKeeps, EndPollKeeps
<1>3. CASE PollError
  BY <1>3, FailsKeeps DEF PollError
<1>4. CASE CheckBatch \/ Apply \/ Commit
  BY <1>4, CheckBatchKeeps, ApplyKeeps, CommitKeeps
<1>5. CASE \E p \in Partitions :
             Assign(p) \/ Revoke(p) \/ Produce(p) \/ PollEof(p) \/ PollMessage(p)
  BY <1>5, AssignKeeps, RevokeKeeps, ProduceKeeps, PollEofKeeps, PollMessageKeeps
<1>6. CASE UNCHANGED vars
  <2>1. /\ pc' = pc /\ UNCHANGED <<broker, client>> /\ request' \in Requests /\ pc \in Labels
    BY <1>6 DEF vars, ConsumerInv, ConsumerTypes
  <2>2. QED
    BY <2>1, LabelStep
<1>7. QED
  BY <1>1, <1>2, <1>3, <1>4, <1>5, <1>6 DEF Next

(* The inductive invariant of a consumer: everything between where it      *)
(* began to read and its position is published or in the batch, whatever   *)
(* fails, is revoked or is assigned again in the meantime.                 *)
THEOREM ConsumerInvariant == Spec => []ConsumerInv
<1>1. Init => ConsumerInv
  BY InitConsumerInv
<1>2. ConsumerInv /\ [Next]_vars => ConsumerInv'
  BY NextKeeps
<1>3. QED
  BY <1>1, <1>2, PTL DEF Spec

(* At-least-once: PollApplyCommitOnce commits no offset with a message     *)
(* before it, from where the consumer began to read, that was not applied. *)
THEOREM CommitsWithoutGap == Spec => []CommitLeavesNoGap
<1>1. ConsumerInv => CommitLeavesNoGap
  BY DEF ConsumerInv, PartitionOK, CommitLeavesNoGap
<1>2. QED
  BY <1>1, ConsumerInvariant, PTL

(* Every step of Create, of the start of a runner and of a poll that fails *)
(* leaves exactly the librdkafka objects that its caller still owns.       *)
THEOREM HandlesBalance == Spec => []HandlesReleasedOnce
<1> DEFINE Inv == pc \in Labels /\ HandlesReleasedOnce
<1>1. Init => Inv
  BY DEF Init, HandlesReleasedOnce, NoHandles, Labels, Unsubscribed
<1>2. Inv /\ [Next]_vars => Inv'
  <2> SUFFICES ASSUME Inv, [Next]_vars PROVE Inv'
    OBVIOUS
  <2>1. ASSUME NEW there \in {"none", "done"}, Release(there),
               pc \notin {"none", "done", "set", "new"}
        PROVE  Inv'
    BY <2>1 DEF HandlesReleasedOnce, Release, DestroyConsumer, Labels, Unsubscribed
  <2>2. CASE \E r \in Requests : Create(r)
    BY <2>2 DEF Create, Fault, HandlesReleasedOnce, Labels, Unsubscribed
  <2>3. CASE SetKafkaConfig \/ NewConsumer
    <3>1. handles = [conf |-> 1, consumer |-> 0]
      BY <2>3 DEF SetKafkaConfig, NewConsumer, HandlesReleasedOnce
    <3>2. CASE SetKafkaConfig
      BY <3>1, <3>2 DEF SetKafkaConfig, Goto, DestroyConf, HandlesReleasedOnce, Labels,
         Unsubscribed
    <3>3. CASE NewConsumer
      <4>1. [handles EXCEPT !.consumer = @ + 1, !.conf = @ - 1] = [conf |-> 0, consumer |-> 1]
        <5>1. [handles EXCEPT !.consumer = @ + 1] = [conf |-> 1, consumer |-> 1]
          BY <3>1
        <5>2. [[conf |-> 1, consumer |-> 1] EXCEPT !.conf = @ - 1] = [conf |-> 0, consumer |-> 1]
          OBVIOUS
        <5>3. QED
          BY <5>1, <5>2
      <4>2. [handles EXCEPT !.conf = @ - 1] = [conf |-> 0, consumer |-> 0]
        BY <3>1
      <4>3. \/ handles' = [conf |-> 0, consumer |-> 1] /\ pc' = "poll_set"
            \/ handles' = [conf |-> 0, consumer |-> 0] /\ pc' = "none"
        BY <3>3, <4>1, <4>2 DEF NewConsumer, Goto, DestroyConf
      <4>4. QED
        BY <4>3 DEF HandlesReleasedOnce, Labels, Unsubscribed
    <3>4. QED
      BY <2>3, <3>2, <3>3
  <2>4. CASE PollSetConsumer \/ Subscribe
    BY <2>4 DEF PollSetConsumer, Subscribe, Goto, DestroyConsumer, HandlesReleasedOnce,
       Labels, Unsubscribed
  <2>5. CASE Seek \/ Capture \/ BeginPoll \/ CheckBatch
    <3>1. \/ Release("none") \/ Release("done")
          \/ handles' = handles /\ pc' \in {"capture", "ready", "poll", "apply"}
      BY <2>5 DEF Seek, Capture, BeginPoll, CheckBatch, Fails, Goto
    <3>2. pc \in {"seek", "capture", "ready", "polled"}
      BY <2>5 DEF Seek, Capture, BeginPoll, CheckBatch
    <3>3. QED
      BY <2>1, <3>1, <3>2 DEF HandlesReleasedOnce, Labels, Unsubscribed
  <2>6. CASE EndPoll \/ PollError \/ Apply \/ Commit
    BY <2>1, <2>6 DEF EndPoll, PollError, Polling, Apply, Commit, Fails,
       HandlesReleasedOnce, Labels, Unsubscribed
  <2>7. ASSUME NEW p \in Partitions,
               Assign(p) \/ Revoke(p) \/ Produce(p) \/ PollEof(p) \/ PollMessage(p)
        PROVE  Inv'
    BY <2>1, <2>7 DEF Assign, Revoke, Produce, PollEof, PollMessage, Polling, Fails,
       HandlesReleasedOnce, Labels, Unsubscribed
  <2>8. CASE UNCHANGED vars
    BY <2>8 DEF vars, HandlesReleasedOnce
  <2>9. QED
    BY <2>2, <2>3, <2>4, <2>5, <2>6, <2>7, <2>8 DEF Next
<1>3. QED
  BY <1>1, <1>2, PTL DEF Spec

===============================================================================
