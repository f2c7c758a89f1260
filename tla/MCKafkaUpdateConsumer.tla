------------------------ MODULE MCKafkaUpdateConsumer ------------------------
(***************************************************************************)
(* An instance of the Kafka consumer for TLC: two partitions of the topic  *)
(* of the index, one with a key that is no number, and a partition of      *)
(* another topic; loads from the beginning and from behind the bad key,    *)
(* with batches of one and of two messages; and what is refused.           *)
(***************************************************************************)
EXTENDS KafkaUpdateConsumer

LOCAL INSTANCE TLC

ThreeLogs == [a |-> <<"decimal", "other", "decimal">>, b |-> <<"decimal", "decimal">>,
              c |-> <<"decimal">>]

AllButOne == [a |-> 3, b |-> 1, c |-> 1]

TwoTopics == [a |-> "t", b |-> "t", c |-> "u"]

Config(servers, group, topics) ==
  [bootstrap_servers |-> servers, group_id |-> group, topics |-> topics]

At(p, offset) == [partition |-> p, offset |-> offset]

Load ==
  [config |-> Config("s", "g", <<"t">>), topic |-> "t",
   checkpoint |-> <<At("a", 0), At("b", 0)>>,
   poll_options |-> [timeout_ms |-> 100, max_messages |-> 2]]

LoadBehind ==
  [Load EXCEPT !.checkpoint = <<At("a", 2), At("b", 1)>>,
               !.poll_options.max_messages = 1]

SomeRequests ==
  {Load, LoadBehind,
   [Load EXCEPT !.config.topics = <<"t", "u">>],
   [Load EXCEPT !.config.topics = <<"t", "t">>],
   [Load EXCEPT !.checkpoint = <<At("a", 0), At("a", 1)>>],
   [Load EXCEPT !.poll_options.max_messages = 0]}

===============================================================================
