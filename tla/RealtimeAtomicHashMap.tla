------------------------ MODULE RealtimeAtomicHashMap ------------------------
(***************************************************************************)
(* The lock-free hash map of the realtime delta                            *)
(* (src/store/realtime_delta.cc, class RealtimeAtomicHashMap), one action  *)
(* per atomic memory operation.  Any thread may call PublishAndReport, Get *)
(* or the test hook ReserveSlotForTesting.  The key of a slot is a plain   *)
(* field: it is written by the thread that reserved the slot and read only *)
(* after kOccupied was loaded with acquire order, so that the load of the  *)
(* state and the comparison of the key are one step.                       *)
(***************************************************************************)
EXTENDS SourcePositions, FiniteSets

CONSTANTS Keys,         \* primary keys; an unused slot holds key 0
          Threads,      \* publishers and readers
          Capacity,     \* options.capacity
          HashModulus,  \* 2^64 in the code: the width of hash + probe
          Hash,         \* StableHash64 for the map's seed and version
          Rows,         \* the row references that callers pass
          NoRow         \* the null row reference

ASSUME MapAssumption ==
  /\ Keys \subseteq Nat /\ 0 \in Keys
  /\ Capacity \in Nat
  /\ HashModulus \in Nat \ {0}
  /\ Hash \in [Keys -> 0 .. HashModulus - 1]
  /\ Rows \subseteq [primary_key : Keys, partition : Int, offset : Int]
  /\ NoRow \notin Rows

ASSUME ThreadsAssumption == IsFiniteSet(Threads)

(* A row reference names its key and its source position; the encoded row  *)
(* is never looked at by the map.                                          *)
ValidRows == {r \in Rows : IsValidSourcePosition(r)}

Calls ==
  [op : {"PublishAndReport"}, key : Keys, row : Rows \cup {NoRow}]
    \cup [op : {"Get", "ReserveSlotForTesting"}, key : Keys, row : {NoRow}]

Slots == 0 .. Capacity - 1

VARIABLES slot_state,        \* Slot::state
          slot_key,          \* Slot::primary_key
          slot_row,          \* Slot::latest_row
          unique_key_count,
          pc,                \* per thread: the atomic operation it does next
          call,              \* per thread: its arguments
          probe,             \* per thread: the loop counter
          current,           \* per thread: the row loaded before the exchange
          result             \* per thread: what its last call returned

slots == <<slot_state, slot_key, slot_row, unique_key_count>>
locals == <<call, probe, current>>
vars == <<slots, pc, locals, result>>

NoCall == [op |-> "Get", key |-> 0, row |-> NoRow]

Pending == [status |-> "kPending", row |-> NoRow]

Status(s) == [status |-> s, row |-> NoRow]

(* Mutant: the probe sequence leaves out every other slot. *)
ProbeIndexByTwo(primary_key, p) ==
  ((Hash[primary_key] + 2 * p) % HashModulus) % Capacity

ProbeIndex(primary_key, p) ==
  ((Hash[primary_key] + p) % HashModulus) % Capacity

Slot(t) == ProbeIndex(call[t].key, probe[t])

Init ==
  /\ slot_state = [s \in Slots |-> "kEmpty"]
  /\ slot_key = [s \in Slots |-> 0]
  /\ slot_row = [s \in Slots |-> NoRow]
  /\ unique_key_count = 0
  /\ pc = [t \in Threads |-> "idle"]
  /\ call = [t \in Threads |-> NoCall]
  /\ probe = [t \in Threads |-> 0]
  /\ current = [t \in Threads |-> NoRow]
  /\ result = [t \in Threads |-> Pending]

Goto(t, label) == pc' = [pc EXCEPT ![t] = label]

(* Returning ends the call and its local variables. *)
Return(t, r) ==
  /\ Goto(t, "idle")
  /\ result' = [result EXCEPT ![t] = r]
  /\ call' = [call EXCEPT ![t] = NoCall]
  /\ probe' = [probe EXCEPT ![t] = 0]
  /\ current' = [current EXCEPT ![t] = NoRow]

Continue(t, label) == Goto(t, label) /\ UNCHANGED <<locals, result>>

-----------------------------------------------------------------------------
(* Entry of the three operations. *)

(* Mutant: the position of the row is not validated. *)
AcceptsAnyPosition(c) ==
  c.op = "PublishAndReport" => c.row # NoRow /\ c.row.primary_key = c.key

(* A publish needs a row, of the key it is published under, with a valid   *)
(* position.                                                               *)
Accepts(c) ==
  c.op = "PublishAndReport" =>
    /\ c.row # NoRow
    /\ c.row.primary_key = c.key
    /\ IsValidSourcePosition(c.row)

Invoke(t, c) ==
  /\ pc[t] = "idle"
  /\ IF Accepts(c)
       THEN /\ Goto(t, "probe")
            /\ call' = [call EXCEPT ![t] = c]
            /\ result' = [result EXCEPT ![t] = Pending]
       ELSE /\ result' = [result EXCEPT ![t] = Status("kInvalidArgument")]
            /\ UNCHANGED <<pc, call>>
  /\ UNCHANGED <<slots, probe, current>>

(* The loop is left when every slot was probed; capacity 0 ends here too. *)
Exhausted(t) ==
  /\ pc[t] = "probe"
  /\ probe[t] = Capacity
  /\ Return(t, IF call[t].op = "Get" THEN Status("kOk") ELSE Status("kExhausted"))
  /\ UNCHANGED slots

(* `continue' past a slot that another key holds. *)
Skip(t) ==
  /\ slot_state[Slot(t)] = "kOccupied"
  /\ slot_key[Slot(t)] # call[t].key
  /\ probe' = [probe EXCEPT ![t] = @ + 1]
  /\ UNCHANGED <<pc, call, current, result>>

-----------------------------------------------------------------------------
(* PublishAndReport and ReserveSlotForTesting *)

(* Mutant: waits for a reserved slot instead of giving up. *)
PublishProbeWaits(t) ==
  /\ pc[t] = "probe"
  /\ call[t].op # "Get"
  /\ probe[t] < Capacity
  /\ \/ slot_state[Slot(t)] = "kReserved" /\ Continue(t, "probe")
     \/ /\ slot_state[Slot(t)] = "kOccupied"
        /\ slot_key[Slot(t)] = call[t].key
        /\ \/ call[t].op = "PublishAndReport" /\ Continue(t, "load")
           \/ /\ call[t].op = "ReserveSlotForTesting"
              /\ Return(t, Status("kFailedPrecondition"))
     \/ Skip(t)
     \/ slot_state[Slot(t)] = "kEmpty" /\ Continue(t, "reserve")
  /\ UNCHANGED slots

PublishProbe(t) ==
  /\ pc[t] = "probe"
  /\ call[t].op # "Get"
  /\ probe[t] < Capacity
  /\ \/ slot_state[Slot(t)] = "kReserved" /\ Return(t, Status("kUnavailable"))
     \/ /\ slot_state[Slot(t)] = "kOccupied"
        /\ slot_key[Slot(t)] = call[t].key
        /\ \/ call[t].op = "PublishAndReport" /\ Continue(t, "load")
           \/ /\ call[t].op = "ReserveSlotForTesting"
              /\ Return(t, Status("kFailedPrecondition"))
     \/ Skip(t)
     \/ slot_state[Slot(t)] = "kEmpty" /\ Continue(t, "reserve")
  /\ UNCHANGED slots

(* Mutant: after a lost race the next slot is tried, not the same again. *)
ReserveMovesOn(t) ==
  /\ pc[t] = "reserve"
  /\ \/ /\ slot_state[Slot(t)] = "kEmpty"
        /\ slot_state' = [slot_state EXCEPT ![Slot(t)] = "kReserved"]
        /\ \/ call[t].op = "PublishAndReport" /\ Continue(t, "write_key")
           \/ call[t].op = "ReserveSlotForTesting" /\ Return(t, Status("kOk"))
     \/ /\ slot_state[Slot(t)] # "kEmpty"
        /\ probe' = [probe EXCEPT ![t] = @ + 1]
        /\ Goto(t, "probe")
        /\ UNCHANGED <<slot_state, call, current, result>>
  /\ UNCHANGED <<slot_key, slot_row, unique_key_count>>

(* compare_exchange_strong(kEmpty, kReserved); when it fails the same slot *)
(* is examined again.                                                      *)
Reserve(t) ==
  /\ pc[t] = "reserve"
  /\ \/ /\ slot_state[Slot(t)] = "kEmpty"
        /\ slot_state' = [slot_state EXCEPT ![Slot(t)] = "kReserved"]
        /\ \/ call[t].op = "PublishAndReport" /\ Continue(t, "write_key")
           \/ call[t].op = "ReserveSlotForTesting" /\ Return(t, Status("kOk"))
     \/ /\ slot_state[Slot(t)] # "kEmpty"
        /\ Continue(t, "probe")
        /\ UNCHANGED slot_state
  /\ UNCHANGED <<slot_key, slot_row, unique_key_count>>

(* Mutant: the slot becomes visible before its row is stored. *)
WriteKeyThenOccupy(t) ==
  /\ pc[t] = "write_key"
  /\ slot_key' = [slot_key EXCEPT ![Slot(t)] = call[t].key]
  /\ Continue(t, "occupy")
  /\ UNCHANGED <<slot_state, slot_row, unique_key_count>>

WriteKey(t) ==
  /\ pc[t] = "write_key"
  /\ slot_key' = [slot_key EXCEPT ![Slot(t)] = call[t].key]
  /\ Continue(t, "write_row")
  /\ UNCHANGED <<slot_state, slot_row, unique_key_count>>

WriteRow(t) ==
  /\ pc[t] = "write_row"
  /\ slot_row' = [slot_row EXCEPT ![Slot(t)] = call[t].row]
  /\ Continue(t, "occupy")
  /\ UNCHANGED <<slot_state, slot_key, unique_key_count>>

Occupy(t) ==
  /\ pc[t] = "occupy"
  /\ slot_state' = [slot_state EXCEPT ![Slot(t)] = "kOccupied"]
  /\ Continue(t, "count")
  /\ UNCHANGED <<slot_key, slot_row, unique_key_count>>

Count(t) ==
  /\ pc[t] = "count"
  /\ unique_key_count' = unique_key_count + 1
  /\ Return(t, Status("kTrue"))
  /\ UNCHANGED <<slot_state, slot_key, slot_row>>

(* PublishExisting, first half of the loop body: load and classify.  The   *)
(* status with which it returns, or "kNewer" when it goes on.              *)
Verdict(row, candidate) ==
  LET decision == ClassifySourcePositionUpdate(row, candidate) IN
  CASE row = NoRow -> "kInternal"
    [] row # NoRow /\ decision = "kInvalidError" -> "kInvalidArgument"
    [] row # NoRow /\ decision = "kPartitionError" -> "kFailedPrecondition"
    [] row # NoRow /\ decision \in {"kStale", "kIdempotent"} -> "kFalse"
    [] row # NoRow /\ decision = "kNewer" -> "kNewer"

LoadCurrent(t) ==
  LET verdict == Verdict(slot_row[Slot(t)], call[t].row) IN
  /\ pc[t] = "load"
  /\ call[t].op = "PublishAndReport"
  /\ \/ /\ verdict = "kNewer"
        /\ Goto(t, "swap")
        /\ current' = [current EXCEPT ![t] = slot_row[Slot(t)]]
        /\ UNCHANGED <<call, probe, result>>
     \/ verdict # "kNewer" /\ Return(t, Status(verdict))
  /\ UNCHANGED slots

(* Mutant: a plain store where the exchange compares. *)
SwapBlindly(t) ==
  /\ pc[t] = "swap"
  /\ slot_row' = [slot_row EXCEPT ![Slot(t)] = call[t].row]
  /\ Return(t, Status("kTrue"))
  /\ UNCHANGED <<slot_state, slot_key, unique_key_count>>

(* Mutant: a replaced row counts as a new key. *)
SwapCounts(t) ==
  /\ pc[t] = "swap"
  /\ slot_row[Slot(t)] = current[t]
  /\ slot_row' = [slot_row EXCEPT ![Slot(t)] = call[t].row]
  /\ unique_key_count' = unique_key_count + 1
  /\ Return(t, Status("kTrue"))
  /\ UNCHANGED <<slot_state, slot_key>>

(* Second half: compare_exchange_weak, which may fail for no reason. *)
Swap(t) ==
  /\ pc[t] = "swap"
  /\ slot_row[Slot(t)] = current[t]
  /\ slot_row' = [slot_row EXCEPT ![Slot(t)] = call[t].row]
  /\ Return(t, Status("kTrue"))
  /\ UNCHANGED <<slot_state, slot_key, unique_key_count>>

SwapFails(t) ==
  /\ pc[t] = "swap"
  /\ Continue(t, "load")
  /\ UNCHANGED slots

-----------------------------------------------------------------------------
(* Get *)

GetProbe(t) ==
  /\ pc[t] = "probe"
  /\ call[t].op = "Get"
  /\ probe[t] < Capacity
  /\ \/ slot_state[Slot(t)] \in {"kReserved", "kEmpty"} /\ Return(t, Status("kOk"))
     \/ /\ slot_state[Slot(t)] = "kOccupied"
        /\ slot_key[Slot(t)] = call[t].key
        /\ Continue(t, "load")
     \/ Skip(t)
  /\ UNCHANGED slots

GetLoad(t) ==
  LET row == slot_row[Slot(t)] IN
  /\ pc[t] = "load"
  /\ call[t].op = "Get"
  /\ Return(t, IF row = NoRow THEN Status("kInternal")
               ELSE [status |-> "kOk", row |-> row])
  /\ UNCHANGED slots

-----------------------------------------------------------------------------

Step(t) ==
  \/ Exhausted(t)
  \/ PublishProbe(t) \/ Reserve(t)
  \/ WriteKey(t) \/ WriteRow(t) \/ Occupy(t) \/ Count(t)
  \/ LoadCurrent(t) \/ Swap(t) \/ SwapFails(t)
  \/ GetProbe(t) \/ GetLoad(t)

Next ==
  \E t \in Threads :
    \/ \E c \in Calls : Invoke(t, c)
    \/ Step(t)

Spec == Init /\ [][Next]_vars

(* Every thread keeps running, and an exchange that can succeed again and  *)
(* again is not made to fail spuriously forever.                           *)
Fairness == \A t \in Threads : WF_vars(Step(t)) /\ SF_vars(Swap(t))

FairSpec == Spec /\ Fairness

-----------------------------------------------------------------------------
(* Properties *)

Labels == {"idle", "probe", "reserve", "write_key", "write_row", "occupy",
           "count", "load", "swap"}

Statuses == {"kPending", "kOk", "kTrue", "kFalse", "kInvalidArgument",
             "kFailedPrecondition", "kUnavailable", "kExhausted", "kInternal"}

(* Types.  A row reaches a slot only after PublishAndReport validated its   *)
(* position, so the rows of slots are valid ones.                          *)
TypeOK ==
  /\ slot_state \in [Slots -> {"kEmpty", "kReserved", "kOccupied"}]
  /\ slot_key \in [Slots -> Keys]
  /\ slot_row \in [Slots -> ValidRows \cup {NoRow}]
  /\ unique_key_count \in Nat
  /\ pc \in [Threads -> Labels]
  /\ call \in [Threads -> Calls]
  /\ probe \in [Threads -> 0 .. Capacity]
  /\ current \in [Threads -> ValidRows \cup {NoRow}]
  /\ result \in [Threads -> [status : Statuses, row : ValidRows \cup {NoRow}]]

Occupied(s) == slot_state[s] = "kOccupied"

SlotsOf(k) == {s \in Slots : Occupied(s) /\ slot_key[s] = k}

(* The row a lookup of k finds: the one of the first slot of k's probe     *)
(* sequence that holds k.                                                  *)
Visible(k) ==
  IF SlotsOf(k) = {} THEN NoRow ELSE slot_row[CHOOSE s \in SlotsOf(k) : TRUE]

(* An occupied slot is completely initialised: it has a valid row, of the  *)
(* slot's own key.  No "occupied realtime slot has no visible row".        *)
OccupiedIsInitialised ==
  \A s \in Slots : Occupied(s) =>
    slot_row[s] \in ValidRows /\ slot_row[s].primary_key = slot_key[s]

(* A slot a thread is filling is reserved, by that thread alone, and holds *)
(* what the thread has written so far.                                     *)
Filling(t) == pc[t] \in {"write_key", "write_row", "occupy"}

FillsItsSlot(t) ==
  /\ call[t].op = "PublishAndReport"
  /\ slot_state[Slot(t)] = "kReserved"
  /\ pc[t] \in {"write_row", "occupy"} => slot_key[Slot(t)] = call[t].key
  /\ pc[t] = "occupy" => slot_row[Slot(t)] = call[t].row

FillingIsExclusive ==
  \A t \in Threads : Filling(t) =>
    /\ FillsItsSlot(t)
    /\ \A u \in Threads \ {t} : Filling(u) => Slot(u) # Slot(t)

(* Probing: the first n slots of k's probe sequence hold other keys. *)
HeldByOthers(k, n) ==
  \A q \in 0 .. n - 1 :
    /\ Occupied(ProbeIndex(k, q))
    /\ slot_key[ProbeIndex(k, q)] # k

(* A published key stays reachable: its slot is on its probe sequence and  *)
(* every slot before it is occupied by another key, so that neither Get    *)
(* nor a later publish stops short of it or finds a second slot for it.    *)
PublishedIsReachable ==
  \A s \in Slots : Occupied(s) =>
    \E p \in Slots : /\ s = ProbeIndex(slot_key[s], p)
                     /\ HeldByOthers(slot_key[s], p)

(* The slots a running call went past hold other keys, and a call that     *)
(* found its key stays on that key's slot.                                 *)
OnTrack(t) ==
  /\ pc[t] = "idle" => call[t] = NoCall /\ probe[t] = 0
  /\ pc[t] # "idle" => Accepts(call[t])
  /\ HeldByOthers(call[t].key, probe[t])
  /\ pc[t] \notin {"idle", "probe"} => probe[t] < Capacity
  /\ pc[t] = "reserve" => call[t].op # "Get"
  /\ pc[t] \in {"load", "swap"} =>
       /\ call[t].op # "ReserveSlotForTesting"
       /\ Occupied(Slot(t))
       /\ slot_key[Slot(t)] = call[t].key
  /\ pc[t] \in {"count", "swap"} => call[t].op = "PublishAndReport"
  /\ pc[t] = "swap" => /\ current[t] # NoRow
                       /\ IsNewer(current[t], call[t].row)

CallsAreOnTrack == \A t \in Threads : OnTrack(t)

(* The inductive invariant of the proofs. *)
MapInv ==
  /\ TypeOK
  /\ OccupiedIsInitialised
  /\ FillingIsExclusive
  /\ PublishedIsReachable
  /\ CallsAreOnTrack

(* However publishers race, a key never gets two slots (a second slot      *)
(* would be updated by some publishers and read by no reader).             *)
KeyHasOneSlot ==
  \A s1, s2 \in Slots :
    Occupied(s1) /\ Occupied(s2) /\ slot_key[s1] = slot_key[s2] => s1 = s2

(* The row readers see for a key never disappears, never goes back to an   *)
(* older offset and never changes partition.                               *)
VisibleRowOnlyAdvances ==
  [][\A k \in Keys :
       Visible(k) # NoRow =>
         /\ Visible(k)' # NoRow
         /\ Visible(k)' = Visible(k) \/ IsNewer(Visible(k), Visible(k)')]_vars

(* unique_key_count, which load_factor and the compaction threshold use,   *)
(* counts each occupied slot once; it lags only behind publishers between  *)
(* their last two atomic operations.                                       *)
CountAgreesWithSlots ==
  unique_key_count + Cardinality({t \in Threads : pc[t] = "count"})
    = Cardinality({s \in Slots : Occupied(s)})

(* "realtime hash map capacity exhausted" is answered only when no slot is *)
(* free: the probe sequence visits every slot.                             *)
ExhaustedOnlyWhenFull ==
  \A t \in Threads :
    (pc[t] = "probe" /\ probe[t] = Capacity)
      => \A s \in Slots : slot_state[s] # "kEmpty"

(* The map is linearizable: it implements the atomic map, each call taking *)
(* effect in the one step that the refinement mapping shows.               *)
Phase(t) ==
  IF pc[t] = "idle" THEN "idle" ELSE IF pc[t] = "count" THEN "applied" ELSE "called"

Latest == [k \in Keys |-> Visible(k)]

Phases == [t \in Threads |-> Phase(t)]

Abstract == INSTANCE AtomicRowMap WITH latest <- Latest, phase <- Phases

ImplementsAtomicMap == Abstract!Spec

(* Every call returns, whatever the other threads do: nobody waits for a   *)
(* slot another thread has reserved.                                       *)
EveryCallReturns == \A t \in Threads : pc[t] # "idle" ~> pc[t] = "idle"

=============================================================================
