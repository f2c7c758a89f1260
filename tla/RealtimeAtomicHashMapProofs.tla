--------------------- MODULE RealtimeAtomicHashMapProofs ---------------------
(***************************************************************************)
(* Proofs about the realtime hash map, for every number of threads and     *)
(* keys, every capacity and every hash function.                           *)
(***************************************************************************)
EXTENDS RealtimeAtomicHashMap, FiniteSetTheorems, NumberFacts, TLAPS

(* A probe index is a slot, whatever the width of the hash. *)
LEMMA ProbeIndexInRange ==
  ASSUME NEW k \in Keys, NEW p \in Nat, Capacity # 0
  PROVE  ProbeIndex(k, p) \in Slots
<1>1. Hash[k] \in Nat
  BY MapAssumption
<1>2. (Hash[k] + p) % HashModulus \in Nat
  BY <1>1, MapAssumption
<1>3. QED
  BY <1>2, MapAssumption DEF ProbeIndex, Slots

LEMMA RowTypes ==
  /\ \A r \in ValidRows : r \in Rows /\ r # NoRow /\ r.primary_key \in Keys
                          /\ r.partition \in Nat /\ r.offset \in Nat
  /\ \A c \in Calls : c.op \in {"PublishAndReport", "Get", "ReserveSlotForTesting"}
                      /\ c.key \in Keys /\ c.row \in Rows \cup {NoRow}
  /\ NoCall \in Calls
  /\ \A s \in Statuses : Status(s) \in [status : Statuses, row : ValidRows \cup {NoRow}]
  /\ Pending \in [status : Statuses, row : ValidRows \cup {NoRow}]
<1>1. \A r \in ValidRows : r \in Rows /\ r # NoRow /\ r.primary_key \in Keys
                          /\ r.partition \in Nat /\ r.offset \in Nat
  <2> SUFFICES ASSUME NEW r \in ValidRows
               PROVE  r \in Rows /\ r # NoRow /\ r.primary_key \in Keys
                      /\ r.partition \in Nat /\ r.offset \in Nat
    OBVIOUS
  <2>1. r \in Rows /\ r.partition >= 0 /\ r.offset >= 0
    BY DEF ValidRows, IsValidSourcePosition
  <2>2. r.primary_key \in Keys /\ r.partition \in Int /\ r.offset \in Int
    BY <2>1, MapAssumption
  <2>3. QED
    BY <2>1, <2>2, MapAssumption
<1>2. \A c \in Calls : c.op \in {"PublishAndReport", "Get", "ReserveSlotForTesting"}
                      /\ c.key \in Keys /\ c.row \in Rows \cup {NoRow}
  BY DEF Calls
<1>3. NoCall \in Calls
  BY MapAssumption DEF NoCall, Calls
<1>4. QED
  BY <1>1, <1>2, <1>3 DEF Status, Pending, Statuses

(* The row of an accepted publish is a valid row of the published key. *)
LEMMA AcceptedRow ==
  ASSUME NEW c \in Calls, Accepts(c), c.op = "PublishAndReport"
  PROVE  c.row \in ValidRows /\ c.row.primary_key = c.key
BY RowTypes DEF Accepts, ValidRows

LEMMA InitMapInv == Init => MapInv
<1> SUFFICES ASSUME Init PROVE MapInv
  OBVIOUS
<1>1. TypeOK
  BY RowTypes, MapAssumption DEF Init, TypeOK, Labels
<1>2. OccupiedIsInitialised /\ PublishedIsReachable
  BY DEF Init, OccupiedIsInitialised, PublishedIsReachable, Occupied
<1>3. FillingIsExclusive
  BY DEF Init, FillingIsExclusive, Filling
<1>4. CallsAreOnTrack
  BY DEF Init, CallsAreOnTrack, OnTrack, HeldByOthers
<1>5. QED
  BY <1>1, <1>2, <1>3, <1>4 DEF MapInv

-----------------------------------------------------------------------------
(* Frame lemmas: what a step of one thread leaves to the others. *)

(* Occupied slots keep their key. *)
Stable ==
  \A s \in Slots : Occupied(s) => Occupied(s)' /\ slot_key'[s] = slot_key[s]

OthersUnchanged(t) ==
  \A u \in Threads \ {t} :
    /\ pc'[u] = pc[u] /\ call'[u] = call[u]
    /\ probe'[u] = probe[u] /\ current'[u] = current[u]

LEMMA HeldStable ==
  ASSUME NEW k \in Keys, NEW n \in 0 .. Capacity, Stable, HeldByOthers(k, n)
  PROVE  HeldByOthers(k, n)'
<1> SUFFICES ASSUME NEW q \in 0 .. n - 1
             PROVE  Occupied(ProbeIndex(k, q))' /\ slot_key'[ProbeIndex(k, q)] # k
  BY DEF HeldByOthers
<1>1. ProbeIndex(k, q) \in Slots
  <2>1. q \in Nat /\ Capacity # 0
    BY MapAssumption
  <2>2. QED
    BY <2>1, ProbeIndexInRange
<1>2. Occupied(ProbeIndex(k, q)) /\ slot_key[ProbeIndex(k, q)] # k
  BY DEF HeldByOthers
<1>3. QED
  BY <1>1, <1>2 DEF Stable

LEMMA SlotType ==
  ASSUME TypeOK, NEW t \in Threads, probe[t] < Capacity
  PROVE  Slot(t) \in Slots
<1>1. call[t].key \in Keys /\ probe[t] \in Nat /\ Capacity # 0
  BY RowTypes, MapAssumption DEF TypeOK
<1>2. QED
  BY <1>1, ProbeIndexInRange DEF Slot

LEMMA OthersStayOnTrack ==
  ASSUME TypeOK, CallsAreOnTrack, NEW t \in Threads, Stable, OthersUnchanged(t)
  PROVE  \A u \in Threads \ {t} : OnTrack(u)'
<1> SUFFICES ASSUME NEW u \in Threads \ {t} PROVE OnTrack(u)'
  OBVIOUS
<1>1. /\ pc'[u] = pc[u] /\ call'[u] = call[u]
      /\ probe'[u] = probe[u] /\ current'[u] = current[u]
  BY DEF OthersUnchanged
<1>2. OnTrack(u)
  BY DEF CallsAreOnTrack
<1>3. HeldByOthers(call[u].key, probe[u])'
  <2>1. PICK k \in Keys : k = call[u].key
    BY RowTypes DEF TypeOK
  <2>2. PICK n \in 0 .. Capacity : n = probe[u]
    BY DEF TypeOK
  <2>3. HeldByOthers(k, n)
    BY <1>2, <2>1, <2>2 DEF OnTrack
  <2>4. HeldByOthers(k, n)'
    BY <2>3, HeldStable
  <2>5. QED
    BY <2>1, <2>2, <2>4, <1>1 DEF HeldByOthers
<1>4. Slot(u)' = Slot(u)
  BY <1>1 DEF Slot
<1>5. probe[u] < Capacity => Slot(u) \in Slots
  BY SlotType
<1>6. pc[u] \in {"load", "swap"} =>
         /\ call[u].op # "ReserveSlotForTesting"
         /\ slot_state'[Slot(u)] = "kOccupied"
         /\ slot_key'[Slot(u)] = call[u].key
  BY <1>2, <1>5 DEF OnTrack, Stable, Occupied
<1>7. QED
  BY <1>1, <1>2, <1>3, <1>4, <1>6 DEF OnTrack, Occupied, Accepts

LEMMA ReachableStable ==
  ASSUME TypeOK, PublishedIsReachable, Stable
  PROVE  \A s \in Slots : Occupied(s) =>
           \E p \in Slots : /\ s = ProbeIndex(slot_key'[s], p)
                            /\ HeldByOthers(slot_key[s], p)'
<1> SUFFICES ASSUME NEW s \in Slots, Occupied(s)
             PROVE  \E p \in Slots : /\ s = ProbeIndex(slot_key'[s], p)
                                     /\ HeldByOthers(slot_key[s], p)'
  OBVIOUS
<1>1. PICK k \in Keys : k = slot_key[s]
  BY DEF TypeOK
<1>2. PICK p \in Slots : s = ProbeIndex(k, p) /\ HeldByOthers(k, p)
  BY <1>1 DEF PublishedIsReachable
<1>3. slot_key'[s] = k
  BY <1>1 DEF Stable
<1>4. HeldByOthers(k, p)'
  <2>1. p \in 0 .. Capacity
    BY MapAssumption DEF Slots
  <2>2. QED
    BY <2>1, <1>2, HeldStable
<1>5. QED
  BY <1>2, <1>3, <1>4 DEF HeldByOthers

(* A thread that is not affected by a step goes on filling its slot. *)
LEMMA OthersKeepFilling ==
  ASSUME FillingIsExclusive, NEW t \in Threads, OthersUnchanged(t),
         UNCHANGED <<slot_state, slot_key, slot_row>>, ~Filling(t)'
  PROVE  FillingIsExclusive'
<1> SUFFICES ASSUME NEW u \in Threads, Filling(u)',
                    NEW v \in Threads \ {u}
             PROVE  /\ FillsItsSlot(u)'
                    /\ Filling(v)' => Slot(v)' # Slot(u)'
  BY DEF FillingIsExclusive
<1>1. u # t
  OBVIOUS
<1>2. Filling(u) /\ Slot(u)' = Slot(u) /\ (FillsItsSlot(u) => FillsItsSlot(u)')
  BY <1>1 DEF OthersUnchanged, Filling, Slot, FillsItsSlot
<1>3. Filling(v)' => v # t
  OBVIOUS
<1>4. v # t => (Filling(v)' <=> Filling(v)) /\ Slot(v)' = Slot(v)
  BY DEF OthersUnchanged, Filling, Slot
<1>5. QED
  BY <1>1, <1>2, <1>3, <1>4 DEF FillingIsExclusive

(* A step that leaves the slots alone only has to keep its own thread on   *)
(* track and outside the filling labels.                                   *)
LEMMA LocalStep ==
  ASSUME MapInv, NEW t \in Threads, OthersUnchanged(t), TypeOK',
         UNCHANGED <<slot_state, slot_key, slot_row>>,
         OnTrack(t)', ~Filling(t)'
  PROVE  MapInv'
<1> USE DEF MapInv
<1>1. Stable
  BY DEF Stable, Occupied
<1>2. OccupiedIsInitialised'
  BY DEF OccupiedIsInitialised, Occupied
<1>3. FillingIsExclusive'
  BY OthersKeepFilling
<1>4. PublishedIsReachable'
  BY DEF PublishedIsReachable, Occupied, HeldByOthers
<1>5. CallsAreOnTrack'
  BY <1>1, OthersStayOnTrack DEF CallsAreOnTrack
<1>6. QED
  BY <1>2, <1>3, <1>4, <1>5

-----------------------------------------------------------------------------
(* Steps that leave the slots alone. *)

Results == [status : Statuses, row : ValidRows \cup {NoRow}]

LEMMA ReturnStep ==
  ASSUME MapInv, NEW t \in Threads, NEW r \in Results, Return(t, r),
         unique_key_count' \in Nat,
         UNCHANGED <<slot_state, slot_key, slot_row>>
  PROVE  MapInv'
<1>1. TypeOK'
  BY RowTypes, MapAssumption
     DEF MapInv, TypeOK, Return, Goto, Labels, Results
<1>2. OthersUnchanged(t)
  BY DEF MapInv, TypeOK, Return, Goto, OthersUnchanged
<1>3. OnTrack(t)' /\ ~Filling(t)'
  BY DEF MapInv, TypeOK, Return, Goto, OnTrack, Filling, HeldByOthers
<1>4. QED
  BY <1>1, <1>2, <1>3, LocalStep

LEMMA ContinueStep ==
  ASSUME MapInv, NEW t \in Threads,
         NEW label \in {"probe", "reserve", "load"}, Continue(t, label),
         UNCHANGED slots, OnTrack(t)'
  PROVE  MapInv'
<1>1. TypeOK'
  BY DEF MapInv, TypeOK, Continue, Goto, Labels, slots, locals
<1>2. OthersUnchanged(t) /\ ~Filling(t)'
  BY DEF MapInv, TypeOK, Continue, Goto, OthersUnchanged, Filling, locals
<1>3. QED
  BY <1>1, <1>2, LocalStep DEF slots

LEMMA SkipStep ==
  ASSUME MapInv, NEW t \in Threads, pc[t] = "probe", probe[t] < Capacity,
         Skip(t), UNCHANGED slots
  PROVE  MapInv'
<1>1. TypeOK'
  BY MapAssumption DEF MapInv, TypeOK, Skip, slots
<1>2. OthersUnchanged(t) /\ ~Filling(t)'
  BY DEF MapInv, TypeOK, Skip, OthersUnchanged, Filling
<1>3. OnTrack(t)'
  <2>1. pc'[t] = "probe" /\ call'[t] = call[t] /\ probe'[t] = probe[t] + 1
    BY DEF MapInv, TypeOK, Skip
  <2>2. Accepts(call[t]) /\ HeldByOthers(call[t].key, probe[t])
    BY DEF MapInv, CallsAreOnTrack, OnTrack
  <2>3. Occupied(ProbeIndex(call[t].key, probe[t]))
        /\ slot_key[ProbeIndex(call[t].key, probe[t])] # call[t].key
    BY DEF Skip, Slot, Occupied
  <2>4. \A q \in 0 .. (probe[t] + 1) - 1 : q \in 0 .. probe[t] - 1 \/ q = probe[t]
    <3>1. probe[t] \in Nat
      BY MapAssumption DEF MapInv, TypeOK
    <3>2. QED
      BY <3>1
  <2>5. HeldByOthers(call[t].key, probe[t] + 1)
    BY <2>2, <2>3, <2>4 DEF HeldByOthers
  <2>6. HeldByOthers(call[t].key, probe[t])'
    BY <2>1, <2>5 DEF HeldByOthers, Occupied, slots
  <2>7. QED
    BY <2>1, <2>2, <2>6 DEF OnTrack, Accepts
<1>4. QED
  BY <1>1, <1>2, <1>3, LocalStep DEF slots

LEMMA InvokeStep ==
  ASSUME MapInv, NEW t \in Threads, NEW c \in Calls, Invoke(t, c)
  PROVE  MapInv'
<1>1. TypeOK'
  <2>1. Status("kInvalidArgument") \in Results /\ Pending \in Results
    BY RowTypes DEF Statuses, Results
  <2>2. TypeOK /\ UNCHANGED <<slots, probe, current>>
    BY DEF MapInv, Invoke
  <2>3. pc' \in [Threads -> Labels] /\ call' \in [Threads -> Calls]
    BY <2>2 DEF TypeOK, Invoke, Goto, Labels
  <2>4. result' \in [Threads -> Results]
    BY <2>1, <2>2 DEF TypeOK, Invoke, Results
  <2>5. QED
    BY <2>2, <2>3, <2>4 DEF TypeOK, slots, Results
<1>2. OthersUnchanged(t) /\ ~Filling(t)'
  BY DEF MapInv, TypeOK, Invoke, Goto, OthersUnchanged, Filling
<1>3. OnTrack(t)'
  <2>1. CASE Accepts(c)
    <3>1. pc'[t] = "probe" /\ call'[t] = c /\ probe'[t] = probe[t]
      BY <2>1 DEF MapInv, TypeOK, Invoke, Goto
    <3>2. probe[t] = 0
      BY DEF Invoke, MapInv, CallsAreOnTrack, OnTrack
    <3>3. QED
      BY <2>1, <3>1, <3>2 DEF OnTrack, HeldByOthers, Accepts
  <2>2. CASE ~Accepts(c)
    BY <2>2 DEF Invoke, MapInv, CallsAreOnTrack, OnTrack, HeldByOthers, Occupied,
                slots, Slot, Accepts
  <2>3. QED
    BY <2>1, <2>2
<1>4. QED
  BY <1>1, <1>2, <1>3, LocalStep DEF Invoke, slots

LEMMA StatusResult ==
  ASSUME NEW s \in Statuses
  PROVE  Status(s) \in Results
BY RowTypes DEF Results

LEMMA ExhaustedStep ==
  ASSUME MapInv, NEW t \in Threads, Exhausted(t)
  PROVE  MapInv'
<1>1. PICK r \in Results : Return(t, r)
  BY StatusResult DEF Exhausted, Statuses
<1>2. QED
  BY <1>1, ReturnStep DEF Exhausted, slots, MapInv, TypeOK

(* The facts about a running call that its next step relies on. *)
LEMMA Running ==
  ASSUME MapInv, NEW t \in Threads, pc[t] # "idle"
  PROVE  /\ Accepts(call[t])
         /\ call[t] \in Calls
         /\ HeldByOthers(call[t].key, probe[t])
         /\ probe[t] < Capacity => Slot(t) \in Slots
BY SlotType DEF MapInv, TypeOK, CallsAreOnTrack, OnTrack

LEMMA ProbeToLoad ==
  ASSUME MapInv, NEW t \in Threads, pc[t] = "probe", probe[t] < Capacity,
         slot_state[Slot(t)] = "kOccupied", slot_key[Slot(t)] = call[t].key,
         call[t].op # "ReserveSlotForTesting",
         Continue(t, "load"), UNCHANGED slots
  PROVE  MapInv'
<1>1. /\ pc'[t] = "load" /\ UNCHANGED locals
      /\ UNCHANGED <<slot_state, slot_key>>
  BY DEF Continue, Goto, MapInv, TypeOK, slots
<1>2. OnTrack(t)'
  BY <1>1, Running DEF OnTrack, HeldByOthers, Occupied, Slot, locals, Accepts
<1>3. QED
  BY <1>2, ContinueStep

LEMMA PublishProbeStep ==
  ASSUME MapInv, NEW t \in Threads, PublishProbe(t)
  PROVE  MapInv'
<1>1. CASE \E r \in Results : Return(t, r)
  BY <1>1, ReturnStep DEF PublishProbe, slots, MapInv, TypeOK
<1>2. CASE /\ slot_state[Slot(t)] = "kOccupied" /\ slot_key[Slot(t)] = call[t].key
           /\ call[t].op = "PublishAndReport" /\ Continue(t, "load")
  BY <1>2, ProbeToLoad DEF PublishProbe
<1>3. CASE Skip(t)
  BY <1>3, SkipStep DEF PublishProbe
<1>4. CASE slot_state[Slot(t)] = "kEmpty" /\ Continue(t, "reserve")
  <2>1. /\ pc'[t] = "reserve" /\ UNCHANGED locals
        /\ UNCHANGED <<slot_state, slot_key>>
    BY <1>4 DEF PublishProbe, Continue, Goto, MapInv, TypeOK, slots
  <2>2. OnTrack(t)'
    BY <2>1, Running
       DEF PublishProbe, OnTrack, HeldByOthers, Occupied, Slot, locals, Accepts
  <2>3. QED
    BY <1>4, <2>2, ContinueStep DEF PublishProbe
<1>5. Status("kUnavailable") \in Results /\ Status("kFailedPrecondition") \in Results
  BY StatusResult DEF Statuses
<1>6. QED
  BY <1>1, <1>2, <1>3, <1>4, <1>5 DEF PublishProbe

LEMMA GetProbeStep ==
  ASSUME MapInv, NEW t \in Threads, GetProbe(t)
  PROVE  MapInv'
<1>1. CASE \E r \in Results : Return(t, r)
  BY <1>1, ReturnStep DEF GetProbe, slots, MapInv, TypeOK
<1>2. CASE /\ slot_state[Slot(t)] = "kOccupied" /\ slot_key[Slot(t)] = call[t].key
           /\ Continue(t, "load")
  BY <1>2, ProbeToLoad DEF GetProbe
<1>3. CASE Skip(t)
  BY <1>3, SkipStep DEF GetProbe
<1>4. Status("kOk") \in Results
  BY StatusResult DEF Statuses
<1>5. QED
  BY <1>1, <1>2, <1>3, <1>4 DEF GetProbe

(* In PublishExisting and in Get the slot is occupied: it has a row. *)
LEMMA LoadedRow ==
  ASSUME MapInv, NEW t \in Threads, pc[t] \in {"load", "swap"}
  PROVE  /\ Slot(t) \in Slots
         /\ Occupied(Slot(t))
         /\ slot_key[Slot(t)] = call[t].key
         /\ slot_row[Slot(t)] \in ValidRows
         /\ slot_row[Slot(t)].primary_key = call[t].key
<1>1. /\ probe[t] < Capacity /\ Occupied(Slot(t))
      /\ slot_key[Slot(t)] = call[t].key
  BY DEF MapInv, CallsAreOnTrack, OnTrack
<1>2. Slot(t) \in Slots
  BY <1>1, SlotType DEF MapInv
<1>3. QED
  BY <1>1, <1>2 DEF MapInv, OccupiedIsInitialised

LEMMA GetLoadStep ==
  ASSUME MapInv, NEW t \in Threads, GetLoad(t)
  PROVE  MapInv'
<1>1. PICK r \in Results : Return(t, r)
  BY LoadedRow, StatusResult DEF GetLoad, Results, Statuses
<1>2. QED
  BY <1>1, ReturnStep DEF GetLoad, slots, MapInv, TypeOK

LEMMA CountStep ==
  ASSUME MapInv, NEW t \in Threads, Count(t)
  PROVE  MapInv'
<1>1. Status("kTrue") \in Results
  BY StatusResult DEF Statuses
<1>2. unique_key_count' \in Nat
  BY DEF Count, MapInv, TypeOK
<1>3. QED
  BY <1>1, <1>2, ReturnStep DEF Count

LEMMA VerdictValues ==
  ASSUME NEW row \in ValidRows, NEW candidate \in ValidRows
  PROVE  /\ Verdict(row, candidate)
              \in {"kFailedPrecondition", "kFalse", "kNewer"}
         /\ Verdict(row, candidate) = "kNewer" <=> IsNewer(row, candidate)
         /\ Verdict(row, candidate) = "kFalse" <=>
              ClassifySourcePositionUpdate(row, candidate) \in {"kStale", "kIdempotent"}
         /\ Verdict(row, candidate) = "kFailedPrecondition" <=>
              ClassifySourcePositionUpdate(row, candidate) = "kPartitionError"
<1>1. row # NoRow
  BY RowTypes
<1>2. IsValidSourcePosition(row) /\ IsValidSourcePosition(candidate)
  BY DEF ValidRows
<1>3. ClassifySourcePositionUpdate(row, candidate)
        \in {"kPartitionError", "kStale", "kIdempotent", "kNewer"}
  BY <1>2 DEF ClassifySourcePositionUpdate
<1>4. QED
  BY <1>1, <1>3 DEF Verdict, IsNewer

LEMMA LoadCurrentStep ==
  ASSUME MapInv, NEW t \in Threads, LoadCurrent(t)
  PROVE  MapInv'
<1> DEFINE row == slot_row[Slot(t)]
           verdict == Verdict(row, call[t].row)
<1>1. row \in ValidRows /\ call[t].row \in ValidRows
  BY LoadedRow, Running, AcceptedRow DEF LoadCurrent
<1>2. CASE verdict # "kNewer"
  <2>1. verdict \in Statuses
    BY <1>1, <1>2, VerdictValues DEF Statuses
  <2>2. PICK r \in Results : Return(t, r)
    BY <1>2, <2>1, StatusResult DEF LoadCurrent
  <2>3. QED
    BY <2>2, ReturnStep DEF LoadCurrent, slots, MapInv, TypeOK
<1>3. CASE verdict = "kNewer"
  <2>1. /\ pc' = [pc EXCEPT ![t] = "swap"]
        /\ current' = [current EXCEPT ![t] = row]
        /\ UNCHANGED <<call, probe, result, slots>>
    BY <1>3 DEF LoadCurrent, Goto
  <2>2. TypeOK'
    BY <1>1, <2>1 DEF MapInv, TypeOK, Labels, slots
  <2>3. OthersUnchanged(t) /\ ~Filling(t)'
    BY <2>1 DEF MapInv, TypeOK, OthersUnchanged, Filling
  <2>4. OnTrack(t)'
    <3>1. pc'[t] = "swap" /\ current'[t] = row /\ call'[t] = call[t] /\ probe'[t] = probe[t]
      BY <2>1 DEF MapInv, TypeOK
    <3>2. IsNewer(row, call[t].row) /\ row # NoRow
      BY <1>1, <1>3, VerdictValues, RowTypes
    <3>3. OnTrack(t)
      BY DEF MapInv, CallsAreOnTrack
    <3>4. call[t].op = "PublishAndReport" /\ pc[t] = "load"
      BY DEF LoadCurrent
    <3>5. UNCHANGED <<slot_state, slot_key>>
      BY <2>1 DEF slots
    <3>6. HeldByOthers(call[t].key, probe[t])'
      BY <3>1, <3>3, <3>5 DEF OnTrack, HeldByOthers, Occupied
    <3>7. Slot(t)' = Slot(t)
      BY <3>1 DEF Slot
    <3>8. QED
      BY <3>1, <3>2, <3>3, <3>4, <3>5, <3>6, <3>7 DEF OnTrack, Occupied, Accepts
  <2>5. QED
    BY <2>1, <2>2, <2>3, <2>4, LocalStep DEF slots
<1>4. QED
  BY <1>2, <1>3

LEMMA SwapFailsStep ==
  ASSUME MapInv, NEW t \in Threads, SwapFails(t)
  PROVE  MapInv'
<1>1. /\ pc'[t] = "load" /\ UNCHANGED locals
      /\ UNCHANGED <<slot_state, slot_key>>
  BY DEF SwapFails, Continue, Goto, MapInv, TypeOK, slots
<1>2. OnTrack(t) /\ pc[t] = "swap"
  BY DEF SwapFails, MapInv, CallsAreOnTrack
<1>3. OnTrack(t)'
  BY <1>1, <1>2 DEF OnTrack, HeldByOthers, Occupied, Slot, locals, Accepts
<1>4. QED
  BY <1>3, ContinueStep DEF SwapFails

-----------------------------------------------------------------------------
(* Steps that change a slot. *)

ChangesOnly(s) ==
  \A x \in Slots \ {s} : /\ slot_state'[x] = slot_state[x]
                         /\ slot_key'[x] = slot_key[x]
                         /\ slot_row'[x] = slot_row[x]

(* A thread that changes a slot that is not occupied, and that no other    *)
(* thread is filling, only has to account for itself and for this slot.    *)
LEMMA SlotStep ==
  ASSUME MapInv, TypeOK', NEW t \in Threads, NEW s \in Slots,
         ~Occupied(s), ChangesOnly(s), OthersUnchanged(t), OnTrack(t)',
         \A u \in Threads \ {t} : Filling(u) => Slot(u) # s,
         Filling(t)' => FillsItsSlot(t)' /\ Slot(t)' = s,
         NEW k \in Keys, NEW p \in Slots,
         Occupied(s)' => /\ slot_row'[s] \in ValidRows
                         /\ slot_row'[s].primary_key = k
                         /\ slot_key'[s] = k
                         /\ s = ProbeIndex(k, p)
                         /\ HeldByOthers(k, p)
  PROVE  MapInv'
<1>1. Stable
  BY DEF Stable, ChangesOnly, Occupied
<1>2. OccupiedIsInitialised'
  <2> SUFFICES ASSUME NEW x \in Slots, Occupied(x)'
               PROVE  slot_row'[x] \in ValidRows /\ slot_row'[x].primary_key = slot_key'[x]
    BY DEF OccupiedIsInitialised
  <2>1. CASE x = s
    BY <2>1
  <2>2. CASE x # s
    BY <2>2 DEF MapInv, OccupiedIsInitialised, ChangesOnly, Occupied
  <2>3. QED
    BY <2>1, <2>2
<1>3. FillingIsExclusive'
  <2> SUFFICES ASSUME NEW u \in Threads, Filling(u)',
                      NEW v \in Threads \ {u}
               PROVE  /\ FillsItsSlot(u)'
                      /\ Filling(v)' => Slot(v)' # Slot(u)'
    BY DEF FillingIsExclusive
  <2>1. ASSUME NEW w \in Threads \ {t}
        PROVE  /\ (Filling(w)' <=> Filling(w)) /\ Slot(w)' = Slot(w)
               /\ Filling(w) => Slot(w) # s /\ FillsItsSlot(w)'
    <3>1. (Filling(w)' <=> Filling(w)) /\ Slot(w)' = Slot(w)
      BY DEF OthersUnchanged, Filling, Slot
    <3>2. ASSUME Filling(w) PROVE Slot(w) # s /\ FillsItsSlot(w)'
      <4>1. FillsItsSlot(w)
        BY <3>2 DEF MapInv, FillingIsExclusive
      <4>2. Slot(w) \in Slots
        BY <3>2, Running DEF Filling, MapInv, CallsAreOnTrack, OnTrack
      <4>3. Slot(w) # s
        BY <3>2
      <4>4. pc'[w] = pc[w] /\ call'[w] = call[w]
        BY DEF OthersUnchanged
      <4>5. QED
        BY <3>1, <4>1, <4>2, <4>3, <4>4 DEF FillsItsSlot, ChangesOnly
    <3>3. QED
      BY <3>1, <3>2
  <2>2. CASE u = t
    BY <2>1, <2>2
  <2>3. CASE u # t /\ v = t
    <3>1. FillsItsSlot(u)' /\ Slot(u)' # s
      BY <2>1, <2>3
    <3>2. Filling(v)' => Slot(v)' = s
      BY <2>3
    <3>3. QED
      BY <3>1, <3>2
  <2>4. CASE u # t /\ v # t
    <3>1. /\ FillsItsSlot(u)' /\ Filling(u) /\ Slot(u)' = Slot(u)
          /\ (Filling(v)' <=> Filling(v)) /\ Slot(v)' = Slot(v)
      BY <2>1, <2>4
    <3>2. QED
      BY <3>1 DEF MapInv, FillingIsExclusive
  <2>5. QED
    BY <2>2, <2>3, <2>4
<1>4. PublishedIsReachable'
  <2> SUFFICES ASSUME NEW x \in Slots, Occupied(x)'
               PROVE  \E q \in Slots : /\ x = ProbeIndex(slot_key'[x], q)
                                       /\ HeldByOthers(slot_key[x], q)'
    BY DEF PublishedIsReachable
  <2>1. CASE x = s
    <3>1. p \in 0 .. Capacity
      BY MapAssumption DEF Slots
    <3>2. HeldByOthers(k, p)'
      BY <2>1, <3>1, <1>1, HeldStable
    <3>3. QED
      BY <2>1, <3>2 DEF HeldByOthers
  <2>2. CASE x # s
    <3>1. Occupied(x)
      BY <2>2 DEF Occupied, ChangesOnly
    <3>2. QED
      BY <3>1, <1>1, ReachableStable DEF MapInv
  <2>3. QED
    BY <2>1, <2>2
<1>5. CallsAreOnTrack'
  BY <1>1, OthersStayOnTrack DEF CallsAreOnTrack, MapInv
<1>6. QED
  BY <1>2, <1>3, <1>4, <1>5 DEF MapInv

LEMMA ReserveStep ==
  ASSUME MapInv, NEW t \in Threads, Reserve(t)
  PROVE  MapInv'
<1>1. /\ OnTrack(t) /\ pc[t] = "reserve" /\ probe[t] < Capacity
      /\ call[t].op # "Get"
  BY DEF Reserve, MapInv, CallsAreOnTrack, OnTrack
<1>2. Slot(t) \in Slots
  BY <1>1, Running
<1>3. CASE slot_state[Slot(t)] # "kEmpty"
  <2>1. Continue(t, "probe") /\ UNCHANGED slots
    BY <1>3 DEF Reserve, slots
  <2>2. OnTrack(t)'
    BY <1>1, <2>1 DEF OnTrack, Continue, Goto, MapInv, TypeOK, HeldByOthers,
                      Occupied, Slot, locals, slots, Accepts
  <2>3. QED
    BY <2>1, <2>2, ContinueStep
<1>4. CASE slot_state[Slot(t)] = "kEmpty"
  <2>1. PICK s \in Slots : s = Slot(t)
    BY <1>2
  <2>2. /\ slot_state' = [slot_state EXCEPT ![s] = "kReserved"]
        /\ UNCHANGED <<slot_key, slot_row, unique_key_count>>
        /\ \/ Continue(t, "write_key") /\ call[t].op = "PublishAndReport"
           \/ Return(t, Status("kOk"))
    BY <1>4, <2>1 DEF Reserve
  <2>3. ChangesOnly(s) /\ ~Occupied(s) /\ ~Occupied(s)' /\ Stable
    BY <1>4, <2>1, <2>2 DEF ChangesOnly, Occupied, Stable, MapInv, TypeOK
  <2>4. \A u \in Threads \ {t} : Filling(u) => Slot(u) # s
    BY <1>4, <2>1 DEF MapInv, FillingIsExclusive, FillsItsSlot
  <2>5. CASE Return(t, Status("kOk"))
    <3>1. Status("kOk") \in Results
      BY StatusResult DEF Statuses
    <3>2. TypeOK'
      BY <2>2, <2>5, <3>1, RowTypes, MapAssumption
         DEF MapInv, TypeOK, Return, Goto, Labels, Results
    <3>3. OthersUnchanged(t) /\ ~Filling(t)' /\ OnTrack(t)'
      BY <2>5 DEF MapInv, TypeOK, Return, Goto, OthersUnchanged, Filling, OnTrack,
                  HeldByOthers
    <3>4. QED
      BY <2>3, <2>4, <3>2, <3>3, SlotStep, MapAssumption
  <2>6. CASE Continue(t, "write_key") /\ call[t].op = "PublishAndReport"
    <3>1. TypeOK'
      BY <2>2, <2>6 DEF MapInv, TypeOK, Continue, Goto, Labels, locals
    <3>2. OthersUnchanged(t) /\ pc'[t] = "write_key" /\ UNCHANGED locals
      BY <2>6 DEF MapInv, TypeOK, Continue, Goto, OthersUnchanged, locals
    <3>3. Slot(t)' = s
      BY <2>1, <3>2 DEF Slot, locals
    <3>4. FillsItsSlot(t)'
      BY <2>2, <2>6, <3>2, <3>3 DEF FillsItsSlot, locals, MapInv, TypeOK
    <3>5. OnTrack(t)'
      <4>1. HeldByOthers(call[t].key, probe[t])'
        <5>1. PICK k \in Keys : k = call[t].key
          BY RowTypes DEF MapInv, TypeOK
        <5>2. PICK n \in 0 .. Capacity : n = probe[t]
          BY DEF MapInv, TypeOK
        <5>3. HeldByOthers(k, n)'
          BY <1>1, <5>1, <5>2, <2>3, HeldStable DEF OnTrack
        <5>4. QED
          BY <5>1, <5>2, <5>3, <3>2 DEF HeldByOthers, locals
      <4>2. QED
        BY <1>1, <3>2, <4>1 DEF OnTrack, locals, Accepts
    <3>6. QED
      BY <2>3, <2>4, <3>1, <3>2, <3>3, <3>4, <3>5, SlotStep, MapAssumption
  <2>7. QED
    BY <2>2, <2>5, <2>6
<1>5. QED
  BY <1>3, <1>4

(* The steps of a thread that is filling its slot. *)
LEMMA FillFacts ==
  ASSUME MapInv, NEW t \in Threads, Filling(t)
  PROVE  /\ OnTrack(t) /\ FillsItsSlot(t) /\ probe[t] < Capacity
         /\ Slot(t) \in Slots /\ ~Occupied(Slot(t))
         /\ call[t].row \in ValidRows /\ call[t].row.primary_key = call[t].key
         /\ call[t].key \in Keys
         /\ \A u \in Threads \ {t} : Filling(u) => Slot(u) # Slot(t)
<1>1. OnTrack(t) /\ FillsItsSlot(t) /\ probe[t] < Capacity /\ pc[t] # "idle"
  BY DEF MapInv, CallsAreOnTrack, FillingIsExclusive, OnTrack, Filling
<1>2. Slot(t) \in Slots /\ ~Occupied(Slot(t))
  BY <1>1, Running DEF FillsItsSlot, Occupied
<1>3. call[t] \in Calls /\ Accepts(call[t]) /\ call[t].op = "PublishAndReport"
  BY <1>1, Running DEF FillsItsSlot
<1>4. call[t].row \in ValidRows /\ call[t].row.primary_key = call[t].key
  BY <1>3, AcceptedRow
<1>5. QED
  BY <1>1, <1>2, <1>3, <1>4, RowTypes DEF MapInv, FillingIsExclusive

LEMMA WriteKeyStep ==
  ASSUME MapInv, NEW t \in Threads, WriteKey(t)
  PROVE  MapInv'
<1>1. Filling(t)
  BY DEF WriteKey, Filling
<1>2. PICK s \in Slots : s = Slot(t)
  BY <1>1, FillFacts
<1>3. /\ slot_key' = [slot_key EXCEPT ![s] = call[t].key]
      /\ Continue(t, "write_row") /\ UNCHANGED <<slot_state, slot_row, unique_key_count>>
  BY <1>2 DEF WriteKey
<1>4. /\ pc' = [pc EXCEPT ![t] = "write_row"] /\ UNCHANGED <<locals, result>>
  BY <1>3 DEF Continue, Goto
<1>5. TypeOK'
  BY <1>1, <1>3, <1>4, FillFacts DEF MapInv, TypeOK, Labels, locals
<1>6. ChangesOnly(s) /\ ~Occupied(s) /\ ~Occupied(s)' /\ OthersUnchanged(t) /\ Stable
  BY <1>1, <1>2, <1>3, <1>4, FillFacts
     DEF ChangesOnly, Occupied, OthersUnchanged, locals, MapInv, TypeOK, Stable
<1>7. pc'[t] = "write_row" /\ Slot(t)' = s
  BY <1>2, <1>4 DEF MapInv, TypeOK, Slot, locals
<1>8. FillsItsSlot(t)'
  BY <1>1, <1>2, <1>3, <1>4, <1>7, FillFacts DEF FillsItsSlot, locals, MapInv, TypeOK
<1>9. OnTrack(t)'
  <2>1. HeldByOthers(call[t].key, probe[t])'
    <3>1. PICK k \in Keys : k = call[t].key
      BY <1>1, FillFacts
    <3>2. PICK n \in 0 .. Capacity : n = probe[t]
      BY DEF MapInv, TypeOK
    <3>3. HeldByOthers(k, n)'
      BY <1>1, <3>1, <3>2, <1>6, HeldStable, FillFacts DEF OnTrack
    <3>4. QED
      BY <3>1, <3>2, <3>3, <1>4 DEF HeldByOthers, locals
  <2>2. QED
    BY <1>1, <1>4, <1>7, <2>1, FillFacts DEF OnTrack, locals, Filling, Accepts
<1>10. QED
  BY <1>1, <1>2, <1>5, <1>6, <1>7, <1>8, <1>9, SlotStep, FillFacts, MapAssumption

LEMMA WriteRowStep ==
  ASSUME MapInv, NEW t \in Threads, WriteRow(t)
  PROVE  MapInv'
<1>1. Filling(t)
  BY DEF WriteRow, Filling
<1>2. PICK s \in Slots : s = Slot(t)
  BY <1>1, FillFacts
<1>3. /\ slot_row' = [slot_row EXCEPT ![s] = call[t].row]
      /\ Continue(t, "occupy") /\ UNCHANGED <<slot_state, slot_key, unique_key_count>>
  BY <1>2 DEF WriteRow
<1>4. /\ pc' = [pc EXCEPT ![t] = "occupy"] /\ UNCHANGED <<locals, result>>
  BY <1>3 DEF Continue, Goto
<1>5. TypeOK'
  BY <1>1, <1>3, <1>4, FillFacts DEF MapInv, TypeOK, Labels, locals
<1>6. ChangesOnly(s) /\ ~Occupied(s) /\ ~Occupied(s)' /\ OthersUnchanged(t)
  BY <1>1, <1>2, <1>3, <1>4, FillFacts
     DEF ChangesOnly, Occupied, OthersUnchanged, locals, MapInv, TypeOK
<1>7. pc'[t] = "occupy" /\ Slot(t)' = s
  BY <1>2, <1>4 DEF MapInv, TypeOK, Slot, locals
<1>8. FillsItsSlot(t)'
  BY <1>1, <1>2, <1>3, <1>4, <1>7, FillFacts
     DEF FillsItsSlot, locals, MapInv, TypeOK, WriteRow
<1>9. OnTrack(t)'
  BY <1>1, <1>3, <1>4, <1>7, FillFacts
     DEF OnTrack, HeldByOthers, Occupied, locals, Filling, Accepts
<1>10. QED
  BY <1>1, <1>2, <1>5, <1>6, <1>7, <1>8, <1>9, SlotStep, FillFacts, MapAssumption

LEMMA OccupyStep ==
  ASSUME MapInv, NEW t \in Threads, Occupy(t)
  PROVE  MapInv'
<1>1. Filling(t) /\ pc[t] = "occupy"
  BY DEF Occupy, Filling
<1>2. PICK s \in Slots : s = Slot(t)
  BY <1>1, FillFacts
<1>3. PICK k \in Keys : k = call[t].key
  BY <1>1, FillFacts
<1>4. PICK p \in Slots : p = probe[t]
  BY <1>1, FillFacts, MapAssumption DEF MapInv, TypeOK, Slots
<1>5. /\ slot_state' = [slot_state EXCEPT ![s] = "kOccupied"]
      /\ pc' = [pc EXCEPT ![t] = "count"] /\ UNCHANGED <<locals, result>>
      /\ UNCHANGED <<slot_key, slot_row, unique_key_count>>
  BY <1>2 DEF Occupy, Continue, Goto
<1>6. TypeOK'
  BY <1>5 DEF MapInv, TypeOK, Labels, locals
<1>7. ChangesOnly(s) /\ ~Occupied(s) /\ OthersUnchanged(t) /\ Stable
  BY <1>1, <1>2, <1>5, FillFacts
     DEF ChangesOnly, Occupied, OthersUnchanged, locals, MapInv, TypeOK, Stable
<1>8. /\ slot_row'[s] \in ValidRows /\ slot_row'[s].primary_key = k
      /\ slot_key'[s] = k /\ s = ProbeIndex(k, p) /\ HeldByOthers(k, p)
  BY <1>1, <1>2, <1>3, <1>4, <1>5, FillFacts DEF FillsItsSlot, Slot, OnTrack
<1>9. OnTrack(t)' /\ ~Filling(t)'
  <2>1. p \in 0 .. Capacity
    BY MapAssumption DEF Slots
  <2>2. HeldByOthers(k, p)'
    BY <1>7, <1>8, <2>1, HeldStable
  <2>3. pc'[t] = "count" /\ call'[t] = call[t] /\ probe'[t] = probe[t]
    BY <1>5 DEF MapInv, TypeOK, locals
  <2>4. HeldByOthers(call[t].key, probe[t])'
    BY <1>3, <1>4, <2>2, <2>3 DEF HeldByOthers
  <2>5. QED
    BY <1>1, <2>3, <2>4, FillFacts
       DEF OnTrack, Filling, FillsItsSlot, Accepts
<1>10. QED
  BY <1>1, <1>2, <1>6, <1>7, <1>8, <1>9, SlotStep, FillFacts

LEMMA SwapStep ==
  ASSUME MapInv, NEW t \in Threads, Swap(t)
  PROVE  MapInv'
<1>1. /\ call[t].row \in ValidRows /\ call[t].row.primary_key = call[t].key
      /\ pc[t] = "swap"
  <2>1. pc[t] = "swap" /\ call[t].op = "PublishAndReport"
    BY DEF Swap, MapInv, CallsAreOnTrack, OnTrack
  <2>2. QED
    BY <2>1, Running, AcceptedRow
<1>2. PICK s \in Slots : s = Slot(t) /\ Occupied(s) /\ slot_key[s] = call[t].key
  BY <1>1, LoadedRow
<1>3. /\ slot_row' = [slot_row EXCEPT ![s] = call[t].row]
      /\ Return(t, Status("kTrue")) /\ UNCHANGED <<slot_state, slot_key, unique_key_count>>
  BY <1>2 DEF Swap
<1>4. TypeOK'
  <2>1. Status("kTrue") \in Results
    BY StatusResult DEF Statuses
  <2>2. QED
    BY <1>1, <1>3, <2>1, RowTypes, MapAssumption
       DEF MapInv, TypeOK, Return, Goto, Labels, Results
<1>5. OthersUnchanged(t) /\ ~Filling(t)' /\ OnTrack(t)' /\ Stable
  BY <1>3 DEF MapInv, TypeOK, Return, Goto, OthersUnchanged, Filling, OnTrack,
              HeldByOthers, Stable, Occupied
<1>6. OccupiedIsInitialised'
  BY <1>1, <1>2, <1>3 DEF MapInv, TypeOK, OccupiedIsInitialised, Occupied
<1>7. FillingIsExclusive'
  <2> SUFFICES ASSUME NEW u \in Threads, Filling(u)',
                      NEW v \in Threads \ {u}
               PROVE  /\ FillsItsSlot(u)'
                      /\ Filling(v)' => Slot(v)' # Slot(u)'
    BY <1>5 DEF FillingIsExclusive
  <2>1. u # t /\ (Filling(v)' => v # t)
    BY <1>5
  <2>2. Filling(u) /\ Slot(u)' = Slot(u)
    BY <1>5, <2>1 DEF OthersUnchanged, Filling, Slot
  <2>3. v # t => (Filling(v)' <=> Filling(v)) /\ Slot(v)' = Slot(v)
    BY <1>5 DEF OthersUnchanged, Filling, Slot
  <2>4. FillsItsSlot(u) /\ Slot(u) \in Slots /\ Slot(u) # s
    BY <2>2, <1>2, FillFacts
  <2>5. FillsItsSlot(u)'
    BY <2>1, <2>2, <2>4, <1>3, <1>5
       DEF FillsItsSlot, OthersUnchanged, MapInv, TypeOK
  <2>6. QED
    BY <2>1, <2>2, <2>3, <2>5 DEF MapInv, FillingIsExclusive
<1>8. PublishedIsReachable'
  BY <1>3 DEF MapInv, PublishedIsReachable, Occupied, HeldByOthers
<1>9. CallsAreOnTrack'
  BY <1>5, OthersStayOnTrack DEF CallsAreOnTrack, MapInv
<1>10. QED
  BY <1>4, <1>6, <1>7, <1>8, <1>9 DEF MapInv

-----------------------------------------------------------------------------
(* The invariant. *)

LEMMA NextMapInv == MapInv /\ [Next]_vars => MapInv'
<1> SUFFICES ASSUME MapInv, [Next]_vars PROVE MapInv'
  OBVIOUS
<1>1. CASE UNCHANGED vars
  BY <1>1 DEF MapInv, vars, slots, locals, TypeOK, OccupiedIsInitialised,
              FillingIsExclusive, FillsItsSlot, Filling, PublishedIsReachable,
              CallsAreOnTrack, OnTrack, HeldByOthers, Occupied, Slot, Accepts
<1>2. ASSUME NEW t \in Threads, NEW c \in Calls, Invoke(t, c) PROVE MapInv'
  BY <1>2, InvokeStep
<1>3. ASSUME NEW t \in Threads, Step(t) PROVE MapInv'
  BY <1>3, ExhaustedStep, PublishProbeStep, ReserveStep, WriteKeyStep, WriteRowStep,
     OccupyStep, CountStep, LoadCurrentStep, SwapStep, SwapFailsStep, GetProbeStep,
     GetLoadStep DEF Step
<1>4. QED
  BY <1>1, <1>2, <1>3 DEF Next

(* The invariant of the hash map holds in every reachable state. *)
THEOREM MapInvariant == Spec => []MapInv
<1>1. QED
  BY InitMapInv, NextMapInv, PTL DEF Spec

(* Types are respected: in particular only rows with a valid source        *)
(* position, checked by PublishAndReport, ever reach a slot.               *)
THEOREM TypeCorrect == Spec => []TypeOK
<1>1. MapInv => TypeOK
  BY DEF MapInv
<1>2. QED
  BY <1>1, MapInvariant, PTL

-----------------------------------------------------------------------------
(* One slot per key, and what a lookup sees. *)

LEMMA InvOneSlot == MapInv => KeyHasOneSlot
<1> SUFFICES ASSUME MapInv, NEW s1 \in Slots, NEW s2 \in Slots,
                    Occupied(s1), Occupied(s2), slot_key[s1] = slot_key[s2]
             PROVE  s1 = s2
  BY DEF KeyHasOneSlot
<1> DEFINE k == slot_key[s1]
<1>1. PICK p \in Slots : s1 = ProbeIndex(k, p) /\ HeldByOthers(k, p)
  BY DEF MapInv, PublishedIsReachable
<1>2. PICK q \in Slots : s2 = ProbeIndex(k, q) /\ HeldByOthers(k, q)
  BY DEF MapInv, PublishedIsReachable
<1>3. ~(p < q)
  BY <1>1, <1>2, MapAssumption DEF HeldByOthers, Slots
<1>4. ~(q < p)
  BY <1>1, <1>2, MapAssumption DEF HeldByOthers, Slots
<1>5. p = q
  BY <1>3, <1>4, MapAssumption DEF Slots
<1>6. QED
  BY <1>1, <1>2, <1>5

(* No key ever has two occupied slots. *)
THEOREM OneSlotPerKey == Spec => []KeyHasOneSlot
BY MapInvariant, InvOneSlot, PTL

VisibleFacts ==
  \A k \in Keys :
    /\ \A s \in Slots : Occupied(s) /\ slot_key[s] = k => Visible(k) = slot_row[s]
    /\ (\A s \in Slots : ~(Occupied(s) /\ slot_key[s] = k)) => Visible(k) = NoRow

LEMMA VisibleIs == KeyHasOneSlot => VisibleFacts
<1> SUFFICES ASSUME KeyHasOneSlot, NEW k \in Keys
             PROVE  /\ \A s \in Slots :
                         Occupied(s) /\ slot_key[s] = k => Visible(k) = slot_row[s]
                    /\ (\A s \in Slots : ~(Occupied(s) /\ slot_key[s] = k))
                         => Visible(k) = NoRow
  BY DEF VisibleFacts
<1>1. ASSUME NEW s \in Slots, Occupied(s), slot_key[s] = k
      PROVE  Visible(k) = slot_row[s]
  <2>1. s \in SlotsOf(k) /\ \A x \in SlotsOf(k) : x = s
    BY <1>1 DEF SlotsOf, KeyHasOneSlot
  <2>2. (CHOOSE x \in SlotsOf(k) : TRUE) = s
    BY <2>1
  <2>3. QED
    BY <2>1, <2>2 DEF Visible
<1>2. ASSUME \A s \in Slots : ~(Occupied(s) /\ slot_key[s] = k)
      PROVE  Visible(k) = NoRow
  BY <1>2 DEF Visible, SlotsOf
<1>3. QED
  BY <1>1, <1>2

(* What is visible changes only with the occupied slots. *)
LEMMA VisibleSame ==
  ASSUME KeyHasOneSlot, KeyHasOneSlot', NEW k \in Keys,
         \A s \in Slots :
           /\ slot_state'[s] = "kOccupied" <=> slot_state[s] = "kOccupied"
           /\ slot_state[s] = "kOccupied" /\ k \in {slot_key[s], slot_key'[s]}
                => slot_key'[s] = slot_key[s] /\ slot_row'[s] = slot_row[s]
  PROVE  Visible(k)' = Visible(k)
<1>1. VisibleFacts /\ VisibleFacts'
  BY VisibleIs, PTL
<1>2. QED
  BY <1>1 DEF VisibleFacts, Occupied

(* A call that has reached a slot that is not occupied, or the end of its  *)
(* probe sequence, knows that its key is in no slot.                       *)
LEMMA Absent ==
  ASSUME MapInv, NEW t \in Threads, pc[t] # "idle",
         probe[t] = Capacity \/ ~Occupied(Slot(t))
  PROVE  /\ \A s \in Slots : ~(Occupied(s) /\ slot_key[s] = call[t].key)
         /\ Visible(call[t].key) = NoRow
<1> DEFINE k == call[t].key
           n == probe[t]
<1>1. k \in Keys /\ n \in 0 .. Capacity /\ HeldByOthers(k, n)
  BY Running, RowTypes DEF MapInv, TypeOK
<1>2. ASSUME NEW s \in Slots, Occupied(s), slot_key[s] = k
      PROVE  FALSE
  <2>1. PICK p \in Slots : s = ProbeIndex(k, p) /\ HeldByOthers(k, p)
    BY <1>2 DEF MapInv, PublishedIsReachable
  <2>2. ~(p < n)
    BY <1>1, <1>2, <2>1, MapAssumption DEF HeldByOthers, Slots
  <2>3. n # Capacity
    BY <2>2, MapAssumption DEF Slots
  <2>4. ~(n < p)
    <3>1. ~Occupied(ProbeIndex(k, n))
      BY <2>3 DEF Slot
    <3>2. QED
      BY <1>1, <2>1, <3>1, MapAssumption DEF HeldByOthers, Slots
  <2>5. p = n
    BY <1>1, <2>2, <2>4, MapAssumption DEF Slots
  <2>6. QED
    BY <1>2, <2>1, <2>3, <2>5 DEF Slot
<1>3. Visible(k) = NoRow
  BY <1>1, <1>2, InvOneSlot, VisibleIs DEF VisibleFacts
<1>4. QED
  BY <1>2, <1>3

(* A call that has found its key sees the row of that slot. *)
LEMMA Found ==
  ASSUME MapInv, NEW t \in Threads, pc[t] \in {"load", "swap"}
  PROVE  Visible(call[t].key) = slot_row[Slot(t)]
<1>1. call[t].key \in Keys
  BY RowTypes DEF MapInv, TypeOK
<1>2. QED
  BY <1>1, LoadedRow, InvOneSlot, VisibleIs DEF VisibleFacts

(* The two steps that make a row visible. *)
LEMMA OccupyInstalls ==
  ASSUME MapInv, MapInv', NEW t \in Threads, Occupy(t), NEW k \in Keys
  PROVE  IF k = call[t].key
           THEN Visible(k) = NoRow /\ Visible(k)' = call[t].row
           ELSE Visible(k)' = Visible(k)
<1>1. Filling(t) /\ pc[t] = "occupy"
  BY DEF Occupy, Filling
<1>2. PICK s \in Slots : s = Slot(t)
  BY <1>1, FillFacts
<1>3. /\ slot_state' = [slot_state EXCEPT ![s] = "kOccupied"]
      /\ UNCHANGED <<slot_key, slot_row>>
  BY <1>2 DEF Occupy
<1>4. /\ slot_key[s] = call[t].key /\ slot_row[s] = call[t].row
      /\ slot_state'[s] = "kOccupied"
  BY <1>1, <1>2, <1>3, FillFacts DEF FillsItsSlot, MapInv, TypeOK
<1>5. KeyHasOneSlot /\ KeyHasOneSlot' /\ VisibleFacts'
  BY InvOneSlot, VisibleIs, PTL
<1>6. CASE k = call[t].key
  <2>1. Visible(k) = NoRow
    BY <1>1, <1>6, Absent, FillFacts
  <2>2. Visible(k)' = slot_row'[s]
    BY <1>3, <1>4, <1>5, <1>6 DEF VisibleFacts, Occupied
  <2>3. QED
    BY <1>3, <1>4, <1>6, <2>1, <2>2
<1>7. CASE k # call[t].key
  <2>1. VisibleFacts
    BY <1>5, VisibleIs
  <2>2. \A x \in Slots : (Occupied(x)' /\ slot_key'[x] = k) <=> (Occupied(x) /\ slot_key[x] = k)
    BY <1>3, <1>4, <1>7 DEF Occupied, MapInv, TypeOK
  <2>3. QED
    BY <1>3, <1>5, <1>7, <2>1, <2>2 DEF VisibleFacts
<1>8. QED
  BY <1>6, <1>7

LEMMA SwapInstalls ==
  ASSUME MapInv, MapInv', NEW t \in Threads, Swap(t), NEW k \in Keys
  PROVE  IF k = call[t].key
           THEN /\ Visible(k) # NoRow /\ IsNewer(Visible(k), call[t].row)
                /\ Visible(k)' = call[t].row
           ELSE Visible(k)' = Visible(k)
<1>1. pc[t] = "swap" /\ IsNewer(current[t], call[t].row)
      /\ current[t] # NoRow
  BY DEF Swap, MapInv, CallsAreOnTrack, OnTrack
<1>2. PICK s \in Slots : /\ s = Slot(t) /\ Occupied(s) /\ slot_key[s] = call[t].key
  BY <1>1, LoadedRow
<1>3. /\ slot_row[s] = current[t]
      /\ slot_row' = [slot_row EXCEPT ![s] = call[t].row]
      /\ UNCHANGED <<slot_state, slot_key>>
  BY <1>2 DEF Swap
<1>4. KeyHasOneSlot /\ KeyHasOneSlot' /\ VisibleFacts' /\ VisibleFacts
  BY InvOneSlot, VisibleIs, PTL
<1>5. CASE k = call[t].key
  <2>1. Visible(k) = slot_row[s] /\ Visible(k)' = slot_row'[s]
    BY <1>2, <1>3, <1>4, <1>5 DEF VisibleFacts, Occupied
  <2>2. slot_row'[s] = call[t].row
    BY <1>3 DEF MapInv, TypeOK
  <2>3. QED
    BY <1>1, <1>3, <1>5, <2>1, <2>2
<1>6. CASE k # call[t].key
  <2>1. \A x \in Slots : slot_key[x] = k => slot_row'[x] = slot_row[x]
    BY <1>2, <1>3, <1>6 DEF MapInv, TypeOK
  <2>2. QED
    BY <1>3, <1>4, <1>6, <2>1 DEF VisibleFacts, Occupied
<1>7. QED
  BY <1>5, <1>6

(* Every other step leaves what lookups see as it is. *)
LEMMA OthersInstallNothing ==
  ASSUME MapInv, MapInv', NEW t \in Threads, NEW k \in Keys,
         (\E c \in Calls : Invoke(t, c)) \/ (Step(t) /\ ~Occupy(t) /\ ~Swap(t))
  PROVE  Visible(k)' = Visible(k)
<1>1. KeyHasOneSlot /\ KeyHasOneSlot'
  BY InvOneSlot, PTL
<1>2. CASE UNCHANGED <<slot_state, slot_key, slot_row>>
  BY <1>1, <1>2, VisibleSame
<1>3. CASE Reserve(t) \/ WriteKey(t) \/ WriteRow(t)
  <2>1. PICK s \in Slots : s = Slot(t)
    BY <1>3, Running DEF Reserve, WriteKey, WriteRow, MapInv, CallsAreOnTrack, OnTrack
  <2>2. CASE Reserve(t)
    <3>1. /\ \/ slot_state' = slot_state
             \/ /\ slot_state[s] = "kEmpty"
                /\ slot_state' = [slot_state EXCEPT ![s] = "kReserved"]
          /\ UNCHANGED <<slot_key, slot_row>>
      BY <2>1, <2>2 DEF Reserve
    <3>2. \A x \in Slots : slot_state'[x] = "kOccupied" <=> slot_state[x] = "kOccupied"
      BY <3>1 DEF MapInv, TypeOK
    <3>3. QED
      BY <1>1, <3>1, <3>2, VisibleSame
  <2>3. CASE WriteKey(t) \/ WriteRow(t)
    <3>1. slot_state[s] # "kOccupied" /\ slot_state' = slot_state
      BY <2>1, <2>3, FillFacts DEF WriteKey, WriteRow, Filling, Occupied
    <3>2. \A x \in Slots \ {s} : slot_key'[x] = slot_key[x] /\ slot_row'[x] = slot_row[x]
      BY <2>1, <2>3 DEF WriteKey, WriteRow, MapInv, TypeOK
    <3>3. QED
      BY <1>1, <3>1, <3>2, VisibleSame
  <2>4. QED
    BY <1>3, <2>2, <2>3
<1>4. QED
  BY <1>2, <1>3 DEF Step, Invoke, Exhausted, PublishProbe, GetProbe, GetLoad, Count,
     LoadCurrent, SwapFails, slots

(* The row readers see for a key never disappears, never moves back to an  *)
(* older offset and never changes partition, whatever the interleaving.    *)
THEOREM RowsOnlyAdvance == Spec => VisibleRowOnlyAdvances
<1> DEFINE Advances(k) ==
             Visible(k) # NoRow =>
               /\ Visible(k)' # NoRow
               /\ Visible(k)' = Visible(k) \/ IsNewer(Visible(k), Visible(k)')
<1>1. MapInv /\ MapInv' /\ [Next]_vars => [\A k \in Keys : Advances(k)]_vars
  <2> SUFFICES ASSUME MapInv, MapInv', Next, NEW k \in Keys
               PROVE  Advances(k)
    OBVIOUS
  <2>1. PICK t \in Threads : (\E c \in Calls : Invoke(t, c)) \/ Step(t)
    BY DEF Next
  <2>2. CASE Occupy(t)
    BY <2>2, OccupyInstalls
  <2>3. CASE Swap(t)
    <3>1. call[t].row # NoRow
      BY <2>3, Running, AcceptedRow, RowTypes
         DEF Swap, MapInv, CallsAreOnTrack, OnTrack
    <3>2. QED
      BY <2>3, <3>1, SwapInstalls
  <2>4. CASE ~Occupy(t) /\ ~Swap(t)
    BY <2>1, <2>4, OthersInstallNothing
  <2>5. QED
    BY <2>2, <2>3, <2>4
<1>2. QED
  BY <1>1, MapInvariant, PTL DEF Spec, VisibleRowOnlyAdvances

-----------------------------------------------------------------------------
(* Refinement. *)

(* The operators on positions are the same ones in the abstract module. *)
LEMMA SamePositions ==
  ASSUME NEW a, NEW b
  PROVE  /\ Abstract!IsValidSourcePosition(a) = IsValidSourcePosition(a)
         /\ Abstract!ClassifySourcePositionUpdate(a, b)
              = ClassifySourcePositionUpdate(a, b)
         /\ Abstract!IsNewer(a, b) = IsNewer(a, b)
BY DEF IsNewer, Abstract!IsNewer, ClassifySourcePositionUpdate,
       Abstract!ClassifySourcePositionUpdate, IsValidSourcePosition,
       Abstract!IsValidSourcePosition

LEMMA InitRefines == Init => Abstract!Init
<1> SUFFICES ASSUME Init PROVE Abstract!Init
  OBVIOUS
<1>1. \A k \in Keys : Visible(k) = NoRow
  BY DEF Init, Visible, SlotsOf, Occupied
<1>2. \A t \in Threads : Phase(t) = "idle"
  BY DEF Init, Phase
<1>3. QED
  BY <1>1, <1>2 DEF Abstract!Init, Init, Abstract!Pending, Pending, Latest, Phases

(* How the phase of a thread moves. *)
LEMMA PhaseStep ==
  ASSUME TypeOK, NEW t \in Threads, NEW label \in Labels, Goto(t, label)
  PROVE  Phases' = [Phases EXCEPT ![t] = IF label = "idle" THEN "idle"
                                         ELSE IF label = "count" THEN "applied"
                                         ELSE "called"]
BY DEF TypeOK, Goto, Phases, Phase

LEMMA ReturnRefines ==
  ASSUME TypeOK, NEW t \in Threads, NEW r, Return(t, r)
  PROVE  Abstract!Return(t, r)
<1>1. "idle" \in Labels
  BY DEF Labels
<1>2. Phases' = [Phases EXCEPT ![t] = "idle"]
  BY <1>1, PhaseStep DEF Return
<1>3. QED
  BY <1>2 DEF Abstract!Return, Return

(* A thread that goes on between two labels of the same phase stutters. *)
LEMMA ContinueRefines ==
  ASSUME TypeOK, NEW t \in Threads, NEW label \in Labels \ {"idle", "count"},
         pc[t] \notin {"idle", "count"}, Goto(t, label)
  PROVE  Phases' = Phases
<1>1. Phases[t] = "called"
  BY DEF Phases, Phase
<1>2. Phases' = [Phases EXCEPT ![t] = "called"]
  BY PhaseStep
<1>3. QED
  BY <1>1, <1>2 DEF Phases

LEMMA InvokeRefines ==
  ASSUME MapInv, MapInv', NEW t \in Threads, NEW c \in Calls, Invoke(t, c)
  PROVE  Abstract!Next
<1>1. Latest' = Latest
  BY OthersInstallNothing DEF Latest
<1>2. Phases[t] = "idle"
  BY DEF Phases, Phase, Invoke
<1>3. CASE Accepts(c)
  <2>1. Phases' = [Phases EXCEPT ![t] = "called"]
    BY <1>3, PhaseStep DEF Invoke, Labels, MapInv
  <2>2. Abstract!Begin(t, c)
    BY <1>1, <1>2, <1>3, <2>1
       DEF Abstract!Begin, Invoke, Abstract!Pending, Pending
  <2>3. QED
    BY <2>2 DEF Abstract!Next
<1>4. CASE ~Accepts(c)
  <2>1. Phases' = Phases
    BY <1>4 DEF Invoke, Phases, Phase
  <2>2. Abstract!Refuse(t)
    BY <1>1, <1>2, <1>4, <2>1
       DEF Abstract!Refuse, Invoke, Abstract!Status, Status
  <2>3. QED
    BY <2>2 DEF Abstract!Next
<1>5. QED
  BY <1>3, <1>4

(* A step that returns without having installed a row. *)
LEMMA ExhaustedRefines ==
  ASSUME MapInv, MapInv', NEW t \in Threads, Exhausted(t)
  PROVE  Abstract!Next
<1>1. Latest' = Latest
  BY OthersInstallNothing DEF Latest, Step, Exhausted, Occupy, Swap
<1>2. Phases[t] = "called" /\ call[t].key \in Keys
  BY RowTypes DEF Phases, Phase, Exhausted, MapInv, TypeOK
<1>3. CASE call[t].op = "Get"
  <2>1. Visible(call[t].key) = NoRow
    BY Absent DEF Exhausted
  <2>2. Return(t, [status |-> "kOk", row |-> Latest[call[t].key]])
    BY <1>2, <1>3, <2>1 DEF Exhausted, Latest, Status
  <2>3. Abstract!Get(t)
    BY <1>1, <1>2, <1>3, <2>2, ReturnRefines DEF Abstract!Get, MapInv
  <2>4. QED
    BY <2>3 DEF Abstract!Next
<1>4. CASE call[t].op # "Get"
  <2>1. Abstract!Return(t, Abstract!Status("kExhausted"))
    BY <1>4, ReturnRefines DEF Exhausted, MapInv, Status, Abstract!Status
  <2>2. Abstract!NoEffect(t)
    BY <1>1, <1>2, <1>4, <2>1 DEF Abstract!NoEffect
  <2>3. QED
    BY <2>2 DEF Abstract!Next
<1>5. QED
  BY <1>3, <1>4

LEMMA SkipRefines ==
  ASSUME MapInv, MapInv', NEW t \in Threads, Skip(t), UNCHANGED slots,
         Latest' = Latest
  PROVE  UNCHANGED Abstract!vars
<1>1. Phases' = Phases
  BY DEF Skip, Phases, Phase
<1>2. QED
  BY <1>1 DEF Abstract!vars, Skip

LEMMA PublishProbeRefines ==
  ASSUME MapInv, MapInv', NEW t \in Threads, PublishProbe(t)
  PROVE  [Abstract!Next]_(Abstract!vars)
<1>1. Latest' = Latest
  BY OthersInstallNothing DEF Latest, Step, PublishProbe, Occupy, Swap
<1>2. Phases[t] = "called" /\ call[t].op # "Get"
  BY DEF Phases, Phase, PublishProbe
<1>3. CASE Return(t, Status("kUnavailable"))
  <2>1. Abstract!Return(t, Abstract!Status("kUnavailable"))
    BY <1>3, ReturnRefines DEF MapInv, Status, Abstract!Status
  <2>2. Abstract!NoEffect(t)
    BY <1>1, <1>2, <2>1 DEF Abstract!NoEffect
  <2>3. QED
    BY <2>2 DEF Abstract!Next
<1>4. CASE /\ call[t].op = "ReserveSlotForTesting"
           /\ Return(t, Status("kFailedPrecondition"))
  <2>1. Abstract!Return(t, Abstract!Status("kFailedPrecondition"))
    BY <1>4, ReturnRefines DEF MapInv, Status, Abstract!Status
  <2>2. Abstract!NoEffect(t)
    BY <1>1, <1>2, <1>4, <2>1 DEF Abstract!NoEffect
  <2>3. QED
    BY <2>2 DEF Abstract!Next
<1>5. CASE Continue(t, "load") \/ Continue(t, "reserve")
  <2>1. Phases' = Phases
    BY <1>5, ContinueRefines DEF Continue, PublishProbe, MapInv, Labels
  <2>2. QED
    BY <1>1, <1>5, <2>1 DEF Abstract!vars, Continue, locals
<1>6. CASE Skip(t)
  BY <1>1, <1>6, SkipRefines DEF PublishProbe
<1>7. QED
  BY <1>3, <1>4, <1>5, <1>6 DEF PublishProbe

LEMMA GetProbeRefines ==
  ASSUME MapInv, MapInv', NEW t \in Threads, GetProbe(t)
  PROVE  [Abstract!Next]_(Abstract!vars)
<1>1. Latest' = Latest
  BY OthersInstallNothing DEF Latest, Step, GetProbe, Occupy, Swap
<1>2. Phases[t] = "called" /\ call[t].key \in Keys
  BY RowTypes DEF Phases, Phase, GetProbe, MapInv, TypeOK
<1>3. CASE slot_state[Slot(t)] \in {"kReserved", "kEmpty"} /\ Return(t, Status("kOk"))
  <2>1. Visible(call[t].key) = NoRow
    BY <1>3, Absent DEF GetProbe, Occupied
  <2>2. Return(t, [status |-> "kOk", row |-> Latest[call[t].key]])
    BY <1>2, <1>3, <2>1 DEF Latest, Status
  <2>3. Abstract!Get(t)
    BY <1>1, <1>2, <2>2, ReturnRefines DEF Abstract!Get, MapInv, GetProbe
  <2>4. QED
    BY <2>3 DEF Abstract!Next
<1>4. CASE Continue(t, "load")
  <2>1. Phases' = Phases
    BY <1>4, ContinueRefines DEF Continue, GetProbe, MapInv, Labels
  <2>2. QED
    BY <1>1, <1>4, <2>1 DEF Abstract!vars, Continue, locals
<1>5. CASE Skip(t)
  BY <1>1, <1>5, SkipRefines DEF GetProbe
<1>6. QED
  BY <1>3, <1>4, <1>5 DEF GetProbe

LEMMA GetLoadRefines ==
  ASSUME MapInv, MapInv', NEW t \in Threads, GetLoad(t)
  PROVE  Abstract!Next
<1>1. Latest' = Latest
  BY OthersInstallNothing DEF Latest, Step, GetLoad, Occupy, Swap
<1>2. Phases[t] = "called" /\ call[t].key \in Keys
  BY RowTypes DEF Phases, Phase, GetLoad, MapInv, TypeOK
<1>3. slot_row[Slot(t)] # NoRow /\ Latest[call[t].key] = slot_row[Slot(t)]
  BY <1>2, LoadedRow, Found, RowTypes DEF GetLoad, Latest
<1>4. Return(t, [status |-> "kOk", row |-> Latest[call[t].key]])
  BY <1>3 DEF GetLoad
<1>5. Abstract!Get(t)
  BY <1>1, <1>2, <1>4, ReturnRefines DEF Abstract!Get, MapInv, GetLoad
<1>6. QED
  BY <1>5 DEF Abstract!Next

LEMMA ReserveRefines ==
  ASSUME MapInv, MapInv', NEW t \in Threads, Reserve(t)
  PROVE  [Abstract!Next]_(Abstract!vars)
<1>1. Latest' = Latest
  BY OthersInstallNothing DEF Latest, Step, Reserve, Occupy, Swap
<1>2. Phases[t] = "called" /\ call[t].op # "Get"
  BY DEF Phases, Phase, Reserve, MapInv, CallsAreOnTrack, OnTrack
<1>3. CASE call[t].op = "ReserveSlotForTesting" /\ Return(t, Status("kOk"))
  <2>1. Abstract!Return(t, Abstract!Status("kOk"))
    BY <1>3, ReturnRefines DEF MapInv, Status, Abstract!Status
  <2>2. Abstract!NoEffect(t)
    BY <1>1, <1>2, <1>3, <2>1 DEF Abstract!NoEffect
  <2>3. QED
    BY <2>2 DEF Abstract!Next
<1>4. CASE Continue(t, "write_key") \/ Continue(t, "probe")
  <2>1. Phases' = Phases
    BY <1>4, ContinueRefines DEF Continue, Reserve, MapInv, Labels
  <2>2. QED
    BY <1>1, <1>4, <2>1 DEF Abstract!vars, Continue, locals
<1>5. QED
  BY <1>3, <1>4 DEF Reserve

LEMMA QuietRefines ==
  ASSUME MapInv, MapInv', NEW t \in Threads,
         WriteKey(t) \/ WriteRow(t) \/ SwapFails(t)
  PROVE  UNCHANGED Abstract!vars
<1>1. Latest' = Latest
  <2>1. ~Occupy(t)
    BY DEF WriteKey, WriteRow, SwapFails, Occupy
  <2>2. pc'[t] # "idle"
    BY DEF WriteKey, WriteRow, SwapFails, Continue, Goto, MapInv, TypeOK
  <2>3. ~Swap(t)
    BY <2>2 DEF Swap, Return, Goto, MapInv, TypeOK
  <2>4. QED
    BY <2>1, <2>3, OthersInstallNothing DEF Latest, Step
<1>2. Phases' = Phases
  BY ContinueRefines DEF Continue, WriteKey, WriteRow, SwapFails, MapInv, Labels
<1>3. QED
  BY <1>1, <1>2 DEF Abstract!vars, Continue, locals,
                    WriteKey, WriteRow, SwapFails

(* The row of a running publish meets the conditions of PublishInstall. *)
LEMMA PublishedRow ==
  ASSUME MapInv, NEW t \in Threads, pc[t] # "idle", call[t].op = "PublishAndReport"
  PROVE  /\ call[t].key \in Keys
         /\ call[t].row.primary_key = call[t].key
         /\ call[t].row \in ValidRows
         /\ IsValidSourcePosition(call[t].row)
BY Running, AcceptedRow, RowTypes DEF MapInv, TypeOK, ValidRows

LEMMA OccupyRefines ==
  ASSUME MapInv, MapInv', NEW t \in Threads, Occupy(t)
  PROVE  Abstract!Next
<1>1. pc[t] = "occupy" /\ call[t].op = "PublishAndReport"
  BY FillFacts DEF Occupy, Filling, FillsItsSlot
<1>2. Phases[t] = "called"
  BY <1>1 DEF Phases, Phase
<1>3. Phases' = [Phases EXCEPT ![t] = "applied"]
  BY PhaseStep DEF Occupy, Continue, Labels, MapInv
<1>4. Latest[call[t].key] = NoRow
      /\ Latest' = [Latest EXCEPT ![call[t].key] = call[t].row]
  BY <1>1, PublishedRow, OccupyInstalls DEF Latest
<1>5. Abstract!PublishInstall(t)
  BY <1>1, <1>2, <1>3, <1>4, PublishedRow, SamePositions
     DEF Abstract!PublishInstall, Occupy, Continue, locals
<1>6. QED
  BY <1>5 DEF Abstract!Next

LEMMA CountRefines ==
  ASSUME MapInv, MapInv', NEW t \in Threads, Count(t)
  PROVE  Abstract!Next
<1>1. Latest' = Latest
  BY OthersInstallNothing DEF Latest, Step, Count, Occupy, Swap
<1>2. Phases[t] = "applied"
  BY DEF Count, Phases, Phase
<1>3. Abstract!Return(t, Abstract!Status("kTrue"))
  BY ReturnRefines DEF Count, MapInv, Status, Abstract!Status
<1>4. Abstract!PublishReturn(t)
  BY <1>1, <1>2, <1>3 DEF Abstract!PublishReturn
<1>5. QED
  BY <1>4 DEF Abstract!Next

LEMMA SwapRefines ==
  ASSUME MapInv, MapInv', NEW t \in Threads, Swap(t)
  PROVE  Abstract!Next
<1>1. pc[t] = "swap" /\ call[t].op = "PublishAndReport"
  BY DEF Swap, MapInv, CallsAreOnTrack, OnTrack
<1>2. Phases[t] = "called"
  BY <1>1 DEF Phases, Phase
<1>3. Abstract!Return(t, Abstract!Status("kTrue"))
  BY ReturnRefines DEF Swap, MapInv, Status, Abstract!Status
<1>4. IsNewer(Latest[call[t].key], call[t].row)
      /\ Latest' = [Latest EXCEPT ![call[t].key] = call[t].row]
  BY <1>1, PublishedRow, SwapInstalls DEF Latest
<1>5. Abstract!PublishInstall(t)
  BY <1>1, <1>2, <1>3, <1>4, PublishedRow, SamePositions DEF Abstract!PublishInstall
<1>6. QED
  BY <1>5 DEF Abstract!Next

LEMMA LoadCurrentRefines ==
  ASSUME MapInv, MapInv', NEW t \in Threads, LoadCurrent(t)
  PROVE  [Abstract!Next]_(Abstract!vars)
<1> DEFINE row == slot_row[Slot(t)]
           verdict == Verdict(row, call[t].row)
<1>1. Latest' = Latest
  BY OthersInstallNothing DEF Latest, Step, LoadCurrent, Occupy, Swap
<1>2. Phases[t] = "called" /\ pc[t] = "load" /\ call[t].op = "PublishAndReport"
  BY DEF Phases, Phase, LoadCurrent
<1>3. row \in ValidRows /\ call[t].row \in ValidRows /\ row # NoRow
  BY <1>2, LoadedRow, PublishedRow, RowTypes
<1>4. Latest[call[t].key] = row
  BY <1>2, Found, PublishedRow DEF Latest
<1>5. CASE verdict = "kNewer"
  <2>1. Phases' = Phases
    BY <1>2, <1>5, ContinueRefines DEF LoadCurrent, MapInv, Labels
  <2>2. QED
    BY <1>1, <1>5, <2>1 DEF Abstract!vars, LoadCurrent
<1>6. CASE verdict # "kNewer"
  <2>1. Abstract!Return(t, Abstract!Status(verdict))
    BY <1>6, ReturnRefines DEF LoadCurrent, MapInv, Status, Abstract!Status
  <2>2. \/ /\ verdict = "kFalse"
           /\ ClassifySourcePositionUpdate(row, call[t].row) \in {"kStale", "kIdempotent"}
        \/ /\ verdict = "kFailedPrecondition"
           /\ ClassifySourcePositionUpdate(row, call[t].row) = "kPartitionError"
    BY <1>3, <1>6, VerdictValues
  <2>3. Abstract!PublishKept(t)
    BY <1>1, <1>2, <1>3, <1>4, <2>1, <2>2, SamePositions DEF Abstract!PublishKept
  <2>4. QED
    BY <2>3 DEF Abstract!Next
<1>7. QED
  BY <1>5, <1>6

LEMMA NextRefines ==
  MapInv /\ MapInv' /\ [Next]_vars => [Abstract!Next]_(Abstract!vars)
<1> SUFFICES ASSUME MapInv, MapInv', [Next]_vars
             PROVE  [Abstract!Next]_(Abstract!vars)
  OBVIOUS
<1>1. CASE UNCHANGED vars
  BY <1>1 DEF vars, slots, locals, Abstract!vars, Latest, Phases, Visible, SlotsOf,
              Occupied, Phase
<1>2. ASSUME NEW t \in Threads, NEW c \in Calls, Invoke(t, c)
      PROVE  [Abstract!Next]_(Abstract!vars)
  BY <1>2, InvokeRefines
<1>3. ASSUME NEW t \in Threads, Step(t)
      PROVE  [Abstract!Next]_(Abstract!vars)
  BY <1>3, ExhaustedRefines, PublishProbeRefines, ReserveRefines, QuietRefines,
     OccupyRefines, CountRefines, LoadCurrentRefines, SwapRefines, GetProbeRefines,
     GetLoadRefines DEF Step
<1>4. QED
  BY <1>1, <1>2, <1>3 DEF Next

(* The lock-free map is linearizable: it implements the atomic row map,    *)
(* for any number of publishers, readers, keys and slots.                  *)
THEOREM Linearizable == Spec => ImplementsAtomicMap
BY InitRefines, NextRefines, MapInvariant, PTL DEF Spec, ImplementsAtomicMap, Abstract!Spec

-----------------------------------------------------------------------------
(* The count of keys. *)

Counting == {t \in Threads : pc[t] = "count"}

OccupiedSlots == {s \in Slots : Occupied(s)}

LEMMA CountedSetsFinite ==
  /\ IsFiniteSet(Counting) /\ Cardinality(Counting) \in Nat
  /\ IsFiniteSet(OccupiedSlots) /\ Cardinality(OccupiedSlots) \in Nat
<1>1. IsFiniteSet(Counting)
  BY ThreadsAssumption, FS_Subset DEF Counting
<1>2. IsFiniteSet(Slots)
  BY MapAssumption, FS_Interval DEF Slots
<1>3. IsFiniteSet(OccupiedSlots)
  BY <1>2, FS_Subset DEF OccupiedSlots
<1>4. QED
  BY <1>1, <1>3, FS_CardinalityType

(* Only Occupy makes a slot occupied, and then the thread has it to count. *)
LEMMA OccupyKeepsCount ==
  ASSUME MapInv, CountAgreesWithSlots, NEW t \in Threads, Occupy(t)
  PROVE  CountAgreesWithSlots'
<1>1. Filling(t)
  BY DEF Occupy, Filling
<1>2. Slot(t) \in Slots /\ ~Occupied(Slot(t))
  BY <1>1, FillFacts
<1>3. pc \in [Threads -> Labels] /\ slot_state \in [Slots -> {"kEmpty", "kReserved", "kOccupied"}]
      /\ unique_key_count \in Nat
  BY DEF MapInv, TypeOK
<1>4. Counting' = Counting \cup {t} /\ t \notin Counting
  BY <1>3 DEF Counting, Occupy, Continue, Goto
<1>5. OccupiedSlots' = OccupiedSlots \cup {Slot(t)} /\ Slot(t) \notin OccupiedSlots
  BY <1>2, <1>3 DEF OccupiedSlots, Occupied, Occupy
<1>6. Cardinality(Counting') = Cardinality(Counting) + 1
  BY <1>4, CountedSetsFinite, FS_AddElement
<1>7. Cardinality(OccupiedSlots') = Cardinality(OccupiedSlots) + 1
  BY <1>5, CountedSetsFinite, FS_AddElement
<1>8. unique_key_count' = unique_key_count
  BY DEF Occupy
<1>9. unique_key_count + Cardinality(Counting) = Cardinality(OccupiedSlots)
  BY DEF CountAgreesWithSlots, Counting, OccupiedSlots
<1>10. unique_key_count' + Cardinality(Counting') = Cardinality(OccupiedSlots')
  BY <1>3, <1>6, <1>7, <1>8, <1>9, CountedSetsFinite
<1>11. QED
  BY <1>10 DEF CountAgreesWithSlots, Counting, OccupiedSlots

LEMMA CountKeepsCount ==
  ASSUME MapInv, CountAgreesWithSlots, NEW t \in Threads, Count(t)
  PROVE  CountAgreesWithSlots'
<1>1. pc \in [Threads -> Labels] /\ unique_key_count \in Nat
  BY DEF MapInv, TypeOK
<1>2. Counting' = Counting \ {t} /\ t \in Counting
  BY <1>1 DEF Counting, Count, Return, Goto
<1>3. OccupiedSlots' = OccupiedSlots
  BY DEF OccupiedSlots, Occupied, Count
<1>4. Cardinality(Counting') = Cardinality(Counting) - 1
  BY <1>2, CountedSetsFinite, FS_RemoveElement
<1>5. unique_key_count' = unique_key_count + 1
  BY DEF Count
<1>6. unique_key_count + Cardinality(Counting) = Cardinality(OccupiedSlots)
  BY DEF CountAgreesWithSlots, Counting, OccupiedSlots
<1>7. unique_key_count' + Cardinality(Counting') = Cardinality(OccupiedSlots')
  BY <1>1, <1>3, <1>4, <1>5, <1>6, CountedSetsFinite
<1>8. QED
  BY <1>7 DEF CountAgreesWithSlots, Counting, OccupiedSlots

(* Every other step leaves both sets and the count alone. *)
LEMMA OthersKeepCount ==
  ASSUME MapInv, CountAgreesWithSlots, NEW t \in Threads,
         (\E c \in Calls : Invoke(t, c)) \/ Step(t), ~Occupy(t), ~Count(t)
  PROVE  CountAgreesWithSlots'
<1>1. pc \in [Threads -> Labels] /\ slot_state \in [Slots -> {"kEmpty", "kReserved", "kOccupied"}]
  BY DEF MapInv, TypeOK
<1>2. unique_key_count' = unique_key_count
  BY DEF Step, Invoke, Exhausted, PublishProbe, Reserve, WriteKey, WriteRow,
         LoadCurrent, Swap, SwapFails, GetProbe, GetLoad, slots
<1>3. pc'[t] # "count" /\ pc[t] # "count" /\ \A u \in Threads \ {t} : pc'[u] = pc[u]
  BY <1>1 DEF Step, Invoke, Exhausted, PublishProbe, Reserve, WriteKey, WriteRow,
         LoadCurrent, Swap, SwapFails, GetProbe, GetLoad, Skip, Return, Continue, Goto
<1>4. Counting' = Counting
  BY <1>3 DEF Counting
<1>5. \/ UNCHANGED slot_state
      \/ /\ slot_state[Slot(t)] = "kEmpty"
         /\ slot_state' = [slot_state EXCEPT ![Slot(t)] = "kReserved"]
  BY DEF Step, Invoke, Exhausted, PublishProbe, Reserve, WriteKey, WriteRow,
         LoadCurrent, Swap, SwapFails, GetProbe, GetLoad, slots
<1>6. OccupiedSlots' = OccupiedSlots
  BY <1>1, <1>5 DEF OccupiedSlots, Occupied
<1>7. QED
  BY <1>2, <1>4, <1>6 DEF CountAgreesWithSlots, Counting, OccupiedSlots

(* However publishers race, every occupied slot is counted exactly once.   *)
THEOREM CountIsExact == Spec => []CountAgreesWithSlots
<1>1. Init => CountAgreesWithSlots
  <2> SUFFICES ASSUME Init PROVE CountAgreesWithSlots
    OBVIOUS
  <2>1. Counting = {} /\ OccupiedSlots = {} /\ unique_key_count = 0
    BY DEF Init, Counting, OccupiedSlots, Occupied
  <2>2. QED
    BY <2>1, FS_EmptySet DEF CountAgreesWithSlots, Counting, OccupiedSlots
<1>2. MapInv /\ CountAgreesWithSlots /\ [Next]_vars => CountAgreesWithSlots'
  <2> SUFFICES ASSUME MapInv, CountAgreesWithSlots, [Next]_vars
               PROVE  CountAgreesWithSlots'
    OBVIOUS
  <2>1. CASE UNCHANGED vars
    BY <2>1 DEF vars, slots, CountAgreesWithSlots, Occupied
  <2>2. CASE Next
    BY <2>2, OccupyKeepsCount, CountKeepsCount, OthersKeepCount DEF Next
  <2>3. QED
    BY <2>1, <2>2
<1>3. QED
  BY <1>1, <1>2, MapInvariant, PTL DEF Spec

-----------------------------------------------------------------------------
(* The probe sequence and a full map. *)

(* hash + probe either does not wrap around within one round, or wraps at  *)
(* a multiple of the capacity, as it does for a power of two.  Where both  *)
(* fail the sequence visits some slots twice and others never.             *)
SeamlessProbing ==
  \A k \in Keys :
    \/ Hash[k] + Capacity <= HashModulus
    \/ \E m \in Nat : HashModulus = m * Capacity

LEMMA ProbesReachEverySlot ==
  ASSUME SeamlessProbing, Capacity # 0, NEW k \in Keys, NEW s \in Slots
  PROVE  \E p \in Slots : ProbeIndex(k, p) = s
<1>0. Hash[k] \in Nat /\ Hash[k] < HashModulus /\ Capacity \in Nat \ {0}
      /\ HashModulus \in Nat \ {0} /\ Slots = 0 .. Capacity - 1
  BY MapAssumption DEF Slots
<1>1. PICK p \in Slots : (Hash[k] + p) % Capacity = s
  BY <1>0, RoundReaches
<1>2. CASE Hash[k] + Capacity <= HashModulus
  <2>1. PICK n \in 0 .. HashModulus - 1 : n = Hash[k] + p
    BY <1>0, <1>2
  <2>2. n = HashModulus * 0 + n /\ n \in Nat
    BY <1>0
  <2>3. n % HashModulus = n
    BY <1>0, <2>1, <2>2, RemainderIsUnique
  <2>4. QED
    BY <1>1, <2>1, <2>3 DEF ProbeIndex
<1>3. CASE \E m \in Nat : HashModulus = m * Capacity
  <2>1. PICK m \in Nat \ {0} : HashModulus = m * Capacity
    <3>1. PICK m \in Nat : HashModulus = m * Capacity
      BY <1>3
    <3>2. m # 0
      BY <1>0, <3>1
    <3>3. QED
      BY <3>1, <3>2
  <2>2. Hash[k] + p \in Nat
    BY <1>0
  <2>3. ((Hash[k] + p) % HashModulus) % Capacity = (Hash[k] + p) % Capacity
    BY <1>0, <2>1, <2>2, RemainderOfMultiple
  <2>4. QED
    BY <1>1, <2>3 DEF ProbeIndex
<1>4. QED
  BY <1>2, <1>3 DEF SeamlessProbing

(* "realtime hash map capacity exhausted" is only answered when every slot *)
(* is taken, provided that hash + probe wraps around without a seam.       *)
THEOREM ExhaustedIsFull ==
  ASSUME SeamlessProbing
  PROVE  Spec => []ExhaustedOnlyWhenFull
<1>1. MapInv => ExhaustedOnlyWhenFull
  <2> SUFFICES ASSUME MapInv, NEW t \in Threads, probe[t] = Capacity, NEW s \in Slots
               PROVE  slot_state[s] # "kEmpty"
    BY DEF ExhaustedOnlyWhenFull
  <2>1. Capacity # 0 /\ call[t].key \in Keys
    BY RowTypes, MapAssumption DEF Slots, MapInv, TypeOK
  <2>2. HeldByOthers(call[t].key, Capacity)
    BY DEF MapInv, CallsAreOnTrack, OnTrack
  <2>3. PICK p \in Slots : ProbeIndex(call[t].key, p) = s
    BY <2>1, ProbesReachEverySlot
  <2>4. Occupied(s)
    BY <2>2, <2>3 DEF HeldByOthers, Slots
  <2>5. QED
    BY <2>4 DEF Occupied
<1>2. QED
  BY <1>1, MapInvariant, PTL

=============================================================================
