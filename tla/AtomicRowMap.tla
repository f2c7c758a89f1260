---------------------------- MODULE AtomicRowMap ----------------------------
(***************************************************************************)
(* What the realtime hash map promises: an atomic map from primary keys to *)
(* the newest row.  A call begins, takes effect in one indivisible step,   *)
(* and returns; a publish that is given up (slot reserved by somebody      *)
(* else, no slot left) has no effect at all.                               *)
(***************************************************************************)
EXTENDS SourcePositions

CONSTANTS Keys,      \* primary keys
          Threads,   \* callers
          Calls,     \* call records [op, key, row]
          NoCall,    \* the call record of an idle caller
          NoRow      \* "no row": a miss, or a null row reference

VARIABLES latest,    \* latest[k]: the newest published row of k, or NoRow
          phase,     \* per caller: "idle", "called" or "applied"
          call,      \* per caller: its call, while it runs
          result     \* per caller: [status, row] of its last returned call

vars == <<latest, phase, call, result>>

Pending == [status |-> "kPending", row |-> NoRow]

Status(s) == [status |-> s, row |-> NoRow]

Init ==
  /\ latest = [k \in Keys |-> NoRow]
  /\ phase = [t \in Threads |-> "idle"]
  /\ call = [t \in Threads |-> NoCall]
  /\ result = [t \in Threads |-> Pending]

Begin(t, c) ==
  /\ phase[t] = "idle"
  /\ phase' = [phase EXCEPT ![t] = "called"]
  /\ call' = [call EXCEPT ![t] = c]
  /\ result' = [result EXCEPT ![t] = Pending]
  /\ UNCHANGED latest

(* A call with a bad argument is refused at once. *)
Refuse(t) ==
  /\ phase[t] = "idle"
  /\ result' = [result EXCEPT ![t] = Status("kInvalidArgument")]
  /\ UNCHANGED <<latest, phase, call>>

Return(t, r) ==
  /\ phase' = [phase EXCEPT ![t] = "idle"]
  /\ result' = [result EXCEPT ![t] = r]
  /\ call' = [call EXCEPT ![t] = NoCall]

(* A Get answers with the row that is the latest one when it takes effect. *)
Get(t) ==
  /\ phase[t] = "called"
  /\ call[t].op = "Get"
  /\ Return(t, [status |-> "kOk", row |-> latest[call[t].key]])
  /\ UNCHANGED latest

(* A publish replaces the row of its key by a newer one of the same        *)
(* partition; the caller may learn of it later (PublishReturn).            *)
PublishInstall(t) ==
  LET c == call[t] IN
  /\ phase[t] = "called"
  /\ c.op = "PublishAndReport"
  /\ c.row.primary_key = c.key
  /\ IsValidSourcePosition(c.row)
  /\ latest[c.key] # NoRow => IsNewer(latest[c.key], c.row)
  /\ latest' = [latest EXCEPT ![c.key] = c.row]
  /\ \/ Return(t, Status("kTrue"))
     \/ phase' = [phase EXCEPT ![t] = "applied"] /\ UNCHANGED <<call, result>>

PublishReturn(t) ==
  /\ phase[t] = "applied"
  /\ Return(t, Status("kTrue"))
  /\ UNCHANGED latest

(* A publish of an old position, or of a position of another partition,    *)
(* leaves the row that is there.                                           *)
PublishKept(t) ==
  LET c == call[t] IN
  /\ phase[t] = "called"
  /\ c.op = "PublishAndReport"
  /\ latest[c.key] # NoRow
  /\ \/ /\ ClassifySourcePositionUpdate(latest[c.key], c.row)
             \in {"kStale", "kIdempotent"}
        /\ Return(t, Status("kFalse"))
     \/ /\ ClassifySourcePositionUpdate(latest[c.key], c.row) = "kPartitionError"
        /\ Return(t, Status("kFailedPrecondition"))
  /\ UNCHANGED latest

(* Giving up, and the reservation hook of the tests: no visible effect. *)
NoEffect(t) ==
  /\ phase[t] = "called"
  /\ call[t].op # "Get"
  /\ \/ \E s \in {"kUnavailable", "kExhausted"} : Return(t, Status(s))
     \/ /\ call[t].op = "ReserveSlotForTesting"
        /\ \E s \in {"kOk", "kFailedPrecondition"} : Return(t, Status(s))
  /\ UNCHANGED latest

Next ==
  \E t \in Threads :
    \/ \E c \in Calls : Begin(t, c)
    \/ Refuse(t)
    \/ Get(t)
    \/ PublishInstall(t)
    \/ PublishReturn(t)
    \/ PublishKept(t)
    \/ NoEffect(t)

Spec == Init /\ [][Next]_vars

=============================================================================
