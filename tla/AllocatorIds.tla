---------------------------- MODULE AllocatorIds ----------------------------
(***************************************************************************)
(* SafeIibAllocator::initialize: every (re)initialised allocator takes an  *)
(* id from a 16-bit counter that all threads share.  Every access to the   *)
(* counter is atomic, but an initialisation makes three or four of them,   *)
(* and those of different threads interleave.                              *)
(***************************************************************************)
EXTENDS Integers, Threads

CONSTANTS
  IdCnt,     \* values of the counter (2^16)
  MaxTicks   \* bound: increments of the counter

ASSUME IdCntAssumption == IdCnt \in Nat \ {0, 1}
ASSUME MaxTicksAssumption == MaxTicks \in Nat

VARIABLES
  allocatorIDBase,  \* the shared counter
  allocatorID,      \* thread -> id of its allocator
  pc,               \* thread -> where in initialize it is
  ticks,            \* history: increments so far
  from,             \* history: thread -> tick of its first increment
  issued            \* history: [id, from, to] of each finished initialisation

idsVars == <<allocatorIDBase, allocatorID, pc, ticks, from, issued>>

Id == 0 .. IdCnt - 1

IdsInit ==
  /\ allocatorIDBase = 0
  /\ allocatorID = [t \in Thread |-> 0]
  /\ pc = [t \in Thread |-> "out"]
  /\ ticks = 0
  /\ from = [t \in Thread |-> 0]
  /\ issued = {}

(* A mistaken counter that is wider than an id. *)
IncrementWide ==
  /\ ticks < MaxTicks
  /\ allocatorIDBase' = allocatorIDBase + 1
  /\ ticks' = ticks + 1

(* ++allocatorIDBase *)
Increment ==
  /\ ticks < MaxTicks
  /\ allocatorIDBase' = (allocatorIDBase + 1) % IdCnt
  /\ ticks' = ticks + 1

Goto(t, label) == pc' = [pc EXCEPT ![t] = label]

begin(t) ==
  /\ pc[t] = "out"
  /\ Increment
  /\ from' = [from EXCEPT ![t] = ticks + 1]
  /\ Goto(t, "check")
  /\ UNCHANGED <<allocatorID, issued>>

(* A mistaken check that takes any value. *)
checkNothing(t) ==
  /\ pc[t] = "check"
  /\ Goto(t, "load")
  /\ UNCHANGED <<allocatorIDBase, allocatorID, ticks, from, issued>>

check(t) ==
  /\ pc[t] = "check"
  /\ Goto(t, IF allocatorIDBase = 0 THEN "skipZero" ELSE "load")
  /\ UNCHANGED <<allocatorIDBase, allocatorID, ticks, from, issued>>

skipZero(t) ==
  /\ pc[t] = "skipZero"
  /\ Increment
  /\ Goto(t, "load")
  /\ UNCHANGED <<allocatorID, from, issued>>

(* A mistaken load that keeps an id the allocator already has. *)
loadOnce(t) ==
  /\ pc[t] = "load"
  /\ allocatorID' = [allocatorID EXCEPT
       ![t] = IF @ = 0 THEN allocatorIDBase ELSE @]
  /\ issued' = issued
       \union {[id |-> allocatorID'[t], from |-> from[t], to |-> ticks]}
  /\ Goto(t, "out")
  /\ UNCHANGED <<allocatorIDBase, ticks, from>>

load(t) ==
  /\ pc[t] = "load"
  /\ allocatorID' = [allocatorID EXCEPT ![t] = allocatorIDBase]
  /\ issued' = issued
       \union {[id |-> allocatorIDBase, from |-> from[t], to |-> ticks]}
  /\ Goto(t, "out")
  /\ UNCHANGED <<allocatorIDBase, ticks, from>>

IdsNext == \E t \in Thread : begin(t) \/ check(t) \/ skipZero(t) \/ load(t)

IdsSpec == IdsInit /\ [][IdsNext]_idsVars

-----------------------------------------------------------------------------
(* Every variable has its shape. *)
IdsTypeOK ==
  /\ allocatorIDBase \in Id
  /\ allocatorID \in [Thread -> Id]
  /\ pc \in [Thread -> {"out", "check", "skipZero", "load"}]
  /\ ticks \in 0 .. MaxTicks
  /\ from \in [Thread -> 0 .. MaxTicks]
  /\ issued \subseteq [id : Id, from : 1 .. MaxTicks, to : 1 .. MaxTicks]

Follows(x, y) == x.to < y.from

(* Two initialisations that did not overlap in time got different ids, as  *)
(* long as the counter did not go all the way round between them, whatever *)
(* the other threads did meanwhile.  (Overlapping ones may get the same.)  *)
DistinctUnlessOverlapping ==
  \A x, y \in issued : Follows(x, y) /\ y.to - x.to < IdCnt => x.id # y.id

(* The id 0, which initialize tries to skip, is given only to an           *)
(* initialisation during which another thread moved the counter.           *)
ZeroOnlyIfRaced == \A x \in issued : x.id = 0 => x.from < x.to
=============================================================================
