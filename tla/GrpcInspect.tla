------------------------------ MODULE GrpcInspect -----------------------------
(***************************************************************************)
(* grpc_inspect.rs, debugtask_blockstream_confirmation_sequence: a task    *)
(* that listens to the blocks and warns of those that come twice or out of *)
(* the order of their commitments.  From time to time it forgets what it   *)
(* has seen of old slots.                                                  *)
(***************************************************************************)
EXTENDS Integers

CONSTANTS
  Block,    \* blocks
  SlotOf,   \* their slots
  Period,   \* blocks between two cleanups, 500
  Depth,    \* slots that are remembered, 200
  Wrapped,  \* stands for 2^64, more than any slot
  MaxHeard  \* bound of the blocks that come

ASSUME InspectAssumption ==
  SlotOf \in [Block -> Nat] /\ Depth \in Nat /\ Wrapped \in Nat

VARIABLES
  saw,           \* saw_processed_at, saw_confirmed_at, saw_finalized_at
  cleanupBefore, \* cleanup_before_slot
  sinceCleanup,  \* slots_since_last_cleanup
  inspected,     \* history: number of blocks received
  complete,      \* history: what saw would be without cleanups
  warned,        \* history: the warnings about the last block
  due,           \* history: those it deserved, and whether it was old
  oldest         \* history: the highest cleanup_before_slot so far

inspectVars == <<saw, cleanupBefore, sinceCleanup, inspected, complete, warned, due, oldest>>

BlockLevel == {"processed", "confirmed", "finalized"}

InspectInit ==
  /\ saw = [c \in BlockLevel |-> {}]
  /\ cleanupBefore = 0
  /\ sinceCleanup = 0
  /\ inspected = 0
  /\ complete = saw
  /\ warned = {}
  /\ due = [warnings |-> {}, old |-> FALSE]
  /\ oldest = 0

Before(c) == CASE c = "processed" -> {}
               [] c = "confirmed" -> {"processed"}
               [] c = "finalized" -> {"processed", "confirmed"}
After(c) == CASE c = "processed" -> {"confirmed", "finalized"}
              [] c = "confirmed" -> {"finalized"}
              [] c = "finalized" -> {}

(* The rules: not twice, not without the lower commitments, not after the   *)
(* higher ones.                                                             *)
Warnings(b, c, seen) ==
  {<<"twice", d>> : d \in {e \in {c} : b \in seen[e]}}
  \cup {<<"without", d>> : d \in {e \in Before(c) : b \notin seen[e]}}
  \cup {<<"after", d>> : d \in {e \in After(c) : b \in seen[e]}}

IsKept(b) == SlotOf[b] >= cleanupBefore

(* slot - 200 of unsigned numbers, in a release build: for a lower slot it  *)
(* wraps around, and the task looks at nothing any more.                    *)
CleanupPoint(slot) == IF slot >= Depth THEN slot - Depth ELSE Wrapped + slot - Depth

(* The cleanup goes by the point set at the cleanup before it.              *)
Remember(b, c) ==
  LET seen == [saw EXCEPT ![c] = @ \cup {b}]
  IN  IF sinceCleanup < Period
      THEN /\ sinceCleanup' = sinceCleanup + 1
           /\ saw' = seen
           /\ UNCHANGED <<cleanupBefore, oldest>>
      ELSE /\ sinceCleanup' = 0
           /\ saw' = [d \in BlockLevel |-> {x \in seen[d] : IsKept(x)}]
           /\ cleanupBefore' = CleanupPoint(SlotOf[b])
           /\ oldest' = IF cleanupBefore' > oldest THEN cleanupBefore' ELSE oldest

(* Any block at any commitment; what is older than the cleanup point is not *)
(* looked at.  Blocks that are missed do not come.                          *)
ReceiveBlock(b, c) ==
  /\ inspected < MaxHeard
  /\ inspected' = inspected + 1
  /\ SlotOf[b] >= cleanupBefore
  /\ warned' = Warnings(b, c, saw)
  /\ due' = [warnings |-> Warnings(b, c, complete), old |-> SlotOf[b] < oldest]
  /\ complete' = [complete EXCEPT ![c] = @ \cup {b}]
  /\ Remember(b, c)

InspectNext == \E b \in Block, c \in BlockLevel : ReceiveBlock(b, c)

InspectSpec == InspectInit /\ [][InspectNext]_inspectVars

------------------------------------------------------------------------------
(* However slots come and go, the task warns of what it has received, and   *)
(* of nothing else: forgetting makes a difference only for a block that is  *)
(* older than a cleanup point, as that may move back.                       *)
WarningsAreJustified == due.old \/ warned = due.warnings
==============================================================================
