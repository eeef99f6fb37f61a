---------------------------- MODULE AddressTables -----------------------------
(***************************************************************************)
(* AddressLookupTableStore: a cache of the lookup tables, reloaded for the  *)
(* transactions of a block before their accounts are resolved.  A table is  *)
(* its number of addresses.                                                 *)
(*                                                                         *)
(* What the RPC node answers is left open: that a table is not there, and a *)
(* table shorter than before, of a node that is behind or of another fork.  *)
(*                                                                         *)
(* A task asks for up to a hundred tables at once and stores them in turn;  *)
(* here it is a task for each, which has all its orders, and more.          *)
(***************************************************************************)
EXTENDS Integers, Sequences, FiniteSets

CONSTANTS
  Table,
  Modulus,      \* 256, the number of u8; a table has as many addresses at most
  BatchSize,    \* 1000, the tables asked for before they are waited for
  MaxLookups,   \* bound of the lookups of a block into one table
  MaxLoads      \* bound of the tasks

ASSUME TablesAssumption ==
  Modulus \in Nat \ {0} /\ BatchSize \in Nat \ {0} /\ MaxLookups \in Nat /\ MaxLoads \in Nat

VARIABLES
  tables,       \* addresses in the map, NoTable
  request,      \* of the block at work: the greatest index by table, Unused
  rest,         \* how often each table is still to be asked for
  round,        \* number of the batch that is started or waited for
  loads,        \* tasks: table, round, answer, whether behind, given up and done
  flawed        \* history: tables of this request with a load that was of no use

tableVars == <<tables, request, rest, round, loads, flawed>>

NoTable == -1
Unused == -1
Unread == -2
NoRequest == [t \in Table |-> Unused]
NoBlock == request = NoRequest
NoRest == [t \in Table |-> 0]

(* The map has what an older run has written to the binary file.            *)
TablesInit ==
  /\ tables \in [Table -> NoTable .. Modulus]
  /\ request = NoRequest /\ rest = NoRest /\ round = 0
  /\ loads = << >> /\ flawed = {}

(* Mutant: the index after the last address is taken for stored.             *)
NeedsReloadLate(t, index) == tables[t] = NoTable \/ index > tables[t] % Modulus

(* The size is taken as u8: a table that is full is always reloaded.         *)
NeedsReload(t, index) == tables[t] = NoTable \/ index >= tables[t] % Modulus

(* reload_if_necessary for a block: each lookup that needs it is an entry of *)
(* the list, also when its table is in the list already.                     *)
Reload(lookups, entries) ==
  /\ NoBlock /\ lookups # NoRequest
  /\ \A t \in Table :
       entries[t] > 0 <=> lookups[t] # Unused /\ NeedsReload(t, lookups[t])
  /\ request' = lookups /\ rest' = entries /\ flawed' = {}
  /\ UNCHANGED <<tables, round, loads>>

Loading == {n \in DOMAIN loads : ~loads[n].done}
Started == {n \in DOMAIN loads : loads[n].round = round}
OfBatch == Started \cap Loading

StartLoad(t) ==
  /\ rest[t] > 0 /\ Cardinality(Started) < BatchSize /\ Len(loads) < MaxLoads
  /\ rest' = [rest EXCEPT ![t] = @ - 1]
  /\ loads' = Append(loads, [table |-> t, round |-> round, answer |-> Unread,
                             behind |-> FALSE, late |-> FALSE, done |-> FALSE])
  /\ UNCHANGED <<tables, request, round, flawed>>

(* The answer has the table with `size` addresses or, NoTable, nothing of it. *)
Reply(n, size) ==
  /\ n \in Loading /\ loads[n].answer = Unread
  /\ LET t == loads[n].table IN
       /\ loads' = [loads EXCEPT ![n].answer = size, ![n].behind = size < tables[t]]
       /\ flawed' = IF size <= request[t] THEN flawed \cup {t} ELSE flawed
  /\ UNCHANGED <<tables, request, rest, round>>

Done(n) == loads' = [loads EXCEPT ![n].done = TRUE]

(* save_account, for what the answer has; a task that timed out goes on and  *)
(* saves as well.                                                            *)
SaveAccount(n) ==
  /\ n \in Loading /\ loads[n].answer # Unread
  /\ IF loads[n].answer = NoTable THEN UNCHANGED tables
     ELSE tables' = [tables EXCEPT ![loads[n].table] = loads[n].answer]
  /\ Done(n)
  /\ UNCHANGED <<request, rest, round, flawed>>

(* An error of the RPC node, or an account that is no table: the task panics. *)
Fail(n) ==
  /\ n \in Loading
  /\ flawed' = flawed \cup {loads[n].table}
  /\ Done(n)
  /\ UNCHANGED <<tables, request, rest, round>>

(* join_all, once all tasks of the batch are spawned                         *)
Joins == Started # {} /\ (rest = NoRest \/ Cardinality(Started) >= BatchSize)

JoinAll ==
  /\ Joins /\ OfBatch = {}
  /\ round' = round + 1
  /\ UNCHANGED <<tables, request, rest, loads, flawed>>

(* After a minute the caller goes on without the batch.                      *)
JoinTimedOut ==
  /\ Joins /\ OfBatch # {}
  /\ round' = round + 1
  /\ flawed' = flawed \cup {loads[n].table : n \in OfBatch}
  /\ loads' = [n \in DOMAIN loads |-> [loads[n] EXCEPT !.late = @ \/ n \in OfBatch]]
  /\ UNCHANGED <<tables, request, rest>>

(* get_accounts: all the indexes of a lookup or none.                        *)
Resolves(t) == request[t] < tables[t]
Reloaded == rest = NoRest /\ Started = {}

Resolve ==
  /\ ~NoBlock /\ Reloaded
  /\ request' = NoRequest /\ flawed' = {}
  /\ UNCHANGED <<tables, rest, round, loads>>

TablesNext ==
  \/ \E lookups \in [Table -> Unused .. Modulus - 1], entries \in [Table -> 0 .. MaxLookups] :
       Reload(lookups, entries)
  \/ \E t \in Table : StartLoad(t)
  \/ \E n \in 1 .. MaxLoads : SaveAccount(n) \/ Fail(n)
                           \/ \E size \in NoTable .. Modulus : Reply(n, size)
  \/ JoinAll \/ JoinTimedOut \/ Resolve

TablesSpec == TablesInit /\ [][TablesNext]_tableVars

------------------------------------------------------------------------------
LoadedLate(t) == \E n \in DOMAIN loads : loads[n].table = t /\ loads[n].late

(* Two lookups of a block have put a table twice into one batch.             *)
AskedTwice(t) == \E m, n \in Started : m # n /\ loads[m].table = t /\ loads[n].table = t

AnsweredBehind(t) == \E n \in OfBatch : loads[n].table = t /\ loads[n].behind

(* When a block resolves its lookups, those are lost only whose load was of  *)
(* no use - it failed or timed out, or the answer had no table or not the    *)
(* whole of it - or whose table an older load, given up in its time, has     *)
(* overwritten.                                                              *)
LookupsResolve ==
  Reloaded =>
    \A t \in Table : request[t] # Unused /\ ~Resolves(t) => t \in flawed \/ LoadedLate(t)

(* A stored table gets shorter only when a load was given up and its answer  *)
(* crosses another's, when two loads of one batch cross, or when the RPC     *)
(* node had less of the table than is stored.                                *)
ShrinksByCrossedLoads ==
  [][\A t \in Table : tables'[t] < tables[t] =>
       LoadedLate(t) \/ AskedTwice(t) \/ AnsweredBehind(t)]_tableVars
==============================================================================
