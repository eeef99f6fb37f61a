-------------------------- MODULE RecentBlockhashes --------------------------
(***************************************************************************)
(* What the block information store promises to the rest of lite-rpc: a    *)
(* register per blockhash that holds the highest commitment added so far,  *)
(* and that may be emptied only when the blockhash can no longer be used   *)
(* by a transaction.  BlockInformationStore implements it.                 *)
(***************************************************************************)
EXTENDS Naturals

CONSTANTS
  Hash,       \* blockhashes
  ValidUpTo,  \* the height up to which each blockhash may be used
  HeightOf,   \* the height of each block
  Genesis     \* the block the store is created with

Commitment == 1..3   \* processed, confirmed, finalized
Absent     == 0
Final      == 3

VARIABLES
  store,      \* the highest commitment added for each blockhash, or Absent
  finalized   \* the blocks announced as finalized so far

absVars == <<store, finalized>>

AbsInit ==
  /\ store = [h \in Hash |-> IF h = Genesis THEN Final ELSE Absent]
  /\ finalized = {Genesis}

(* A finalized block is heard of; its addition may take effect later.      *)
HearFinalized(h) ==
  /\ finalized' = finalized \union {h}
  /\ UNCHANGED store

(* An addition takes effect at once: the higher commitment stays.          *)
Add(h, c) ==
  /\ c = Final => h \in finalized
  /\ store' = [store EXCEPT ![h] = IF c > @ THEN c ELSE @]
  /\ UNCHANGED finalized

(* Some blockhashes that can no longer be used are dropped.                *)
Forget(gone) ==
  /\ \A h \in gone : \E f \in finalized : ValidUpTo[h] < HeightOf[f]
  /\ store' = [h \in Hash |-> IF h \in gone THEN Absent ELSE store[h]]
  /\ UNCHANGED finalized

AbsNext ==
  \/ \E h \in Hash : HearFinalized(h)
  \/ \E h \in Hash, c \in Commitment : Add(h, c)
  \/ \E gone \in SUBSET Hash : Forget(gone)

AbsSpec == AbsInit /\ [][AbsNext]_absVars
=============================================================================
