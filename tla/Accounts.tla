------------------------------- MODULE Accounts -------------------------------
(***************************************************************************)
(* What is kept of accounts: the store that follows the stream, what is     *)
(* loaded when it is asked for, and the address lookup tables.  The three   *)
(* have no state in common.                                                 *)
(***************************************************************************)
EXTENDS AccountStore, AccountsOnDemand, AddressTables

(* AccountStore: what is read of an account at a commitment never gets      *)
(* older.  AddressTables: a table shrinks only by loads that cross, one that *)
(* was given up or two of one batch, or by an RPC node that is behind.      *)
NothingGoesBack == ReadsAdvance /\ ShrinksByCrossedLoads
==============================================================================
