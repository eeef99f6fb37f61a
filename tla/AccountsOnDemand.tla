--------------------------- MODULE AccountsOnDemand --------------------------
(***************************************************************************)
(* accounts-on-demand/src/accounts_on_demand.rs: an account or a program   *)
(* that the store does not have is loaded from RPC when it is asked for,   *)
(* and added to what the geyser sources are subscribed to.  The first call *)
(* for an account loads it, calls meanwhile wait for that one, and later   *)
(* calls expect the account from the subscription only.                    *)
(*                                                                         *)
(* A call is a task.  All that is kept of the store is which accounts have *)
(* data at which commitment, and of the commitments a lower and a higher.  *)
(***************************************************************************)
EXTENDS Integers

CONSTANTS
  Caller,   \* concurrent calls of get_account and get_program_accounts
  Key,      \* accounts that exist on the chain, all of any program
  Ghost,    \* accounts that do not
  Program,  \* programs
  MaxTries  \* RETRY_FETCHING_ACCOUNT, 10

ASSUME DemandAssumption ==
  /\ Key \cap Ghost = {} /\ (Key \cup Ghost) \cap Program = {}
  /\ MaxTries \in Nat \ {0}

Commitment == {0, 1}
Account == Key \cup Ghost

VARIABLES
  stored,     \* pairs of account and commitment that have data
  loading,    \* accounts_in_loading
  subscribed, \* accounts_subscribed
  filters,    \* program_filters: how often each program is in it
  wanted,     \* what the subscription manager was told last
  calls,      \* where each call is
  outcome,    \* history: what became of the load of each account
  behind      \* history: keys that an older refresh has dropped from wanted

odVars == <<stored, loading, subscribed, filters, wanted, calls, outcome, behind>>

NoCall == [at |-> "idle"]
At(c, place) == calls[c].at = place
Goes(c, place) == calls' = [calls EXCEPT ![c].at = place]
Returns(c, answer) == Goes(c, answer)
Reached(level) == 0 .. level

DemandInit ==
  /\ stored = {}
  /\ loading = {}
  /\ subscribed = {}
  /\ filters = [p \in Program |-> 0]
  /\ wanted = {}
  /\ calls = [c \in Caller |-> NoCall]
  /\ outcome = [a \in Account |-> "none"]
  /\ behind = {}

(* The accounts that are subscribed to come from the stream, at any time.   *)
Stream(a) ==
  /\ a \in Key
  /\ a \in wanted \/ wanted \cap Program # {}
  /\ \E level \in Commitment : stored' = stored \cup ({a} \X Reached(level))
  /\ UNCHANGED <<loading, subscribed, filters, wanted, calls, outcome, behind>>

(* A call looks into the store first.                                       *)
Ask(c, key, level) ==
  /\ calls[c] = NoCall
  /\ calls' = [calls EXCEPT ![c] =
       [key |-> key, level |-> level, tries |-> 0, sees |-> {},
        at |-> IF key \in Account
               THEN IF <<key, level>> \in stored THEN "found" ELSE "lock"
               ELSE IF stored # {} THEN "found" ELSE "filters"]]
  /\ UNCHANGED <<stored, loading, subscribed, filters, wanted, outcome, behind>>

Return(c) ==
  /\ calls[c].at \in {"found", "null", "timeout"}
  /\ calls' = [calls EXCEPT ![c] = NoCall]
  /\ UNCHANGED <<stored, loading, subscribed, filters, wanted, outcome, behind>>

(* Under the lock of accounts_in_loading: wait for the call that loads the  *)
(* account, give up because it was loaded before, or load it.               *)
Inspect(c) ==
  LET a == calls[c].key
  IN  /\ At(c, "lock")
      /\ \/ /\ a \in loading
            /\ Goes(c, "joining")
            /\ UNCHANGED <<loading, subscribed>>
         \/ /\ a \in subscribed \ loading
            /\ Returns(c, "null")
            /\ UNCHANGED <<loading, subscribed>>
         \/ /\ a \notin subscribed \cup loading
            /\ loading' = loading \cup {a}
            /\ subscribed' = subscribed \cup {a}
            /\ Goes(c, "refresh")
      /\ UNCHANGED <<stored, filters, wanted, outcome, behind>>

(* The lock is released before the call begins to wait, for 10 seconds.     *)
Join(c) ==
  /\ At(c, "joining")
  /\ Goes(c, "waiting")
  /\ UNCHANGED <<stored, loading, subscribed, filters, wanted, outcome, behind>>

(* Mutant: without the timeout.                                             *)
WaitEndsNotified(c) ==
  /\ At(c, "notified")
  /\ Returns(c, IF <<calls[c].key, calls[c].level>> \in stored THEN "found" ELSE "null")
  /\ UNCHANGED <<stored, loading, subscribed, filters, wanted, outcome, behind>>

WaitEnds(c) ==
  /\ \/ At(c, "waiting") /\ Returns(c, "timeout")
     \/ At(c, "notified")
        /\ Returns(c, IF <<calls[c].key, calls[c].level>> \in stored
                      THEN "found" ELSE "null")
  /\ UNCHANGED <<stored, loading, subscribed, filters, wanted, outcome, behind>>

(* Mutant: the accounts are left out of the subscription.                   *)
RefreshReadPrograms(c) ==
  /\ At(c, "refresh")
  /\ calls' = [calls EXCEPT ![c].at = "send",
                            ![c].sees = {p \in Program : filters[p] > 0}]
  /\ UNCHANGED <<stored, loading, subscribed, filters, wanted, outcome, behind>>

(* refresh_subscription collects what is subscribed to, and sends it.       *)
RefreshRead(c) ==
  /\ At(c, "refresh")
  /\ calls' = [calls EXCEPT ![c].at = "send",
       ![c].sees = {p \in Program : filters[p] > 0} \cup subscribed]
  /\ UNCHANGED <<stored, loading, subscribed, filters, wanted, outcome, behind>>

RefreshSend(c) ==
  /\ At(c, "send")
  /\ calls' = [calls EXCEPT ![c].at = "fetch", ![c].sees = {}]
  /\ wanted' = calls[c].sees
  /\ behind' = (behind \cup wanted) \ wanted'
  /\ UNCHANGED <<stored, loading, subscribed, filters, outcome>>

(* RPC answers with the account, answers that there is none, or fails, and  *)
(* is asked again up to MaxTries times.                                     *)
FetchAccount(c) ==
  LET a == calls[c].key
  IN  /\ At(c, "fetch")
      /\ a \in Account
      /\ \/ /\ a \in Key
            /\ stored' = stored \cup ({a} \X Reached(calls[c].level))
            /\ outcome' = [outcome EXCEPT ![a] = "stored"]
            /\ Goes(c, "unload")
         \/ /\ a \in Ghost
            /\ outcome' = [outcome EXCEPT ![a] = "absent"]
            /\ Goes(c, "unload")
            /\ UNCHANGED stored
         \/ /\ LET tries == calls[c].tries + 1
               IN  /\ calls' = [calls EXCEPT ![c].tries = tries,
                        ![c].at = IF tries < MaxTries THEN "fetch" ELSE "unload"]
                   /\ outcome' = IF tries < MaxTries THEN outcome
                                 ELSE [outcome EXCEPT ![a] = "failed"]
            /\ UNCHANGED stored
      /\ UNCHANGED <<loading, subscribed, filters, wanted, behind>>

(* The account leaves the loading ones, and those that wait are notified.   *)
Unload(c) ==
  LET a == calls[c].key
  IN  /\ At(c, "unload")
      /\ loading' = loading \ {a}
      /\ calls' = [d \in Caller |->
           IF d = c
           THEN [calls[c] EXCEPT !.at = IF outcome[a] = "stored" THEN "found" ELSE "null"]
           ELSE IF At(d, "waiting") /\ calls[d].key = a
           THEN [calls[d] EXCEPT !.at = "notified"] ELSE calls[d]]
      /\ UNCHANGED <<stored, subscribed, filters, wanted, outcome, behind>>

(* A program: its filter is looked for, and added under another lock.       *)
LookForFilter(c) ==
  /\ At(c, "filters")
  /\ IF filters[calls[c].key] > 0 THEN Returns(c, "null") ELSE Goes(c, "push")
  /\ UNCHANGED <<stored, loading, subscribed, filters, wanted, outcome, behind>>

PushFilter(c) ==
  /\ At(c, "push")
  /\ filters' = [filters EXCEPT ![calls[c].key] = @ + 1]
  /\ Goes(c, "refresh")
  /\ UNCHANGED <<stored, loading, subscribed, wanted, outcome, behind>>

FetchProgram(c) ==
  /\ At(c, "fetch")
  /\ calls[c].key \in Program
  /\ \/ /\ stored' = stored \cup (Key \X Reached(calls[c].level))
        /\ Returns(c, "found")
     \/ Returns(c, "null") /\ UNCHANGED stored
  /\ UNCHANGED <<loading, subscribed, filters, wanted, outcome, behind>>

Step(c) ==
  \/ Return(c) \/ Inspect(c) \/ Join(c) \/ WaitEnds(c) \/ RefreshRead(c)
  \/ RefreshSend(c) \/ FetchAccount(c) \/ Unload(c) \/ LookForFilter(c)
  \/ PushFilter(c) \/ FetchProgram(c)

DemandNext ==
  \/ \E a \in Account : Stream(a)
  \/ \E c \in Caller :
       \/ \E key \in Account \cup Program, level \in Commitment : Ask(c, key, level)
       \/ Step(c)

(* No lock is held across an await, the wait and the tries are bounded: a   *)
(* call always goes on.                                                     *)
DemandFairness == \A c \in Caller : WF_odVars(Step(c))

DemandSpec == DemandInit /\ [][DemandNext]_odVars /\ DemandFairness

------------------------------------------------------------------------------
CallState ==
  [key : Account \cup Program, level : Commitment, tries : Nat,
   sees : SUBSET (Account \cup Program),
   at : {"lock", "joining", "waiting", "notified", "filters", "push", "refresh",
         "send", "fetch", "unload", "found", "null", "timeout"}]

DemandTypeOK ==
  /\ stored \subseteq Key \X Commitment
  /\ loading \subseteq subscribed /\ subscribed \subseteq Account
  /\ filters \in [Program -> Nat]
  /\ wanted \subseteq Account \cup Program
  /\ behind \subseteq Account \cup Program
  /\ DOMAIN calls = Caller /\ \A c \in Caller : calls[c] \in CallState \cup {NoCall}
  /\ outcome \in [Account -> {"none", "stored", "absent", "failed"}]

Loads(c, a) == calls[c] # NoCall /\ calls[c].key = a
               /\ calls[c].at \in {"refresh", "send", "fetch", "unload"}

(* An account is loaded by one call at a time, and that is the call that    *)
(* will take it from accounts_in_loading again; an account that has been    *)
(* loaded is never loaded a second time.                                    *)
OneLoader ==
  \A a \in Account :
    /\ a \in loading <=> \E c \in Caller : Loads(c, a)
    /\ \A c, d \in Caller : Loads(c, a) /\ Loads(d, a) => c = d
    /\ \A c \in Caller : Loads(c, a) /\ calls[c].at # "unload" => outcome[a] = "none"

(* A call that was notified finds what the load has stored, or the load has *)
(* failed or has stored it for a lower commitment than this call asks for.  *)
NotifiedAfterStored ==
  \A c \in Caller : At(c, "notified") =>
    LET a == calls[c].key
    IN  /\ outcome[a] # "none"
        /\ outcome[a] = "stored" => <<a, 0>> \in stored

(* Whatever is subscribed to is in what the manager was told, as soon as    *)
(* the refresh of the call that added it is over, unless a refresh that had *)
(* read the subscriptions before was sent after it.                         *)
AddedIsWanted ==
  \A a \in subscribed :
    a \in wanted \cup behind \/ \E c \in Caller : Loads(c, a) /\ calls[c].at \in {"refresh", "send"}

(* One call loads an account, those that wait find it stored, and what is   *)
(* subscribed to is in what the manager was told.                           *)
SubscribedIsWanted ==
  DemandTypeOK /\ OneLoader /\ NotifiedAfterStored /\ AddedIsWanted

(* Comment at accounts_on_demand.rs:148: an account that is not loading and *)
(* is subscribed to "was already tried to be loaded but does not exists".   *)
(* It may have been loaded just now: no run checks this.                    *)
NullMeansAbsent ==
  [][\A c \in Caller : Inspect(c) /\ calls'[c].at = "null"
       => <<calls[c].key, calls[c].level>> \notin stored]_odVars

(* Every call returns: found, not found or timed out, also one that begins  *)
(* to wait just after the others were notified.                             *)
CallsReturn == \A c \in Caller : calls[c] # NoCall ~> calls[c] = NoCall
==============================================================================
