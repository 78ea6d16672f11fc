------------------------------ MODULE MCLocks ------------------------------
(***************************************************************************)
(* The two users of :global.trans/2: the top-ups of a faucet, and the      *)
(* cache of compiled schemas.  Their locks have different names, so a      *)
(* behaviour is one of the two, and the other has nothing to do.           *)
(***************************************************************************)
EXTENDS TopUp, SchemaCache

NothingToppedUp ==
  /\ minimum = [c \in Calls |-> CHOOSE m \in Minimums : TRUE]
  /\ start = CHOOSE b \in Balances : TRUE
  /\ locked = {} /\ receipts = FALSE
  /\ pc = [c \in Calls |-> "ok"]
  /\ used = [c \in Calls |-> 0] /\ before = [c \in Calls |-> 0]
  /\ holder = None /\ balance = start
  /\ pending = {} /\ reverted = {} /\ made = {} /\ gaveUp = {}
  /\ spends = MaxSpends

NothingCompiled ==
  /\ cache = NothingCached /\ inserter = Absent
  /\ place = [p \in Processes |-> "dead"]
  /\ key = [p \in Processes |-> Absent]
  /\ snapshot = [p \in Processes |-> NothingCached]
  /\ calls = [p \in Processes |-> 0]

LockInit ==
  \/ Init /\ NothingCompiled
  \/ CacheInit /\ NothingToppedUp

LockNext ==
  \/ Next /\ UNCHANGED cacheVars
  \/ CacheNext /\ UNCHANGED vars

LockSpec ==
  /\ LockInit /\ [][LockNext]_<<vars, cacheVars>>
  /\ Fairness /\ CacheFairness

=============================================================================
