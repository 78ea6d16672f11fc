--------------------------- MODULE MCTransactions ---------------------------
(***************************************************************************)
(* The two ways to send a transaction: execute_trx/3 to an Ethereum node,  *)
(* and send_and_confirm/2 to a Solana cluster.  They share nothing, so a   *)
(* behaviour is one of the two, and the other has nothing to do.           *)
(***************************************************************************)
EXTENDS Submission, SendAndConfirm

NothingSubmitted ==
  /\ pc = [c \in Calls |-> "done"] /\ left = [c \in Calls |-> 0]
  /\ contract = [c \in Calls |-> {Signer}]
  /\ fee = [c \in Calls |-> None] /\ nonce = [c \in Calls |-> None]
  /\ answer = [c \in Calls |-> None] /\ outcome = [c \in Calls |-> None]
  /\ reason = [c \in Calls |-> None] /\ before = [c \in Calls |-> {}]
  /\ wire = {} /\ pool = {} /\ chain = <<>> /\ displaced = {}

NothingAwaited ==
  /\ target = "finalized"
  /\ stage = "done" /\ now = 0 /\ since = 0 /\ sent = Unset /\ deadline = Unset
  /\ reply = Unset /\ result = "error"
  /\ taken = FALSE /\ status = Unknown /\ settled = Unset

SendInit ==
  \/ Init /\ NothingAwaited
  \/ ConfirmInit /\ NothingSubmitted

SendNext ==
  \/ Next /\ UNCHANGED confirmVars
  \/ ConfirmNext /\ UNCHANGED vars

SendSpec ==
  /\ SendInit /\ [][SendNext]_<<vars, confirmVars>>
  /\ Fairness /\ WF_confirmVars(Call) /\ WF_confirmVars(Tick)

=============================================================================
