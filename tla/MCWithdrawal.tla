---------------------------- MODULE MCWithdrawal ----------------------------
(* The instance: model values for contracts and tabs, given in the .cfg files. *)
EXTENDS Withdrawal
=============================================================================
