-------------------------- MODULE MCCfgCompletion --------------------------
(* Instances of CfgCompletion for TLC.                                     *)
EXTENDS CfgCompletion, TLC

(* The completions BAL reports: the object came up, it is gone, the        *)
(* request failed, or "success" in a state nobody asked for.               *)
FewOutcomes  == {[status |-> "SUCCESS", state |-> "ACTIVE"],
                 [status |-> "SUCCESS", state |-> "NOT_CONFIGURED"]}
SomeOutcomes == FewOutcomes \cup {[status |-> "FAIL", state |-> "INACTIVE"]}
AllOutcomes  == [status : Status, state : States]

ThreadSymmetry == Permutations(Threads) \cup Permutations(Ids)
=============================================================================
