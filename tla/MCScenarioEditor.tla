-------------------------- MODULE MCScenarioEditor --------------------------
(* A pipeline from the repository, whose only task lies in a file that a new *)
(* task would use and takes its template from the directory that the other   *)
(* scenario and the session, of up to two steps, will be saved to.           *)
EXTENDS ScenarioEditor

MCBase ==
  [base |-> [start |-> "Step1", pngs |-> {"Step2"},
             files |-> [Step2 |-> [name |-> "Step1", next |-> {},
                                   template |-> [dir |-> "mine", png |-> "Step1"]]]]]

MCSteps == <<"Step1", "Step2">>
=============================================================================
