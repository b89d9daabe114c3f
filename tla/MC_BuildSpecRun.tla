---------------------------- MODULE MC_BuildSpecRun ----------------------------
(* Build specs: two in the user's own project, with a store plugin the user *)
(* has installed and with a generated one; two in a new project, one that   *)
(* names rows the user has and keeps a failed test, and one of a user who   *)
(* has no default project yet.                                              *)
EXTENDS BuildSpecRun, TLC

Shape == [valid |-> TRUE, dryRun |-> FALSE, ownProject |-> FALSE, hasDefault |-> TRUE,
          keepOnFailure |-> FALSE, gateways |-> << >>, plugins |-> << >>, installed |-> {},
          workflows |-> 1, resources |-> 0]

InOwnProject == [Shape EXCEPT !.ownProject = TRUE, !.plugins = <<"store">>,
                              !.installed = {1}, !.resources = 1]
Adopting == [Shape EXCEPT !.gateways = <<"existing">>, !.plugins = <<"store">>,
                          !.keepOnFailure = TRUE]
Generating == [Shape EXCEPT !.ownProject = TRUE, !.plugins = <<"generated">>]
First == [Shape EXCEPT !.hasDefault = FALSE, !.gateways = <<"new">>]

AllSpecs == {InOwnProject, Adopting, Generating, First,
             [Shape EXCEPT !.dryRun = TRUE], [Shape EXCEPT !.valid = FALSE]}

Symmetry == Permutations(Attempts)
================================================================================
