----------------------------- MODULE MCSequencer -----------------------------
(* Sequencer on plans of two and of three commits. *)
EXTENDS Sequencer

Plan(commits, actions) ==
  [i \in DOMAIN commits |-> [commit |-> commits[i], action |-> actions[i]]]

(* A fold over a drop, a fold into an edit, a split after another order, a *)
(* fold of a later commit under an earlier one.                            *)
MCPlans ==
  {Plan(<<1, 2, 3>>, <<"pick", "drop", "fold">>),
   Plan(<<1, 2, 3>>, <<"edit", "fold", "pick">>),
   Plan(<<3, 1>>, <<"pick", "split">>),
   Plan(<<2, 1>>, <<"edit", "pick">>)}

(* A fold after a step that may be skipped. *)
FoldPlans == {Plan(<<1, 2, 3>>, <<"pick", "pick", "fold">>)}
=============================================================================
