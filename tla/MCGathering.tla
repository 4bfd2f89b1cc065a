---------------------------- MODULE MCGathering ----------------------------
EXTENDS Gathering

(* Resources without a language, with a text only in the second one, and   *)
(* with a text in the first.                                               *)
MCResources ==
  { [languages |-> <<>>, texts |-> <<>>],
    [languages |-> <<"de", "en">>, texts |-> [en |-> "Editor"]],
    [languages |-> <<"en", "de">>, texts |-> [en |-> "Editor"]] }

(* What the engine may say of a container without a limit.  That it has no *)
(* count from before is the case in which the fields of it do not come.    *)
MCReplies ==
  { [memory |-> 2, limit |-> 0, total |-> 5, pre_total |-> 4, system |-> 8, pre_system |-> 6] }
=============================================================================
