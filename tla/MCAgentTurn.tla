----------------------------- MODULE MCAgentTurn -----------------------------
(* Instances of AgentTurn for TLC.                                         *)
EXTENDS AgentTurn

CONSTANTS m1, m2

MCKind == (m1 :> "text") @@ (m2 :> "voice")

(* The first message has as many words of support as of logistics; only a  *)
(* voice note without a text leaves the route to the model.                *)
MCHits ==
  (m1 :> [sales |-> 1, support |-> 1, logistics |-> 1]) @@
  (m2 :> [sales |-> 1, support |-> 0, logistics |-> 0])

MCBatches ==
  {<<"add_to_cart">>, <<"look", "look">>, <<"create_order", "escalate_to_human">>}

(* A reply with its marks, and marks alone.  At three words the four of    *)
(* the marks hide the likeness of a repeated reply; from twelve on they    *)
(* would not.                                                              *)
MCTexts ==
  {[words |-> {"which", "size", "please"}, marked |-> TRUE], [words |-> {}, marked |-> TRUE]}
MCMarks == {"sentiment", "neutral", "principle", "none"}

MCHandOver == {"connecting", "human"}
MCFallback == {"sorry", "problem"}
MCLoop == {"right", "help"}

=============================================================================
