----------------------------- MODULE MCTsvSplit -----------------------------
(* Small instances of TsvSplit: every line of up to MaxLine characters over   *)
(* the quote, the tab and one letter, and every encoding of short fields.     *)
EXTENDS TsvSplit
=============================================================================
