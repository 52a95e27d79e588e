----------------------------- MODULE MCEvidence -----------------------------
(* A small instance of EvidenceExchange for TLC: two gate runs publish where *)
(* an earlier bundle may be, and one reader copies and verifies it.          *)
EXTENDS EvidenceExchange, TLC

CONSTANTS v, w, e

(* Two bundles state the same outcome for the same subject, one does not. *)
MCOutcome == [b \in {v, w, e} |-> IF b = w THEN 2 ELSE 1]
=============================================================================
