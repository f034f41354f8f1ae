--------------------------- MODULE MCMemeHandler ---------------------------
(* Small galleries for TLC: the constants of MemeHandler's runs.           *)
EXTENDS MemeHandler, TLC

CONSTANTS w1, w2, w3
TwoWorkers   == {w1, w2}
ThreeWorkers == {w1, w2, w3}
WorkerSymmetry == Permutations(Workers)

(* The form offers decimal numbers, and plain captions name no column.     *)
OneImage == {"0"}
OneImageCanonical == [i \in {"0"} |-> i]
PlainTexts == {"a", "b"}
NoColumns == [t \in {} |-> "top"]

(* Captions that are also words of the schema, images written with zeros.  *)
ColumnTexts == {"a", "top"}
TopColumn == [t \in {"top"} |-> "top"]
PaddedImages == {"0", "007"}
PaddedCanonical == [i \in PaddedImages |-> IF i = "007" THEN "7" ELSE i]
QuotedTexts == {"a", "quote"}
RejectQuote == {"quote"}
=============================================================================
