--------------------------- MODULE MCApiHandler ----------------------------
(* Small trees for TLC: the constants of ApiHandler's runs.                *)
EXTENDS ApiHandler, TLC

CONSTANTS w1, w2, w3, a, ab, empty
TwoWorkers == {w1, w2}
ThreeWorkers == {w1, w2, w3}
WorkerSymmetry == Permutations(Workers)
LowInt == -1

(* One collection and the first of its entities.                           *)
OneWord == {a, empty}
OneShort == [c \in OneWord \union Int32 |-> empty]
FlatTargets == [m \in Methods |-> CASE m = "POST" -> {<<a>>}
                                    [] m = "PUT"  -> {<<a, 1>>}
                                    [] OTHER      -> {<<a>>, <<a, 1>>}]

(* A collection in the place of an entity of another one.                  *)
NestedTargets == [m \in Methods |-> CASE m = "POST"   -> {<<a>>, <<a, 1>>}
                                      [] m = "PUT"    -> {<<a>>, <<a, 1>>}
                                      [] m = "DELETE" -> {<<>>, <<a>>, <<a, 1>>}
                                      [] m = "GET"    -> {<<a>>, <<a, 1>>}
                                      [] OTHER        -> {<<a>>}]

(* Two collections, one named as the other with a character more.          *)
TwoWords == {a, ab, empty}
TwoShort == [c \in TwoWords \union Int32 |-> IF c = ab THEN a ELSE empty]
=============================================================================
