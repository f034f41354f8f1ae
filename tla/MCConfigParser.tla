-------------------------- MODULE MCConfigParser ----------------------------
(* Texts for TLC: every short text over two small alphabets, and every     *)
(* short sequence of the phrases a configuration that names ports has.     *)
EXTENDS ConfigParser
LOCAL SE == INSTANCE SequencesExt

Blocks == {"foo", " ", ";", "{", "}", "#", "\n"}
Quotes == {"foo", " ", ";", "'", "\"", "\\", "n"}

Phrases == {<<"port", " ", "80", ";">>, <<"port", "\t", "0", ";">>, <<"port", "\n", "70000", ";">>,
            <<"port", " ", "-1", ";">>, <<"port", " ", "foo", ";">>,
            <<"foo", "{">>, <<"}">>}

SomePieces == Blocks \union Quotes \union UNION {SE!ToSet(p) : p \in Phrases} \union {"\r", "t"}

ShortTexts == SE!SeqOf(Blocks, 5) \union SE!SeqOf(Quotes, 5)
                \union {SE!FlattenSeq(s) : s \in SE!SeqOf(Phrases, 4)}

SomeNumbers == [n \in {"80", "0", "70000", "-1"} |->
                  CASE n = "80" -> 80 [] n = "0" -> 0 [] n = "70000" -> 70000 [] n = "-1" -> -1]
=============================================================================
