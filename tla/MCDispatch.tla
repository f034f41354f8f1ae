---------------------------- MODULE MCDispatch ------------------------------
(* Configurations and requests for TLC.                                    *)
EXTENDS Dispatch
LOCAL SE == INSTANCE SequencesExt

Located(path, name, block) == Statement(<< <<"location">>, path, <<name>> >>, block)
RootIs(path) == <<Statement(<< <<"root">>, path >>, NoBlock)>>
Images == << Statement(<< <<"memes_created_root">>, <<"/", "m">> >>, NoBlock),
             Statement(<< <<"images_root">>, <<"/", "i">> >>, NoBlock),
             Statement(<< <<"html_root">>, <<"/", "h">> >>, NoBlock) >>

(* The root as the configurations of the server name it: "../r". *)
AboveHere == <<".", ".", "/", "r">>

CompleteConfig ==
  << << Statement(<< <<"port">>, <<"80">> >>, NoBlock),
        Located(<<"/">>, "EchoHandler", 2),
        Located(<<"/", "a">>, "StaticHandler", 3),
        Located(<<"/", "a", "/", "b", "/", "/">>, "EchoHandler", NoBlock),
        Located(<<"/", "b", "/">>, "HealthHandler", 2),
        Located(<<"/", "c">>, "ErrorHandler", 2) >>,
     << >>, RootIs(AboveHere) >>

(* The root is static, the handlers with data have a right and a wrong     *)
(* block, "/b" is configured twice.                                        *)
DataConfig ==
  << << Located(<<"/">>, "StaticHandler", 2),
        Located(<<"/", "a">>, "ApiHandler", 2),
        Located(<<"/", "a", "/", "b">>, "ApiHandler", 3),
        Located(<<"/", "b">>, "EchoHandler", 3),
        Located(<<"/", "b", "/">>, "MemeHandler", 4),
        Located(<<"/", "c">>, "MemeHandler", 2) >>,
     RootIs(<<"/", "r">>), << >>, Images >>

(* No location "/", an unknown handler, locations without a block.         *)
PartialConfig ==
  << << Located(<<"/", "a">>, "StaticHandler", NoBlock),
        Located(<<"/", "b">>, "Unknown", 2),
        Located(<<"/", "c">>, "HealthHandler", NoBlock),
        Located(<<"/", "c", "/", "a">>, "StaticHandler", 2) >>,
     << >> >>

SomeConfigs == {CompleteConfig, DataConfig, PartialConfig, << << >> >>}

(* A target and a field that fill the buffer, a tail that completes both.  *)
LongName == <<"/">> \o [i \in 1..(Capacity - 5) |-> "a"]
LongTarget == <<"GET", " ", "/", "a">> \o LongName
LongField == <<"GET", " ", "/", " ", "HTTP/1.1", "\r", "\n">>
             \o [i \in 1..(Capacity - 7) |-> IF i = Capacity - 7 THEN ":" ELSE "N"]
EndOfRequest == <<"a", " ", "HTTP/1.1", "\r", "\n", "\r", "\n">>

(* The server runs in "/w"; beside it the root "/r", with files in and     *)
(* under it, one beside it whose name starts like it, and one outside.     *)
WorkingDirectory == << <<"w">> >>
SomeFiles == { << <<"r">>, <<"a">> >>, << <<"r">>, <<"c">>, <<"a">> >>, << <<"r">>, <<".", "html">> >>,
               << <<"r", "a", ".", "html">> >>, << <<"x">> >>,
               << <<"r">>, Tail(LongName) \o <<"a">> >> }
SomeDirectories == { << >>, << <<"r">> >>, << <<"r">>, <<"c">> >>, WorkingDirectory }
Unreadable == { AboveHere \o <<"/", "b", "b">>, <<"/", "r", "b", "b">> }
SmallLetters == [c \in {"N", "M"} |-> IF c = "N" THEN "n" ELSE "m"]

(* Requests put together from their parts, right and wrong, and every text *)
(* of a few pieces.                                                        *)
Methods == {"GET", "POST", "FOO"}
Targets == SE!SeqOf({"/", "a", "b"}, 3)
             \union { <<"/", "c">>, <<"/", "c", "/", "a">>, <<"/", "a", "/", ".", "html">>,
                      <<"/", "a", ".", "html">>, <<"/", "a", "/", "b">>,
                      <<"/", "a", "/", "a">>, <<"/", "b", "/", "a">>, <<"/", "a", "b", "/">>,
                      <<"/", "a", "/", "b", "/", "a">>, <<"/", "a", "/", "b", "a">>,
                      <<"/", "a", "/", "b", "b">> }
DotTargets == { <<"/", "a", "/", ".", ".", "/", "x">>, <<"/", "a", "/", "c", "/", ".", ".", "/", "a">>,
                <<"/", "a", "/", ".", "/", "a">>, <<"/", ".", ".", "/", "a">>,
                <<"/", "a", "/", "a", "/", ".", ".", "/", "a">>, <<"/", "a", "/", "/", "a">>,
                <<"/", "a", "/", "c", "/", "a">> }
Versions == {"HTTP/1.1", "HTTP/2.0"}
Crlf == <<"\r", "\n">>
Fields == { << >>, <<"N", ":", " ", "v">> \o Crlf, <<"N", ":", "v">> \o Crlf, <<"N", ":">> \o Crlf,
            <<"N", ":", " ">> \o Crlf, <<"N">> \o Crlf,
            <<"N", ":", " ", " ", "v">> \o Crlf, <<"N", ":", " ", "v", "\r">> \o Crlf }
TwoFields == { <<"N", ":", " ", "v">> \o Crlf \o f \o Crlf :
                 f \in { <<"M", ":", " ">>, <<"N", ":", " ">>, <<"n", ":", " ">>,
                        <<" ", ":", " ">>, <<"M", ":">> } }
Ends == { << >>, Crlf, Crlf \o <<"body">>, Crlf \o <<"NUL", "body">>, <<"\r">>, Crlf \o Crlf }

RequestsOf(methods, targets, fields, ends) ==
  {<<m, " ">> \o t \o <<" ", v>> \o Crlf \o f \o e :
     m \in methods, t \in targets, v \in Versions, f \in fields, e \in ends}
Requests ==
  UNION { RequestsOf(Methods, Targets, Fields, Ends), RequestsOf({"GET"}, DotTargets, { << >> }, {Crlf}),
          RequestsOf({"GET"}, { <<"/">>, <<"a">> }, TwoFields, {Crlf}) }
ShortTexts == SE!SeqOf({"GET", " ", "/", "\r", "\n"}, 4)
SomeArrivals == {text \in Requests \union ShortTexts \union {LongTarget, LongField} : Len(text) <= Capacity}
SomeGarbage == { << >>, <<"junk">>, Crlf, EndOfRequest }
NoNumbers == [n \in {} |-> 0]
=============================================================================
