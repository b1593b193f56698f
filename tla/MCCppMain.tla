----------------------------- MODULE MCCppMain -----------------------------
(***************************************************************************)
(* CppMain on three kinds of source texts.  ShortFiles are all texts of    *)
(* both brackets, a command and a comment, balanced or not.  LoopFiles and *)
(* CachedFiles are a loop put together from pieces, with something before  *)
(* and after it.  LoopFiles aim at the passes: nested loops, excursions to *)
(* the cells on both sides, loops that are entered or not.  CachedFiles    *)
(* aim at the code generator: what is done before the loop decides which   *)
(* cells are cached when its label is placed, the body which are touched   *)
(* inside, and what follows reads them back.                               *)
(***************************************************************************)
EXTENDS CppMain

Loops(before, pieces, after) ==
  {b \o <<"[">> \o FlattenSeq(body) \o <<"]">> \o a :
     b \in before, body \in BoundedSeq(pieces, 3), a \in after}

LoopFiles ==
  Loops({ << >>, <<"+", "+">>, <<",", ">", ",">> },
        { <<"-">>, <<">">>, <<"<">>, <<".">>, <<"+">>,
          <<"[", "-", "]">>,
          <<">", "+", "<">>,
          <<"<", "+", ">">> },
        { <<">", "+", ".", "<", ".">>, <<"[", "-", "]", ">", "[", "-", "]">> })

CachedFiles ==
  Loops({ <<"+">>, <<",", ">", "+", "<">>, <<">", "+", "<", "-">> },
        { <<"-">>, <<">">>, <<"<">>, <<".">>,
          <<">", "+", "<">>,
          <<"[", ".", "-", "]">> },
        { <<">", ".", "<">>,
          <<">", ">", "+", "<", ".">>,
          <<">", "+", ">", "[", "-", "]", "<", "+", "<">> })

ShortFiles == BoundedSeq({"[", "]", "-", "#"}, 6)

MCFiles == LoopFiles \cup CachedFiles \cup ShortFiles

MCLo == -1
MCStdin == { <<2>> }
MCUnset == {0, 3}
=============================================================================
