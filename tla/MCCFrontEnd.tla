---------------------------- MODULE MCCFrontEnd ----------------------------
(***************************************************************************)
(* CFrontEnd at every level on two kinds of source texts.  ShortFiles are  *)
(* all texts of both brackets, commands of each kind (counted, its         *)
(* opposite, single) and a comment, balanced or not.  LoopFiles are made   *)
(* of pieces: a loop whose body is any three of single commands, cleared   *)
(* cells and excursions to the cells on both sides.                        *)
(***************************************************************************)
EXTENDS CFrontEnd

Pieces ==
  { <<"-">>, <<">">>, <<"<">>, <<".">>,
    <<"[", "-", "]">>,
    <<">", "+", "<">>,
    <<"<", "-", ">">> }

Bodies == {FlattenSeq(s) : s \in BoundedSeq(Pieces, 3)}

Before == { <<"+", "+">>, <<",", ">">> }
After == { <<">", "+", ".", "<", ".">>,
           <<"[", "-", "]", ">", "[", "-", "]", "[", ".", "-", "]">> }

LoopFiles == {b \o <<"[">> \o body \o <<"]">> \o a : b \in Before, body \in Bodies, a \in After}

ShortFiles == BoundedSeq({"[", "]", "-", ">", ".", "#"}, 5)

MCFiles == LoopFiles \cup ShortFiles

\* Texts that count down no cell but the one they test, for the run that tells
\* the default level's faults apart.  Cells are cleared on either side and in the
\* middle, whose content is then printed.
Clearings ==
  { <<"[", "-", "]">>,
    <<">", "[", "-", "]", "<">>,
    <<"<", "[", "-", "]", ">">> }

MCClearFiles ==
  { <<"+", ".", "[", "-", "]">> \o FlattenSeq(s) \o <<"[", ".", "-", "]">> :
      s \in BoundedSeq(Clearings, 2) }

MCLo == -1
MCLevels == 0 .. 3
MCInputs == { << >>, <<2>> }
=============================================================================
