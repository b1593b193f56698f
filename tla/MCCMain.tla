------------------------------ MODULE MCCMain ------------------------------
(***************************************************************************)
(* CMain on texts that act on each other: a loop that moves the input to   *)
(* another cell, loops that stop where other texts have left zeros, texts  *)
(* that end with the pointer elsewhere; nested loops; a line without       *)
(* commands; stray and unclosed brackets; a cleared cell, which level 2    *)
(* does not survive.  The last three it survives and misreads: they leave  *)
(* another tape, never end, or end although they should not.               *)
(***************************************************************************)
EXTENDS CMain

MCTexts ==
  { << >>,
    <<",", "[", "-", ">", "+", "<", "]">>,
    <<">", "[", ".", "-", "]">>,
    <<"+", ".", "#">>,
    <<"[", ">", "]", "+">>,
    <<"[", "[", "-", ">", "]", ">", "]">>,
    <<"]">>, <<"]", "+">>,
    <<"[", "-", "]">>,
    <<"+", "[">>,
    <<"+", ".", "[", "-", "]", ">", "[", "-", "]", "[", ".", "-", "]">>,
    <<"+", ".", "[", "-", "]", ">", "[", "-", "]", "<", "[", "]">>,
    <<"+", "[", "<", "-", ">", "]", ">", "[", ".", "-", "]">> }

MCLo == -1
MCLevels == 0 .. 3
MCInputs == { <<2>> }
=============================================================================
