------------------------------ MODULE MCImgProc ------------------------------
(***************************************************************************)
(* Images of up to 4 by 3 pixels with components of four values, tilings    *)
(* with and without remainder, a negative and an oversized N.               *)
(***************************************************************************)
EXTENDS ImgProc

All == <<"expose", "mirrorh", "other", "mirrorv", "swapbg", "tile">>
MCDirs == {All, <<>>, <<"mirrorv", "other", "mirrorv">>, <<"tile", "unloadable">>,
           <<"swapbg", "incomplete">>}

Fraction(n, d) == [num |-> n, den |-> d]
MCArgvs == {<<>>, <<Fraction(2, 1), Fraction(2, 1)>>} \cup
           {<<f>> : f \in {Fraction(1, 2), Fraction(3, 2), Fraction(2, 1), Fraction(3, 1),
                           Fraction(-1, 1), Fraction(0, 1)}}

File(w, h, colour, bits) ==
  LET channels == CASE colour = "rgba" -> 4 [] colour = "rgb" -> 3 [] OTHER -> 1
  IN  [width |-> w, height |-> h, colour |-> colour, bits |-> bits,
       bytes |-> [k \in 0 .. w * h * channels * (bits \div 8) - 1 |->
                    (k * k + k \div 3 + w) % Depth]]
MCFiles ==
  {File(w, h, "rgba", 8) : w \in 1 .. 4, h \in 1 .. 3} \cup
  {File(4, 1, "rgb", 8), File(3, 2, "rgb", 8), File(2, 2, "grey", 8), File(2, 2, "rgb", 16)}
=============================================================================
