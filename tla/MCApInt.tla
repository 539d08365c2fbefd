------------------------------- MODULE MCApInt -------------------------------
(***************************************************************************)
(* Numbers of up to three two-bit limbs, two binary digits each.            *)
(***************************************************************************)
EXTENDS ApInt

MCU64s == {0, 1, 3}
Strings == {<<0>>, <<1, 1, 1, 1>>, <<1, 0, 1, 1, 0>>,
            <<0, 0, 0, 1, 0, 0, 0, 0>>, <<1, 1, 0, 0, 1, 0>>}
MCHexes == [minus : BOOLEAN, digits : Strings]
MCShifts == 0 .. 5
=============================================================================
