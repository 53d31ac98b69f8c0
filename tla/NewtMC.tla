-------------------------------- MODULE NewtMC --------------------------------
(* Values of the constants of Newt for TLC: bytes are bits, a length has two  *)
(* of them, and there is a message of every length a header can hold.         *)
EXTENDS Newt

MCMessages == {<<0>>, <<1>>, <<0, 1>>, <<0, 0, 0>>, <<1, 0, 1>>}

=============================================================================
