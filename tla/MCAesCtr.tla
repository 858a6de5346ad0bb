------------------------------- MODULE MCAesCtr -------------------------------
(* Blocks of three bits: the carry reaches every digit and runs over.         *)
EXTENDS AesCtr

MCNonce == {<<0, 0, 1>>, <<1, 1, 0>>}

MCMangleNonce == <<1, 1, 0>>
=============================================================================
