--------------------------- MODULE MCLogBankTrim ---------------------------
(* A bank with trims, seen as MCLogBank sees it.                           *)
EXTENDS LogBankTrim

Bank == INSTANCE MCLogBank
Symmetry == Bank!Symmetry
View == <<Bank!View, astray>>
=============================================================================
