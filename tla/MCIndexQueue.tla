--------------------------- MODULE MCIndexQueue ---------------------------
(* Small instances of IndexQueue for TLC.                                  *)
EXTENDS IndexQueue, TLC

ProducerSymmetry == Permutations(Producers)

===========================================================================
