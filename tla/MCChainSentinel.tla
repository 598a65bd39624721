--------------------------- MODULE MCChainSentinel ---------------------------
(* ChainSentinel over directories that are clean, hold a legacy break, hold a
   second GENESIS, or should not boot at all. *)
EXTENDS ChainSentinel

Cyl(id, prev) == [id |-> id, hash |-> id, prev |-> prev, encoded |-> TRUE, traceback |-> FALSE]

MCLegacy ==
    { <<>>,
      <<Cyl(1, 0), Cyl(2, 1)>>,
      <<Cyl(1, 0), Cyl(2, 0), Cyl(3, 1)>>,
      <<Cyl(1, 0), [Cyl(2, 1) EXCEPT !.encoded = FALSE, !.hash = 0]>>,
      <<[Cyl(1, 0) EXCEPT !.traceback = TRUE]>> }
=============================================================================
