----------------------------- MODULE MCAmounts -----------------------------
(***************************************************************************)
(* Amounts for TLC: 14 drops a TRX, int of 5 bits, int64_t of 11 bits and  *)
(* doubles of 8 bits, with every balance.  With these the roundings really *)
(* take a drop away (61/14 TRX are sent as 60 drops) and add one, and the  *)
(* amounts go on to where doubles are coarser than drops.  The whole       *)
(* numbers that are typed are small ones and those around the edges.       *)
(***************************************************************************)
EXTENDS Amounts

MCUnits == {2 ^ e : e \in 0 .. 29}
MCDrops == 0 .. Half64 - 1
MCTyped == {-Half64, -1, 0, 1, 2, 3, 5, 7, 9, Half32 - 1, Half32, 2 * Half32 - 1,
            5 * Rate, 15 * Rate, Half64 \div Rate, Exact + 1, Half64 - 1}
MCFractions == (1 .. 8) \X {1, 2, Rate} \cup (33 .. 73) \X {1} \cup (500 .. 509) \X {Rate}
               \cup {<<61, 14>>, <<244, 56>>, <<16, 9>>, <<23, 9>>, <<29, 11>>}
=============================================================================
