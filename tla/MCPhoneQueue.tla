---------------------------- MODULE MCPhoneQueue ----------------------------
(* A list with a gated cell, one without a gate and one of no known kind.  *)
EXTENDS PhoneQueue

CellOf(t, k) == [tag |-> t, kind |-> k]

Cells == << CellOf("a", "gpu"), CellOf("b", "cpu"), CellOf("c", "lb"),
            CellOf("d", "typo") >>
=============================================================================
