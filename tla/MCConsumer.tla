----------------------------- MODULE MCConsumer ------------------------------
(***************************************************************************)
(* Consumer over two markets whose identities are the same bytes, split    *)
(* differently, the second installed while the session runs or before it.  *)
(***************************************************************************)
EXTENDS Consumer

CONSTANTS m1, m2

MCMarkets == {m1, m2}
MCResident == <<m1>>
MCIdentity == (m1 :> [venue |-> <<1>>, kind |-> <<1>>, value |-> <<1, 1>>])
           @@ (m2 :> [venue |-> <<1>>, kind |-> <<1, 1>>, value |-> <<1>>])
=============================================================================
