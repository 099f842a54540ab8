---------------------------- MODULE MCOrderTotal ----------------------------
(* OrderTotal with every price below two units, of four nanos each. *)
EXTENDS OrderTotal

MCPrices == {Amount(u, m) : u \in 0 .. 1, m \in 0 .. 3}

=============================================================================
