--------------------------- MODULE MCHttpPipeline ---------------------------
(***************************************************************************)
(* Values for model checking HttpPipeline: requests that come through a    *)
(* proxy from one address, but the last, which comes from another; the     *)
(* first sends an id of its own.                                           *)
(***************************************************************************)
EXTENDS HttpPipeline

Last == CHOOSE r \in Request : \A q \in Request : q <= r

MCHeaders(r) ==
  IF r = Last THEN [forwarded |-> <<>>, real |-> <<>>]
  ELSE IF r = 1 THEN [forwarded |-> <<>>, real |-> <<"a">>]
  ELSE [forwarded |-> <<"a", "proxy">>, real |-> <<"proxy">>]

MCIpOf == [r \in Request |-> client_ip(MCHeaders(r), "b")]
MCSentId == [r \in Request |-> IF r = 1 THEN 21 ELSE 0]
MCFreshId == [r \in Request |-> 10 + r]
=============================================================================
