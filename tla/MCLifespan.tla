----------------------------- MODULE MCLifespan -----------------------------
(***************************************************************************)
(* Values for model checking Lifespan: two requests of the API with one    *)
(* configuration, which one of them leaves to the defaults and the other   *)
(* spells out with blanks and a slash, and a request of the UI whose model *)
(* begins like theirs and goes on after a bar.                             *)
(***************************************************************************)
EXTENDS Lifespan

MCForm(j) ==
  CASE j = 1 -> [api_key |-> <<"k">>, base_url |-> <<"">>, model |-> <<"">>]
    [] j = 2 -> [api_key |-> <<" k ">>, base_url |-> <<" u/ ">>, model |-> <<"m ">>]
    [] j = 3 -> [api_key |-> <<"k">>, base_url |-> <<"">>, model |-> <<"m", "n">>]
    [] OTHER -> [api_key |-> <<" ">>, base_url |-> <<"u">>, model |-> <<"n">>]

MCForms == [j \in Job |-> MCForm(j)]
MCJob == Api \cup Ui
MCPiece == {"", "u", "m", "n", "u/"}
MCEmpty == <<"">>
MCDefaultUrl == <<"u/">>
MCDefaultModel == <<"m">>

MCStrip(text) ==
  CASE text = <<" k ">> -> <<"k">>
    [] text = <<" u/ ">> -> <<"u/">>
    [] text = <<"m ">> -> <<"m">>
    [] text = <<" ">> -> <<"">>
    [] OTHER -> text

MCStripUrl(text) == IF MCStrip(text) = <<"u/">> THEN <<"u">> ELSE MCStrip(text)
MCDigest(text) == text[1]
=============================================================================
