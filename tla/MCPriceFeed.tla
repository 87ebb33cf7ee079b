----------------------------- MODULE MCPriceFeed -----------------------------
(* Small instances of PriceFeed: spellings, watchlists and providers.      *)
EXTENDS PriceFeed

Spellings == "a" :> "A" @@ "A" :> "A" @@ "b" :> "B" @@ " " :> ""

OneSymbol   == <<"a">>
ShortLists  == {<<"a", " ", "A">>, <<"b">>}
OneProvider  == <<"twelvedata">>
TwoProviders == <<"twelvedata", "fallback">>
=============================================================================
