----------------------------- MODULE MCPoliteFetch -----------------------------
EXTENDS PoliteFetch, TLC
CONSTANTS f1, f2, f3, apex, www, takeover
MCHostOf == (apex :> "h1") @@ (www :> "h2") @@ (takeover :> "h3")
MCOneHost == (apex :> "h1") @@ (www :> "h1") @@ (takeover :> "h3")
MCTwoDelays == (apex :> {2}) @@ (www :> {1}) @@ (takeover :> {})
MCDelays == (apex :> {2}) @@ (www :> {}) @@ (takeover :> {})
MCVaried == (apex :> {1, 2}) @@ (www :> {}) @@ (takeover :> {})
MCAsked == (f1 :> {apex}) @@ (f2 :> {www})
MCLine == (apex :> {www}) @@ (www :> {takeover}) @@ (takeover :> {})
MCAlike == (f1 :> {apex}) @@ (f2 :> {apex})
=============================================================================
