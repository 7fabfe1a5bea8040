---------------------------- MODULE TokenPrices -----------------------------
(***************************************************************************)
(* What TokenPricesService computes from the prices it is given: exchange  *)
(* rates give how much of a currency one dollar buys, spot prices how many *)
(* dollars one token costs, and every conversion goes through dollars.     *)
(*                                                                         *)
(* A rate is a fraction <<numerator, denominator>>. A table of prices maps *)
(* each asset to a number; 0 stands for a price that is missing or null,   *)
(* which the code treats as it treats zero. The spot data of a token is    *)
(* Null or [cap, supply], where the market cap is Null or a fraction.      *)
(***************************************************************************)
EXTENDS Integers, FiniteSets

CONSTANT Fiat   \* the assets that are currencies

Missing == <<0, 1>>
Null == <<>>
Div(x, y) == <<x[1] * y[2], x[2] * y[1]>>
Times(x, y) == <<x[1] * y[1], x[2] * y[2]>>
Same(x, y) == x[1] * y[2] = x[2] * y[1]

\* Were an exchange rate taken for a price.
UsdRateUninverted(prices, asset) == <<prices[asset], 1>>

\* Dollars per unit of the asset. An exchange rate is the inverse of a price.
UsdRate(prices, asset) ==
  IF asset \in Fiat /\ prices[asset] # 0 THEN <<1, prices[asset]>> ELSE <<prices[asset], 1>>

\* getMultipleTokenConversions, of one pair
Conversion(prices, from, to) ==
  LET fromUsdRate == UsdRate(prices, from)
      toUsdRate == UsdRate(prices, to)
  IN IF fromUsdRate = Missing \/ toUsdRate = Missing THEN Null ELSE Div(fromUsdRate, toUsdRate)

\* #computeMarketData: what is counted in dollars (the cap stands for the four fields) is
\* converted, the number of tokens and the percentages are not.
MarketData(spot, rate) ==
  [cap |-> IF spot.cap = Null THEN Null ELSE Div(spot.cap, rate),
   supply |-> spot.supply]

\* getMultipleTokensMarketData, of one pair. Only a token with spot data has market data.
TokenMarketData(prices, spot, asset, unit) ==
  LET rate == UsdRate(prices, unit) IN
  IF asset \in Fiat \/ spot = Null \/ rate = Missing THEN Null ELSE MarketData(spot, rate)

\* How much of an asset one dollar buys.
DollarsWorth(prices, asset) == IF asset \in Fiat THEN <<prices[asset], 1>> ELSE <<1, prices[asset]>>

\* A dollar's worth of one asset converts to a dollar's worth of the other, whatever they
\* are, so that two steps make the direct one; only an asset without a price is not
\* converted. The market data of a token in two units differ by the rate between them, and
\* a market cap that counts every token at its price does so in every unit.
ConversionsAgree(prices, spot, a, b, c) ==
  LET rate(x, y) == Conversion(prices, x, y)
      data(unit) == TokenMarketData(prices, spot, a, unit)
      priced == prices[a] # 0 /\ prices[b] # 0
  IN /\ (rate(a, b) # Null) <=> priced
     /\ priced =>
          Same(Times(DollarsWorth(prices, a), rate(a, b)), DollarsWorth(prices, b))
     /\ (priced /\ rate(b, c) # Null) =>
          Same(Times(rate(a, b), rate(b, c)), rate(a, c))
     /\ (data(b) # Null /\ data(c) # Null) =>
          /\ rate(b, c) # Null
          /\ data(b).cap # Null => Same(Times(data(b).cap, rate(b, c)), data(c).cap)
     /\ (a \notin Fiat /\ spot # Null /\ priced) =>
          /\ data(b) # Null
          /\ spot.cap = <<prices[a] * spot.supply, 1>> =>
               Same(data(b).cap, Times(rate(a, b), <<spot.supply, 1>>))
=============================================================================
