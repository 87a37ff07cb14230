------------------------- MODULE PaperTradingProofs -------------------------
(***************************************************************************)
(* What PaperTrading promises for every set of coins, every rounding of    *)
(* the saved balance and every bound: its types (no balance and no holding *)
(* ever falls below zero), that the database holds what memory holds       *)
(* between trades, that a restart loses no trade whose call returned, and  *)
(* that the wallet agrees with the history of its trades.                  *)
(***************************************************************************)
EXTENDS PaperTrading, DataLemmas

\* Rounding keeps a balance a natural number.
LEMMA StoredType ==
    ASSUME NEW balance \in Nat PROVE Stored(balance) \in Nat
<1> DEFINE k == (balance + (Grain \div 2)) \div Grain
<1>1. Grain \in Nat /\ Grain > 0
  BY PaperAssumption
<1>2. Grain \div 2 \in Nat
  BY <1>1
<1>3. k \in Nat
  BY <1>1, <1>2
<1> HIDE DEF k
<1>4. k * Grain \in Nat
  BY <1>1, <1>3
<1> QED BY <1>4 DEF Stored, k

\* A trade that is recorded is one more entry of the history.
LEMMA RecordedType ==
    ASSUME PaperTypeOK, NEW side \in {"buy", "sell"}, NEW c \in Coins,
           NEW quantity \in Nat, NEW total \in Nat,
           Recorded(side, c, quantity, total)
    PROVE  /\ trades' \in Seq(Trades) /\ coin' \in Coins
           /\ saving' \in {"no", "balance"}
<1> DEFINE trade == [side |-> side, symbol |-> c, quantity |-> quantity,
                     total |-> total]
<1>1. trade \in Trades
  BY DEF Trades
<1>2. trades' = Append(trades, trade)
  BY DEF Recorded
<1> HIDE DEF trade
<1> QED BY <1>1, <1>2 DEF PaperTypeOK, Recorded

\* A table of balances that keeps its row or gets another one.
LEMMA OneRow ==
    ASSUME NEW rows \in Seq(Nat), Len(rows) <= 1, NEW balance \in Nat,
           NEW new \in {rows, <<balance>>}
    PROVE  new \in Seq(Nat) /\ Len(new) <= 1
<1>1. CASE new = rows
  BY <1>1
<1>2. CASE new = <<balance>>
  <2>1. <<balance>> \in Seq(Nat) /\ Len(<<balance>>) = 1
    OBVIOUS
  <2> QED BY <1>2, <2>1
<1> QED BY <1>1, <1>2

-----------------------------------------------------------------------------
(* Types.                                                                  *)

\* Only a trade that was made is being saved.
SavingATrade == saving # "no" => trades # << >>

TypeInv == PaperTypeOK /\ SavingATrade

LEMMA TypeInit == PaperInit => PaperTypeOK
<1> SUFFICES ASSUME PaperInit PROVE PaperTypeOK
  OBVIOUS
<1>1. StartingBalance \in Nat
  BY PaperAssumption
<1>2. NoCoins \in [Coins -> Nat]
  BY DEF NoCoins
<1>3. << >> \in Seq(Nat) /\ << >> \in Seq(Trades) /\ Len(<< >>) <= 1
  OBVIOUS
<1> QED BY <1>1, <1>2, <1>3 DEF PaperInit, PaperTypeOK

LEMMA TypeBoot == PaperTypeOK /\ PaperBoot => PaperTypeOK'
<1> SUFFICES ASSUME PaperTypeOK, PaperBoot PROVE PaperTypeOK'
  OBVIOUS
<1>1. StartingBalance \in Nat /\ Stored(StartingBalance) \in Nat
  BY PaperAssumption, StoredType
<1>2. /\ paperUp' \in BOOLEAN /\ paperBoots' \in Nat /\ tornSaves' \in Nat /\ coin' \in Coins
      /\ saving' \in {"no", "balance", "holding", "trade"}
  BY DEF PaperTypeOK, PaperBoot
<1>3. NoCoins \in [Coins -> Nat] /\ << >> \in Seq(Trades)
  BY DEF NoCoins
<1>4. CASE Load
  <2>1. cash' \in Nat
    BY <1>4 DEF Load, PaperTypeOK
  <2> QED BY <1>2, <1>4, <2>1 DEF PaperTypeOK, Load, database
<1>5. CASE StartFresh
  <2> DEFINE balance == Stored(StartingBalance)
  <2>1. dbCash' \in {dbCash, <<balance>>} /\ failedStatements' \in {failedStatements, failedStatements + 1}
    BY <1>5 DEF StartFresh
  <2>2. balance \in Nat
    BY <1>1
  <2> HIDE DEF balance
  <2>3. dbCash' \in Seq(Nat) /\ Len(dbCash') <= 1
    BY <2>1, <2>2, OneRow DEF PaperTypeOK
  <2>5. failedStatements' \in Nat
    BY <2>1 DEF PaperTypeOK
  <2>4. /\ initialized' = TRUE /\ cash' = StartingBalance /\ holdings' = NoCoins
        /\ trades' = << >> /\ UNCHANGED <<dbHoldings, dbTrades>>
    BY <1>5 DEF StartFresh, NoSavedState
  <2> QED BY <1>1, <1>2, <1>3, <2>3, <2>4, <2>5 DEF PaperTypeOK
<1>6. CASE StartWithout
  BY <1>1, <1>2, <1>3, <1>6 DEF PaperTypeOK, StartWithout, NoSavedState, database
<1> QED BY <1>4, <1>5, <1>6 DEF PaperBoot

LEMMA TypeBuy == PaperTypeOK /\ Buy => PaperTypeOK'
<1> SUFFICES ASSUME PaperTypeOK, Buy PROVE PaperTypeOK'
  OBVIOUS
<1>1. PICK c \in Coins, amount \in 1..MaxAmount, fee \in Fees,
           quantity \in 1..MaxQuantity : BuyOf(c, amount, fee, quantity)
  BY DEF Buy
<1>2. amount \in Nat /\ quantity \in Nat
  BY PaperAssumption
<1>3. cash' \in Nat
  BY <1>1, <1>2 DEF BuyOf, PaperTypeOK
<1>4. holdings' \in [Coins -> Nat]
  BY <1>1, <1>2 DEF BuyOf, PaperTypeOK
<1>5. Recorded("buy", c, quantity, amount)
  BY <1>1 DEF BuyOf
<1> QED BY <1>2, <1>3, <1>4, <1>5, RecordedType DEF Recorded, PaperTypeOK, database

LEMMA TypeSell == PaperTypeOK /\ Sell => PaperTypeOK'
<1> SUFFICES ASSUME PaperTypeOK, Sell PROVE PaperTypeOK'
  OBVIOUS
<1>1. PICK c \in Coins, requested \in 0..MaxQuantity, gross \in 0..MaxAmount,
           fee \in Fees :
        SellOf(c, SellQuantity(c, requested), Proceeds(gross, fee))
  BY DEF Sell
<1> DEFINE quantity == SellQuantity(c, requested)
           proceeds == Proceeds(gross, fee)
<1>2. quantity \in Nat /\ quantity <= holdings[c]
  BY PaperAssumption DEF SellQuantity, PaperTypeOK
<1>3. proceeds \in Nat
  BY PaperAssumption DEF Proceeds
<1> HIDE DEF quantity, proceeds
<1>4. SellOf(c, quantity, proceeds)
  BY <1>1 DEF quantity, proceeds
<1>5. cash' \in Nat
  BY <1>3, <1>4 DEF SellOf, PaperTypeOK
<1>6. holdings' \in [Coins -> Nat]
  BY <1>2, <1>4 DEF SellOf, PaperTypeOK
<1>7. Recorded("sell", c, quantity, proceeds)
  BY <1>4 DEF SellOf
<1> QED BY <1>2, <1>3, <1>5, <1>6, <1>7, RecordedType DEF Recorded, PaperTypeOK, database

LEMMA TypeSaves ==
    TypeInv /\ (SaveBalance \/ SaveHolding \/ SaveTrade) => PaperTypeOK'
<1> SUFFICES ASSUME TypeInv, SaveBalance \/ SaveHolding \/ SaveTrade PROVE PaperTypeOK'
  OBVIOUS
<1>1. PaperTypeOK /\ failedStatements' \in Nat
  BY DEF TypeInv, PaperTypeOK, SaveBalance, SaveHolding, SaveTrade, Statement
<1>2. CASE SaveBalance
  <2> DEFINE balance == Stored(cash)
  <2>1. balance \in Nat
    BY <1>1, StoredType DEF PaperTypeOK
  <2>2. dbCash' \in {dbCash, <<balance>>}
    BY <1>2 DEF SaveBalance, Statement
  <2> HIDE DEF balance
  <2>3. dbCash' \in Seq(Nat) /\ Len(dbCash') <= 1
    BY <1>1, <2>1, <2>2, OneRow DEF PaperTypeOK
  <2> QED BY <1>1, <1>2, <2>3 DEF PaperTypeOK, SaveBalance, wallet
<1>3. CASE SaveHolding
  <2>1. dbHoldings' \in [Coins -> Nat]
    BY <1>1, <1>3 DEF SaveHolding, Statement, PaperTypeOK
  <2> QED BY <1>1, <1>3, <2>1 DEF PaperTypeOK, SaveHolding, wallet
<1>4. CASE SaveTrade
  <2> DEFINE trade == Last(trades)
  <2>1. trades # << >>
    BY <1>4 DEF TypeInv, SavingATrade, SaveTrade
  <2>2. trade \in Trades
    BY <1>1, <2>1 DEF Last, PaperTypeOK
  <2>3. dbTrades' \in {dbTrades, Append(dbTrades, trade)}
    BY <1>4 DEF SaveTrade, Statement
  <2> HIDE DEF trade
  <2>4. dbTrades' \in Seq(Trades)
    <3>1. Append(dbTrades, trade) \in Seq(Trades)
      BY <1>1, <2>2 DEF PaperTypeOK
    <3> QED BY <1>1, <2>3, <3>1 DEF PaperTypeOK
  <2> QED BY <1>1, <1>4, <2>4 DEF PaperTypeOK, SaveTrade, wallet
<1> QED BY <1>2, <1>3, <1>4

LEMMA SavingNext == TypeInv /\ [PaperNext]_paperVars => SavingATrade'
<1> SUFFICES ASSUME TypeInv, [PaperNext]_paperVars PROVE SavingATrade'
  OBVIOUS
<1>1. ASSUME NEW trade, trades' = Append(trades, trade) PROVE trades' # << >>
  BY <1>1 DEF TypeInv, PaperTypeOK
<1>2. CASE Buy
  BY <1>1, <1>2 DEF Buy, BuyOf, Recorded, SavingATrade
<1>3. CASE Sell
  BY <1>1, <1>3 DEF Sell, SellOf, Recorded, SavingATrade
<1>4. CASE PaperBoot
  BY <1>4 DEF PaperBoot, SavingATrade
<1>5. CASE SaveBalance \/ SaveHolding \/ SaveTrade
  BY <1>5 DEF TypeInv, SavingATrade, SaveBalance, SaveHolding, SaveTrade, wallet
<1>6. CASE Stop
  BY <1>6 DEF TypeInv, SavingATrade, Stop, wallet
<1>7. CASE UNCHANGED paperVars
  BY <1>7 DEF TypeInv, SavingATrade, paperVars, wallet
<1> QED BY <1>2, <1>3, <1>4, <1>5, <1>6, <1>7 DEF PaperNext

LEMMA TypeNext == TypeInv /\ [PaperNext]_paperVars => TypeInv'
<1> SUFFICES ASSUME TypeInv, [PaperNext]_paperVars PROVE PaperTypeOK'
  BY SavingNext DEF TypeInv
<1> USE DEF TypeInv
<1>1. CASE PaperBoot
  BY <1>1, TypeBoot
<1>2. CASE Buy
  BY <1>2, TypeBuy
<1>3. CASE Sell
  BY <1>3, TypeSell
<1>4. CASE SaveBalance \/ SaveHolding \/ SaveTrade
  BY <1>4, TypeSaves
<1>5. CASE Stop
  <2>1. tornSaves' \in {tornSaves, tornSaves + 1} /\ paperUp' = FALSE
    BY <1>5 DEF Stop
  <2>2. tornSaves' \in Nat
    BY <2>1 DEF PaperTypeOK
  <2> QED BY <1>5, <2>1, <2>2 DEF Stop, PaperTypeOK, wallet, database
<1>6. CASE UNCHANGED paperVars
  BY <1>6 DEF paperVars, PaperTypeOK, wallet, database
<1> QED BY <1>1, <1>2, <1>3, <1>4, <1>5, <1>6 DEF PaperNext

LEMMA TypeInvariant == PaperSpec => []TypeInv
<1>1. PaperInit => TypeInv
  BY TypeInit DEF TypeInv, SavingATrade, PaperInit
<1> QED BY <1>1, TypeNext, PTL DEF PaperSpec

\* The wallet's types: whatever is traded, saved, lost and restored, no balance
\* and no holding is ever negative (buy's check of the funds, sell's quantity
\* and its proceeds, paper_trading.cpp:405, 495 and 514).
THEOREM TypeCorrect == PaperSpec => []PaperTypeOK
<1>1. TypeInv => PaperTypeOK
  BY DEF TypeInv
<1> QED BY <1>1, TypeInvariant, PTL

-----------------------------------------------------------------------------
(* The database and memory.  Between two trades the tables are what memory *)
(* is; while a trade is saved they trail it by the statements to come.     *)
(* Only with this can it be seen what a restart finds.                     *)

\* Without a failed statement, coins and trades are saved only where a balance
\* has been saved before.
BalanceFirst ==
    (failedStatements = 0 /\ dbCash = << >>) =>
        dbHoldings = NoCoins /\ dbTrades = << >>

Trailing ==
    (initialized /\ failedStatements = 0) =>
        /\ dbCash # << >>
        /\ saving = "no" => dbCash \in {<<cash>>, <<Stored(cash)>>}
        /\ \A c \in Coins :
             dbHoldings[c] = holdings[c] \/ (c = coin /\ saving \in {"balance", "holding"})
        /\ saving \in {"holding", "trade"} => dbCash = <<Stored(cash)>>
        /\ dbTrades = IF saving = "no" THEN trades ELSE Front(trades)

SavingNeedsDatabase == saving # "no" => initialized

DatabaseInv == TypeInv /\ BalanceFirst /\ Trailing /\ SavingNeedsDatabase

LEMMA FrontOfAppend ==
    ASSUME NEW S, NEW seq \in Seq(S), NEW elt \in S
    PROVE  Front(Append(seq, elt)) = seq
<1> DEFINE t == Append(seq, elt)
<1>1. /\ t \in Seq(S) /\ Len(t) = Len(seq) + 1
      /\ \A i \in 1..Len(seq) : t[i] = seq[i]
  OBVIOUS
<1> HIDE DEF t
<1>2. SubSeq(t, 1, Len(seq)) \in Seq(S)
  BY <1>1
<1>3. Len(SubSeq(t, 1, Len(seq))) = Len(seq)
  BY <1>1
<1>4. \A i \in 1..Len(seq) : SubSeq(t, 1, Len(seq))[i] = seq[i]
  BY <1>1
<1>5. SubSeq(t, 1, Len(seq)) = seq
  BY <1>2, <1>3, <1>4, SeqEqual
<1> QED BY <1>1, <1>5 DEF Front, t

LEMMA FrontAndLast ==
    ASSUME NEW S, NEW seq \in Seq(S), seq # << >>
    PROVE  Append(Front(seq), Last(seq)) = seq
<1>1. PICK s \in Seq(S), elt \in S : seq = Append(s, elt)
  BY SequenceEmptyOrAppend
<1>2. Front(seq) = s
  BY <1>1, FrontOfAppend
<1>3. Last(seq) = elt
  BY <1>1 DEF Last
<1> QED BY <1>1, <1>2, <1>3

\* What a trade leaves to be saved.
Pending ==
    /\ saving = "no" /\ UNCHANGED <<initialized, database, failedStatements>>
    /\ saving' = IF initialized THEN "balance" ELSE "no"
    /\ coin' \in Coins
    /\ \E n \in Int : holdings' = [holdings EXCEPT ![coin'] = n]

\* A trade: memory is ahead by it, in its coin, in the balance, in the history.
LEMMA TradeTrails ==
    ASSUME DatabaseInv, Buy \/ Sell
    PROVE  BalanceFirst' /\ Trailing' /\ SavingNeedsDatabase'
<1>1. Pending
  <2>1. ASSUME NEW c \in Coins, NEW n \in Nat, NEW total, NEW side,
               holdings' = [holdings EXCEPT ![c] = @ + n]
                 \/ holdings' = [holdings EXCEPT ![c] = @ - n],
               saving = "no", Recorded(side, c, n, total)
        PROVE  Pending
    <3>1. holdings[c] + n \in Int /\ holdings[c] - n \in Int
      BY DEF DatabaseInv, TypeInv, PaperTypeOK
    <3> QED BY <2>1, <3>1 DEF Recorded, Pending
  <2>2. CASE Buy
    <3>1. PICK c \in Coins, amount \in 1..MaxAmount, fee \in Fees,
               quantity \in 1..MaxQuantity : BuyOf(c, amount, fee, quantity)
      BY <2>2 DEF Buy
    <3>2. quantity \in Nat
      BY PaperAssumption
    <3> QED BY <2>1, <2>2, <3>1, <3>2 DEF Buy, BuyOf
  <2>3. CASE Sell
    <3>1. PICK c \in Coins, requested \in 0..MaxQuantity, gross \in 0..MaxAmount,
               fee \in Fees :
            SellOf(c, SellQuantity(c, requested), Proceeds(gross, fee))
      BY <2>3 DEF Sell
    <3>2. SellQuantity(c, requested) \in Nat
      BY PaperAssumption DEF SellQuantity, DatabaseInv, TypeInv, PaperTypeOK
    <3> QED BY <2>1, <2>3, <3>1, <3>2 DEF Sell, SellOf
  <2> QED BY <2>2, <2>3
<1>2. Front(trades') = trades
  <2>1. PICK trade \in Trades : trades' = Append(trades, trade)
    <3>1. ASSUME NEW c \in Coins, NEW n \in Nat, NEW total \in Nat,
                 NEW side \in {"buy", "sell"}, Recorded(side, c, n, total)
          PROVE  \E trade \in Trades : trades' = Append(trades, trade)
      <4>1. [side |-> side, symbol |-> c, quantity |-> n, total |-> total] \in Trades
        BY DEF Trades
      <4> QED BY <3>1, <4>1 DEF Recorded
    <3>2. CASE Buy
      BY <3>1, <3>2, PaperAssumption DEF Buy, BuyOf
    <3>3. CASE Sell
      <4>1. PICK c \in Coins, requested \in 0..MaxQuantity,
                 gross \in 0..MaxAmount, fee \in Fees :
              SellOf(c, SellQuantity(c, requested), Proceeds(gross, fee))
        BY <3>3 DEF Sell
      <4>2. SellQuantity(c, requested) \in Nat /\ Proceeds(gross, fee) \in Nat
        BY PaperAssumption DEF SellQuantity, Proceeds, DatabaseInv, TypeInv, PaperTypeOK
      <4> QED BY <3>1, <4>1, <4>2 DEF SellOf
    <3> QED BY <3>2, <3>3
  <2> QED BY <2>1, FrontOfAppend DEF DatabaseInv, TypeInv, PaperTypeOK
<1>3. BalanceFirst'
  BY <1>1 DEF DatabaseInv, BalanceFirst, Pending, database
<1>4. Trailing'
  <2> SUFFICES ASSUME initialized, failedStatements = 0
               PROVE  /\ dbCash' # << >>
                      /\ \A c \in Coins : dbHoldings'[c] = holdings'[c] \/ c = coin'
                      /\ dbTrades' = Front(trades')
    BY <1>1 DEF Trailing, Pending
  <2>1. \A c \in Coins : dbHoldings[c] = holdings[c]
    BY <1>1 DEF DatabaseInv, Trailing, Pending
  <2>2. \A c \in Coins \ {coin'} : holdings'[c] = holdings[c]
    BY <1>1 DEF DatabaseInv, TypeInv, PaperTypeOK, Pending
  <2>3. dbTrades' = trades /\ dbCash' # << >>
    BY <1>1 DEF DatabaseInv, Trailing, Pending, database
  <2> QED BY <1>1, <1>2, <2>1, <2>2, <2>3 DEF database, Pending
<1>5. SavingNeedsDatabase'
  BY <1>1 DEF DatabaseInv, SavingNeedsDatabase, Pending
<1> QED BY <1>3, <1>4, <1>5

\* Each statement that succeeds catches up with its part of the trade.
LEMMA StatementTrails ==
    ASSUME DatabaseInv, SaveBalance \/ SaveHolding \/ SaveTrade
    PROVE  BalanceFirst' /\ Trailing' /\ SavingNeedsDatabase'
<1>1. initialized /\ UNCHANGED <<wallet, coin, initialized>>
  BY DEF DatabaseInv, SavingNeedsDatabase, SaveBalance, SaveHolding, SaveTrade
<1>2. failedStatements' = 0 => failedStatements = 0 /\ dbCash # << >>
  BY <1>1 DEF DatabaseInv, TypeInv, PaperTypeOK, Trailing, SaveBalance, SaveHolding,
              SaveTrade, Statement
<1>3. CASE SaveBalance
  BY <1>1, <1>2, <1>3 DEF DatabaseInv, TypeInv, PaperTypeOK, BalanceFirst, Trailing,
                          SavingNeedsDatabase, SaveBalance, Statement, wallet
<1>4. CASE SaveHolding
  <2>1. /\ saving = "holding" /\ saving' = "trade" /\ UNCHANGED <<dbCash, dbTrades>>
        /\ SavingNeedsDatabase'
    BY <1>1, <1>4 DEF SaveHolding, SavingNeedsDatabase
  <2>2. BalanceFirst'
    BY <1>2, <2>1 DEF BalanceFirst
  <2>3. ASSUME failedStatements' = 0
        PROVE  \A c \in Coins : dbHoldings'[c] = holdings[c]
    <3>1. dbHoldings' = [dbHoldings EXCEPT ![coin] = holdings[coin]]
      BY <1>4, <2>3 DEF SaveHolding, Statement, DatabaseInv, TypeInv, PaperTypeOK
    <3>2. \A c \in Coins \ {coin} : dbHoldings[c] = holdings[c]
      BY <1>1, <1>2, <2>3 DEF DatabaseInv, Trailing
    <3> QED BY <3>1, <3>2 DEF DatabaseInv, TypeInv, PaperTypeOK
  <2>4. Trailing'
    BY <1>1, <1>2, <2>1, <2>3 DEF DatabaseInv, Trailing, wallet
  <2> QED BY <2>1, <2>2, <2>4
<1>5. CASE SaveTrade
  <2>1. Append(Front(trades), Last(trades)) = trades
    BY <1>5, FrontAndLast DEF DatabaseInv, TypeInv, PaperTypeOK, SavingATrade, SaveTrade
  <2> QED BY <1>1, <1>2, <1>5, <2>1 DEF DatabaseInv, TypeInv, PaperTypeOK, BalanceFirst,
                Trailing, SavingNeedsDatabase, SaveTrade, Statement, wallet
<1> QED BY <1>3, <1>4, <1>5

\* A start reads exactly what the tables hold, or saves a new wallet's balance.
LEMMA BootTrails ==
    ASSUME DatabaseInv, PaperBoot
    PROVE  BalanceFirst' /\ Trailing' /\ SavingNeedsDatabase'
<1>1. saving' = "no"
  BY DEF PaperBoot
<1>2. SavingNeedsDatabase'
  BY <1>1 DEF SavingNeedsDatabase
<1>3. CASE Load
  <2>1. dbCash = <<dbCash[1]>>
    <3>1. dbCash \in Seq(Nat) /\ dbCash # << >> /\ Len(dbCash) = 1
      <4>1. dbCash \in Seq(Nat) /\ dbCash # << >> /\ Len(dbCash) <= 1
        BY <1>3 DEF Load, DatabaseInv, TypeInv, PaperTypeOK
      <4>2. Len(dbCash) \in Nat /\ Len(dbCash) # 0
        BY <4>1
      <4>3. Len(dbCash) <= 1
        BY <4>1
      <4>4. \A n \in Nat : n # 0 /\ n <= 1 => n = 1
        OBVIOUS
      <4>5. Len(dbCash) = 1
        BY <4>2, <4>3, <4>4, Zenon
      <4> QED BY <4>1, <4>5
    <3>2. <<dbCash[1]>> \in Seq(Nat) /\ Len(<<dbCash[1]>>) = 1
      BY <3>1
    <3> QED BY <3>1, <3>2, SeqEqual
  <2> QED BY <1>1, <1>2, <1>3, <2>1 DEF Load, DatabaseInv, BalanceFirst,
                                      Trailing, database
<1>4. CASE StartFresh
  <2>1. /\ dbCash = << >> /\ UNCHANGED <<dbHoldings, dbTrades>>
        /\ cash' = StartingBalance /\ holdings' = NoCoins /\ trades' = << >>
        /\ failedStatements' = 0 =>
             failedStatements = 0 /\ dbCash' = <<Stored(StartingBalance)>>
    BY <1>4 DEF StartFresh, NoSavedState, DatabaseInv, TypeInv, PaperTypeOK
  <2>2. <<Stored(StartingBalance)>> # << >>
    OBVIOUS
  <2>3. BalanceFirst'
    BY <2>1, <2>2 DEF BalanceFirst
  <2>4. failedStatements' = 0 => dbHoldings' = NoCoins /\ dbTrades' = << >>
    BY <2>1 DEF DatabaseInv, BalanceFirst
  <2>5. Trailing'
    BY <1>1, <2>1, <2>2, <2>4 DEF Trailing
  <2> QED BY <1>2, <2>3, <2>5
<1>5. CASE StartWithout
  BY <1>1, <1>2, <1>5 DEF StartWithout, DatabaseInv, BalanceFirst, Trailing,
                          database
<1> QED BY <1>3, <1>4, <1>5 DEF PaperBoot

LEMMA DatabaseInvariant == PaperSpec => []DatabaseInv
<1>1. PaperInit => DatabaseInv
  BY TypeInit DEF PaperInit, DatabaseInv, TypeInv, SavingATrade, BalanceFirst,
                  Trailing, SavingNeedsDatabase
<1>2. DatabaseInv /\ [PaperNext]_paperVars => DatabaseInv'
  <2> SUFFICES ASSUME DatabaseInv, [PaperNext]_paperVars
               PROVE  BalanceFirst' /\ Trailing' /\ SavingNeedsDatabase'
    BY TypeNext DEF DatabaseInv
  <2>1. CASE PaperBoot
    BY <2>1, BootTrails
  <2>2. CASE Buy \/ Sell
    BY <2>2, TradeTrails
  <2>3. CASE SaveBalance \/ SaveHolding \/ SaveTrade
    BY <2>3, StatementTrails
  <2>4. CASE Stop \/ UNCHANGED paperVars
    BY <2>4 DEF Stop, paperVars, wallet, database, DatabaseInv, BalanceFirst, Trailing,
                SavingNeedsDatabase
  <2> QED BY <2>1, <2>2, <2>3, <2>4 DEF PaperNext
<1> QED BY <1>1, <1>2, PTL DEF PaperSpec

\* Between trades the tables hold what memory holds, as long as no statement
\* failed: the three saves at the end of buy and sell leave nothing out
\* (paper_trading.cpp:464 and 539).
THEOREM DatabaseFollowsMemory == PaperSpec => []DatabaseFollows
<1>1. DatabaseInv => DatabaseFollows
  <2> SUFFICES ASSUME DatabaseInv, initialized, saving = "no", failedStatements = 0
               PROVE  /\ dbCash \in {<<cash>>, <<Stored(cash)>>}
                      /\ dbHoldings = holdings /\ dbTrades = trades
    BY DEF DatabaseFollows
  <2>1. \A c \in Coins : dbHoldings[c] = holdings[c]
    BY DEF DatabaseInv, Trailing
  <2>2. dbHoldings = holdings
    BY <2>1 DEF DatabaseInv, TypeInv, PaperTypeOK
  <2> QED BY <2>2 DEF DatabaseInv, Trailing
<1> QED BY <1>1, DatabaseInvariant, PTL

\* A restart keeps every trade whose buy or sell has returned; of a trade the
\* stop cut short nothing but its own record is missing (loadState).
THEOREM RestartsKeepTrades == PaperSpec => RestartKeepsTrades
<1> DEFINE Kept == (PaperBoot /\ initialized /\ initialized' /\ failedStatements = 0) =>
                     trades' = IF saving = "no" THEN trades ELSE Front(trades)
<1>1. DatabaseInv /\ [PaperNext]_paperVars => [Kept]_paperVars
  <2> SUFFICES ASSUME DatabaseInv, PaperBoot, initialized, initialized', failedStatements = 0
               PROVE  trades' = IF saving = "no" THEN trades ELSE Front(trades)
    OBVIOUS
  <2>1. Load
    BY DEF PaperBoot, StartFresh, StartWithout, DatabaseInv, Trailing
  <2> QED BY <2>1 DEF Load, DatabaseInv, Trailing
<1> QED BY <1>1, DatabaseInvariant, PTL DEF PaperSpec, RestartKeepsTrades

-----------------------------------------------------------------------------
(* The wallet and the history of its trades.  What a restart would find has *)
(* to agree with the history on file all the time, a trade being saved      *)
(* taken into account, for the wallet to agree with its history afterwards. *)

LEMMA TradeCounts ==
    ASSUME NEW t \in Trades, NEW c
    PROVE  Flow(t) \in Int /\ Gain(t, c) \in Int
<1>1. t.total \in Nat /\ t.quantity \in Nat
  BY DEF Trades
<1> QED BY <1>1 DEF Flow, Gain

\* What has a list's places and one more is the list with that appended.
LEMMA OneMore ==
    ASSUME NEW s \in Seq(Int), NEW x \in Int, NEW l,
           DOMAIN l = 1 .. Len(s) + 1, l = [i \in DOMAIN l |-> l[i]],
           \A i \in 1 .. Len(s) + 1 : l[i] = IF i = Len(s) + 1 THEN x ELSE s[i]
    PROVE  l = Append(s, x)
<1> DEFINE n == Len(s)
           a == Append(s, x)
<1>1. n \in Nat /\ \A i \in 1 .. n : s[i] \in Int
  BY LenProperties, ElementOfSeq
<1>2. a \in Seq(Int) /\ Len(a) = n + 1 /\ a[n + 1] = x /\ \A i \in 1 .. n : a[i] = s[i]
  BY AppendProperties
<1>3. DOMAIN a = 1 .. n + 1 /\ a = [i \in DOMAIN a |-> a[i]]
  BY <1>2, LenProperties, SeqDef
<1> HIDE DEF a
<1>4. \A i \in 1 .. n + 1 : a[i] = l[i]
  BY <1>1, <1>2
<1> HIDE DEF n
<1>5. a = l
  BY <1>3, <1>4 DEF n
<1> QED BY <1>5 DEF a

\* A history that is longer by a trade has its numbers longer by one.
LEMMA LongerBy ==
    ASSUME NEW history \in Seq(Trades), NEW t \in Trades, NEW c
    PROVE  /\ CashBy(Append(history, t)) = CashBy(history) + Flow(t)
           /\ CoinsBy(Append(history, t), c) = CoinsBy(history, c) + Gain(t, c)
           /\ CashBy(history) \in Int /\ CoinsBy(history, c) \in Int
<1> DEFINE longer == Append(history, t)
           n  == Len(history)
           fs == [i \in 1 .. n |-> Flow(history[i])]
           gs == [i \in 1 .. n |-> Gain(history[i], c)]
<1>1. n \in Nat /\ \A i \in 1 .. n : history[i] \in Trades
  BY LenProperties, ElementOfSeq
<1>2. /\ Len(longer) = n + 1 /\ longer[n + 1] = t /\ \A i \in 1 .. n : longer[i] = history[i]
      /\ DOMAIN longer = 1 .. n + 1 /\ DOMAIN history = 1 .. n
  BY AppendProperties, LenProperties
<1> HIDE DEF longer
<1>3. \A i \in 1 .. n : Flow(history[i]) \in Int /\ Gain(history[i], c) \in Int
  BY <1>1, TradeCounts
<1>4. fs \in Seq(Int) /\ Len(fs) = n /\ gs \in Seq(Int) /\ Len(gs) = n
  BY <1>1, <1>3, IsASeq
<1>5. Flow(t) \in Int /\ Gain(t, c) \in Int
  BY TradeCounts
<1>6. [i \in DOMAIN longer |-> Flow(longer[i])] = Append(fs, Flow(t))
  <2> DEFINE ls == [i \in 1 .. n + 1 |-> Flow(longer[i])]
  <2>1. \A i \in 1 .. n + 1 : ls[i] = IF i = n + 1 THEN Flow(t) ELSE fs[i]
    BY <1>1, <1>2
  <2>2. DOMAIN ls = 1 .. n + 1 /\ [i \in DOMAIN longer |-> Flow(longer[i])] = ls
    BY <1>2
  <2>3. ls = [i \in DOMAIN ls |-> ls[i]]
    OBVIOUS
  <2> HIDE DEF fs, ls
  <2>4. /\ DOMAIN ls = 1 .. Len(fs) + 1
        /\ \A i \in 1 .. Len(fs) + 1 : ls[i] = IF i = Len(fs) + 1 THEN Flow(t) ELSE fs[i]
    BY <1>4, <2>1, <2>2
  <2>5. ls = Append(fs, Flow(t))
    BY <1>4, <1>5, <2>3, <2>4, OneMore
  <2> QED BY <2>2, <2>5
<1>7. [i \in DOMAIN longer |-> Gain(longer[i], c)] = Append(gs, Gain(t, c))
  <2> DEFINE ls == [i \in 1 .. n + 1 |-> Gain(longer[i], c)]
  <2>1. \A i \in 1 .. n + 1 : ls[i] = IF i = n + 1 THEN Gain(t, c) ELSE gs[i]
    BY <1>1, <1>2
  <2>2. DOMAIN ls = 1 .. n + 1 /\ [i \in DOMAIN longer |-> Gain(longer[i], c)] = ls
    BY <1>2
  <2>3. ls = [i \in DOMAIN ls |-> ls[i]]
    OBVIOUS
  <2> HIDE DEF gs, ls
  <2>4. /\ DOMAIN ls = 1 .. Len(gs) + 1
        /\ \A i \in 1 .. Len(gs) + 1 : ls[i] = IF i = Len(gs) + 1 THEN Gain(t, c) ELSE gs[i]
    BY <1>4, <2>1, <2>2
  <2>5. ls = Append(gs, Gain(t, c))
    BY <1>4, <1>5, <2>3, <2>4, OneMore
  <2> QED BY <2>2, <2>5
<1>8. CashBy(history) = StartingBalance + AddedUp(fs) /\ CoinsBy(history, c) = AddedUp(gs)
  BY <1>2 DEF CashBy, CoinsBy
<1>9. /\ CashBy(longer) = StartingBalance + AddedUp(Append(fs, Flow(t)))
      /\ CoinsBy(longer, c) = AddedUp(Append(gs, Gain(t, c)))
  BY <1>6, <1>7 DEF CashBy, CoinsBy
<1> HIDE DEF fs, gs
<1>10. /\ AddedUp(Append(fs, Flow(t))) = AddedUp(fs) + Flow(t) /\ AddedUp(fs) \in Int
  BY <1>4, <1>5, AddedUpAppend
<1>11. /\ AddedUp(Append(gs, Gain(t, c))) = AddedUp(gs) + Gain(t, c) /\ AddedUp(gs) \in Int
  BY <1>4, <1>5, AddedUpAppend
<1>12. StartingBalance \in Int
  BY PaperAssumption
<1> QED BY <1>5, <1>8, <1>9, <1>10, <1>11, <1>12 DEF longer

LEMMA NothingTraded == /\ CashBy(<< >>) = StartingBalance /\ \A c : CoinsBy(<< >>, c) = 0
<1>1. \A f : [i \in DOMAIN << >> |-> f[i]] = << >>
  OBVIOUS
<1>2. StartingBalance + 0 = StartingBalance
  BY PaperAssumption
<1> QED BY <1>1, <1>2, AddedUpNothing DEF CashBy, CoinsBy

Near(a, b, d) == a - b <= d /\ b - a <= d

LEMMA NearTwice ==
    ASSUME NEW a \in Int, NEW b \in Int, NEW c \in Int, NEW d \in Nat, NEW e \in Nat,
           Near(a, b, e), Near(b, c, d)
    PROVE  Near(a, c, d + e)
BY DEF Near

LEMMA NearMoved ==
    ASSUME NEW a \in Int, NEW b \in Int, NEW x \in Int, NEW d, Near(a, b, d)
    PROVE  Near(a + x, b + x, d)
<1>1. (a + x) - (b + x) = a - b /\ (b + x) - (a + x) = b - a
  OBVIOUS
<1> QED BY <1>1 DEF Near

\* Rounding moves a balance by half a grain at most.
LEMMA StoredNear ==
    ASSUME NEW balance \in Nat PROVE Near(Stored(balance), balance, Grain \div 2)
<1> DEFINE g == Grain \div 2
           k == (balance + g) \div Grain
           r == (balance + g) % Grain
<1>1. Grain \in Nat /\ Grain > 0
  BY PaperAssumption
<1>2. g \in Nat /\ 2 * g <= Grain /\ Grain <= 2 * g + 1
  BY <1>1
<1>3. k \in Nat /\ r \in 0 .. Grain - 1 /\ balance + g = Grain * k + r
  BY <1>1, <1>2
<1>4. Stored(balance) = k * Grain
  BY DEF Stored
<1> HIDE DEF g, k, r
<1>5. k * Grain = Grain * k /\ k * Grain \in Nat
  BY <1>1, <1>3
<1> DEFINE s == k * Grain
<1>6. s \in Nat /\ balance + g = s + r
  BY <1>3, <1>5
<1> HIDE DEF s
<1>7. Near(s, balance, g)
  BY <1>1, <1>2, <1>3, <1>6 DEF Near
<1> QED BY <1>4, <1>7 DEF s, g

Slack(faults, boots) == faults * MaxAmount + boots * (Grain \div 2)

LEMMA SlackGrows ==
    ASSUME NEW e \in Nat, NEW b \in Nat
    PROVE  /\ Slack(e, b) \in Nat /\ Slack(e + 1, b) = Slack(e, b) + MaxAmount
           /\ Slack(e, b + 1) = Slack(e, b) + (Grain \div 2)
           /\ MaxAmount \in Nat /\ Grain \div 2 \in Nat
<1> DEFINE g == Grain \div 2
<1>1. g \in Nat /\ MaxAmount \in Nat
  BY PaperAssumption
<1> HIDE DEF g
<1>2. /\ e * MaxAmount \in Nat /\ (e + 1) * MaxAmount = e * MaxAmount + MaxAmount
      /\ b * g \in Nat /\ (b + 1) * g = b * g + g
  BY <1>1
<1> QED BY <1>1, <1>2 DEF Slack, g

-----------------------------------------------------------------------------
Faults == tornSaves + failedStatements

\* What the trade being saved did to the balance, and whether its balance may
\* be on file while the trade itself is not.
Due      == IF saving = "no" THEN 0 ELSE Flow(Last(trades))
Unlogged == IF paperUp /\ saving \in {"holding", "trade"} THEN Due ELSE 0

\* The balance a start would find.
Restored == IF dbCash = << >> THEN StartingBalance ELSE dbCash[1]

CashAgrees == paperUp => paperBoots > 0 /\ Near(cash, CashBy(trades), Slack(Faults, paperBoots - 1))
CashOnFile == (paperUp /\ initialized) =>
                  Near(cash - Due, CashBy(dbTrades), Slack(Faults, paperBoots - 1))
FileAgrees == Near(Restored, CashBy(dbTrades) + Unlogged, Slack(Faults, paperBoots))
DueBounded == Near(Due, 0, MaxAmount)
CoinsAgree ==
    Faults = 0 =>
        /\ paperUp => \A c \in Coins : holdings[c] = CoinsBy(trades, c)
        /\ ~paperUp \/ saving # "trade" => \A c \in Coins : dbHoldings[c] = CoinsBy(dbTrades, c)

Agreement == CashAgrees /\ CashOnFile /\ FileAgrees /\ DueBounded /\ CoinsAgree
BooksInv  == DatabaseInv /\ Agreement

LEMMA HistoryCounts ==
    ASSUME NEW history \in Seq(Trades), NEW c \in Coins
    PROVE  CashBy(history) \in Int /\ CoinsBy(history, c) \in Int
<1> DEFINE t == [side |-> "buy", symbol |-> c, quantity |-> 0, total |-> 0]
<1>1. t \in Trades
  BY DEF Trades
<1> HIDE DEF t
<1> QED BY <1>1, LongerBy

Numbers ==
    /\ cash \in Nat /\ Due \in Int /\ Restored \in Nat /\ Faults \in Nat /\ paperBoots \in Nat
    /\ Unlogged \in {0, Due}
    /\ CashBy(trades) \in Int /\ CashBy(dbTrades) \in Int
    /\ paperBoots > 0 => Slack(Faults, paperBoots - 1) \in Nat
    /\ paperBoots > 0 => Slack(Faults, paperBoots) = Slack(Faults, paperBoots - 1) + (Grain \div 2)
    /\ Slack(Faults, paperBoots) \in Nat
    /\ Grain \div 2 \in Nat /\ MaxAmount \in Nat

LEMMA NumbersHold == DatabaseInv => Numbers
<1> SUFFICES ASSUME DatabaseInv PROVE Numbers
  OBVIOUS
<1>1. PaperTypeOK /\ SavingATrade
  BY DEF DatabaseInv, TypeInv
<1>2. CashBy(trades) \in Int /\ CashBy(dbTrades) \in Int
  BY <1>1, HistoryCounts DEF PaperTypeOK
<1>3. Due \in Int
  <2>1. CASE saving = "no"
    BY <2>1 DEF Due
  <2>2. CASE saving # "no"
    <3>1. Last(trades) \in Trades
      BY <1>1, <2>2 DEF SavingATrade, Last, PaperTypeOK
    <3> QED BY <1>1, <2>2, <3>1, TradeCounts DEF Due, PaperTypeOK
  <2> QED BY <2>1, <2>2
<1>4. Restored \in Nat
  BY <1>1, PaperAssumption DEF Restored, PaperTypeOK
<1>5. Faults \in Nat /\ paperBoots \in Nat /\ cash \in Nat
  BY <1>1 DEF Faults, PaperTypeOK
<1>6. Unlogged \in {0, Due}
  BY DEF Unlogged
<1>7. Slack(Faults, paperBoots) \in Nat /\ Grain \div 2 \in Nat /\ MaxAmount \in Nat
  BY <1>5, SlackGrows
<1>8. ASSUME paperBoots > 0
      PROVE  /\ Slack(Faults, paperBoots - 1) \in Nat
             /\ Slack(Faults, paperBoots) = Slack(Faults, paperBoots - 1) + (Grain \div 2)
  <2> DEFINE b == paperBoots - 1
  <2>1. b \in Nat /\ paperBoots = b + 1
    BY <1>5, <1>8
  <2> HIDE DEF b
  <2>2. Slack(Faults, b) \in Nat
    BY <1>5, <2>1, SlackGrows
  <2>3. Slack(Faults, b + 1) = Slack(Faults, b) + (Grain \div 2)
    BY <1>5, <2>1, SlackGrows
  <2> QED BY <2>1, <2>2, <2>3 DEF b
<1> QED BY <1>2, <1>3, <1>4, <1>5, <1>6, <1>7, <1>8 DEF Numbers

\* A statement that failed, or a save that was torn, is worth a trade.
LEMMA AnotherFault ==
    ASSUME DatabaseInv, Faults' = Faults + 1
    PROVE  /\ Slack(Faults', paperBoots) = Slack(Faults, paperBoots) + MaxAmount
           /\ paperBoots > 0 =>
                 Slack(Faults', paperBoots - 1) = Slack(Faults, paperBoots - 1) + MaxAmount
<1>1. Numbers
  BY NumbersHold
<1>2. Slack(Faults + 1, paperBoots) = Slack(Faults, paperBoots) + MaxAmount
  BY <1>1, SlackGrows DEF Numbers
<1>3. ASSUME paperBoots > 0
      PROVE  Slack(Faults + 1, paperBoots - 1) = Slack(Faults, paperBoots - 1) + MaxAmount
  <2>1. paperBoots - 1 \in Nat
    BY <1>1, <1>3 DEF Numbers
  <2> QED BY <1>1, <2>1, SlackGrows DEF Numbers
<1> QED BY <1>2, <1>3


\* A trade is one more entry, of what it moved.
Traded(t) ==
    /\ paperUp /\ saving = "no"
    /\ saving' = IF initialized THEN "balance" ELSE "no"
    /\ UNCHANGED <<paperUp, paperBoots, initialized, database, failedStatements, tornSaves>>
    /\ trades' = Append(trades, t)
    /\ cash' = cash + Flow(t)
    /\ Near(Flow(t), 0, MaxAmount)
    /\ \A c \in Coins : holdings'[c] = holdings[c] + Gain(t, c)

LEMMA TradesAre ==
    ASSUME DatabaseInv, Buy \/ Sell PROVE \E t \in Trades : Traded(t)
<1>1. PaperTypeOK
  BY DEF DatabaseInv, TypeInv
<1>2. CASE Buy
  <2>1. PICK c \in Coins, amount \in 1..MaxAmount, fee \in Fees,
             quantity \in 1..MaxQuantity : BuyOf(c, amount, fee, quantity)
    BY <1>2 DEF Buy
  <2> DEFINE t == [side |-> "buy", symbol |-> c, quantity |-> quantity, total |-> amount]
  <2>2. quantity \in Nat /\ amount \in Nat /\ amount <= MaxAmount /\ MaxAmount \in Nat
    BY PaperAssumption
  <2>3. t \in Trades
    BY <2>2 DEF Trades
  <2>4. Flow(t) = - amount
    BY DEF Flow
  <2>5. \A d \in Coins : Gain(t, d) = IF d = c THEN quantity ELSE 0
    BY DEF Gain
  <2>6. trades' = Append(trades, t)
    BY <2>1 DEF BuyOf, Recorded
  <2> HIDE DEF t
  <2>7. cash' = cash + Flow(t)
    BY <1>1, <2>1, <2>2, <2>4 DEF BuyOf, PaperTypeOK
  <2>8. Near(Flow(t), 0, MaxAmount)
    BY <2>2, <2>4 DEF Near
  <2>9. \A d \in Coins : holdings'[d] = holdings[d] + Gain(t, d)
    BY <1>1, <2>1, <2>2, <2>5 DEF BuyOf, PaperTypeOK
  <2> QED BY <1>2, <2>1, <2>3, <2>6, <2>7, <2>8, <2>9 DEF Buy, BuyOf, Recorded, Traded
<1>3. CASE Sell
  <2>1. PICK c \in Coins, requested \in 0..MaxQuantity, gross \in 0..MaxAmount, fee \in Fees :
          SellOf(c, SellQuantity(c, requested), Proceeds(gross, fee))
    BY <1>3 DEF Sell
  <2> DEFINE quantity == SellQuantity(c, requested)
             proceeds == Proceeds(gross, fee)
             t == [side |-> "sell", symbol |-> c, quantity |-> quantity, total |-> proceeds]
  <2>2. quantity \in Nat /\ proceeds \in Nat /\ proceeds <= MaxAmount /\ MaxAmount \in Nat
    BY <1>1, PaperAssumption DEF SellQuantity, Proceeds, PaperTypeOK
  <2>3. t \in Trades
    BY <2>2 DEF Trades
  <2>4. Flow(t) = proceeds
    BY DEF Flow
  <2>5. \A d \in Coins : Gain(t, d) = IF d = c THEN - quantity ELSE 0
    BY DEF Gain
  <2>6. trades' = Append(trades, t)
    BY <2>1 DEF SellOf, Recorded
  <2>10. SellOf(c, quantity, proceeds)
    BY <2>1
  <2> HIDE DEF t, quantity, proceeds
  <2>7. cash' = cash + Flow(t)
    BY <2>4, <2>10 DEF SellOf
  <2>8. Near(Flow(t), 0, MaxAmount)
    BY <2>2, <2>4 DEF Near
  <2>9. \A d \in Coins : holdings'[d] = holdings[d] + Gain(t, d)
    BY <1>1, <2>2, <2>5, <2>10 DEF SellOf, PaperTypeOK
  <2> QED BY <1>3, <2>3, <2>6, <2>7, <2>8, <2>9, <2>10 DEF Sell, SellOf, Recorded, Traded
<1> QED BY <1>2, <1>3

LEMMA LastTraded ==
    ASSUME NEW history \in Seq(Trades), NEW t \in Trades
    PROVE  Last(Append(history, t)) = t
BY DEF Last

LEMMA TradeAgrees ==
    ASSUME DatabaseInv, DatabaseInv', Agreement, Buy \/ Sell PROVE Agreement'
<1>1. Numbers /\ Numbers'
  BY NumbersHold, PTL
<1>2. PICK t \in Trades : Traded(t)
  BY TradesAre
<1>3. trades \in Seq(Trades) /\ Flow(t) \in Int
  BY TradeCounts, <1>2 DEF DatabaseInv, TypeInv, PaperTypeOK
<1>4. CashBy(trades') = CashBy(trades) + Flow(t)
  <2>1. CashBy(Append(trades, t)) = CashBy(trades) + Flow(t)
    BY <1>3, LongerBy
  <2> QED BY <1>2, <2>1 DEF Traded
<1>5. Due = 0 /\ Unlogged = 0 /\ Unlogged' = 0
  BY <1>2 DEF Traded, Due, Unlogged
<1>6. Due' \in {0, Flow(t)} /\ (initialized => Due' = Flow(t))
  <2>1. Last(trades') = t
    BY <1>2, <1>3, LastTraded DEF Traded
  <2> QED BY <1>2, <2>1 DEF Traded, Due
<1>7. /\ Faults' = Faults /\ paperBoots' = paperBoots /\ paperUp /\ paperUp' /\ Restored' = Restored
      /\ dbTrades' = dbTrades /\ dbHoldings' = dbHoldings /\ initialized' = initialized
      /\ saving = "no" /\ saving' # "trade" /\ cash' = cash + Flow(t)
  BY <1>2 DEF Traded, Faults, Restored, database
<1>8. CashAgrees'
  <2>1. paperBoots > 0 /\ Near(cash, CashBy(trades), Slack(Faults, paperBoots - 1))
    BY <1>7 DEF Agreement, CashAgrees
  <2>2. cash \in Int /\ CashBy(trades) \in Int
    BY <1>1 DEF Numbers
  <2>3. Near(cash', CashBy(trades'), Slack(Faults, paperBoots - 1))
    BY <1>3, <1>4, <1>7, <2>1, <2>2, NearMoved
  <2> QED BY <1>7, <2>1, <2>3 DEF CashAgrees
<1>9. CashOnFile'
  <2>1. initialized => cash' - Due' = cash - Due
    BY <1>1, <1>3, <1>5, <1>6, <1>7 DEF Numbers
  <2> QED BY <1>7, <2>1 DEF Agreement, CashOnFile
<1>10. FileAgrees'
  BY <1>5, <1>7 DEF Agreement, FileAgrees
<1>11. DueBounded'
  BY <1>1, <1>2, <1>6 DEF DueBounded, Traded, Near, Numbers
<1>12. CoinsAgree'
  <2> SUFFICES ASSUME Faults = 0, NEW c \in Coins
               PROVE  holdings'[c] = CoinsBy(trades', c) /\ dbHoldings[c] = CoinsBy(dbTrades, c)
    BY <1>7 DEF CoinsAgree
  <2>1. holdings[c] = CoinsBy(trades, c) /\ dbHoldings[c] = CoinsBy(dbTrades, c)
    BY <1>7 DEF Agreement, CoinsAgree
  <2>2. CoinsBy(Append(trades, t), c) = CoinsBy(trades, c) + Gain(t, c)
    BY <1>3, LongerBy
  <2> QED BY <1>2, <2>1, <2>2 DEF Traded
<1> QED BY <1>8, <1>9, <1>10, <1>11, <1>12 DEF Agreement

\* A statement that fails changes the tables in nothing.
LEMMA FailureAgrees ==
    ASSUME DatabaseInv, DatabaseInv', Agreement,
           saving # "no", saving' # "balance", paperUp, initialized, Faults' = Faults + 1,
           UNCHANGED <<paperUp, paperBoots, initialized, wallet, database>>
    PROVE  Agreement'
<1>1. Numbers /\ Numbers'
  BY NumbersHold, PTL
<1>2. /\ Slack(Faults', paperBoots) = Slack(Faults, paperBoots) + MaxAmount
      /\ paperBoots > 0 =>
            Slack(Faults', paperBoots - 1) = Slack(Faults, paperBoots - 1) + MaxAmount
  BY AnotherFault
<1>3. Due' \in {0, Due}
  BY DEF Due, wallet
<1>4. /\ cash' = cash /\ trades' = trades /\ dbTrades' = dbTrades /\ Restored' = Restored
      /\ paperUp' = paperUp /\ paperBoots' = paperBoots /\ initialized' = initialized
  BY DEF wallet, database, Restored
<1>5. CashAgrees'
  BY <1>1, <1>2, <1>4 DEF Agreement, CashAgrees, Numbers, Near
<1>6. CashOnFile'
  BY <1>1, <1>2, <1>3, <1>4 DEF Agreement, CashAgrees, CashOnFile, DueBounded, Numbers, Near
<1>7. Unlogged' \in {0, Due}
  BY <1>3 DEF Unlogged
<1>8. FileAgrees'
  BY <1>1, <1>2, <1>4, <1>7 DEF Agreement, FileAgrees, DueBounded, Numbers, Near
<1>9. DueBounded'
  <2>1. CASE Due' = Due
    BY <2>1 DEF Agreement, DueBounded
  <2>2. CASE Due' = 0
    BY <1>1, <2>2 DEF DueBounded, Numbers, Near
  <2> QED BY <1>3, <2>1, <2>2
<1>10. CoinsAgree'
  BY <1>1 DEF CoinsAgree, Numbers
<1> QED BY <1>5, <1>6, <1>8, <1>9, <1>10 DEF Agreement


LEMMA SaveAgrees ==
    ASSUME DatabaseInv, DatabaseInv', Agreement, SaveBalance \/ SaveHolding \/ SaveTrade
    PROVE  Agreement'
<1>1. Numbers /\ Numbers' /\ PaperTypeOK
  BY NumbersHold, PTL DEF DatabaseInv, TypeInv
<1>2. /\ paperUp /\ initialized /\ saving # "no" /\ saving' # "balance"
      /\ UNCHANGED <<paperUp, paperBoots, initialized, wallet, tornSaves>>
  BY DEF SaveBalance, SaveHolding, SaveTrade, DatabaseInv, SavingNeedsDatabase
<1>3. CASE failedStatements' = failedStatements + 1
  <2>1. UNCHANGED database
    BY <1>1, <1>3 DEF SaveBalance, SaveHolding, SaveTrade, Statement, database, PaperTypeOK
  <2>2. Faults' = Faults + 1
    BY <1>1, <1>2, <1>3 DEF Faults, PaperTypeOK
  <2> QED BY <1>2, <2>1, <2>2, FailureAgrees
<1>4. ASSUME failedStatements' = failedStatements PROVE Agreement'
  <2>1. Faults' = Faults /\ cash' = cash /\ holdings' = holdings /\ trades' = trades
    BY <1>2, <1>4 DEF Faults, wallet
  <2>2. CashAgrees'
    BY <1>2, <2>1 DEF Agreement, CashAgrees
  <2>3. CASE SaveBalance
    <3>1. /\ saving = "balance" /\ saving' = "holding" /\ Restored' = Stored(cash)
          /\ dbHoldings' = dbHoldings /\ dbTrades' = dbTrades
      BY <1>1, <1>4, <2>3 DEF SaveBalance, Statement, Restored, PaperTypeOK
    <3>2. Due' = Due /\ Unlogged' = Due
      BY <1>2, <2>1, <3>1 DEF Due, Unlogged
    <3>3. Near(Stored(cash), cash, Grain \div 2)
      BY <1>1, StoredNear DEF PaperTypeOK
    <3>4. CashOnFile' /\ DueBounded' /\ CoinsAgree'
      BY <1>2, <2>1, <3>1, <3>2 DEF Agreement, CashOnFile, DueBounded, CoinsAgree
    <3>5. paperBoots > 0 /\ Near(cash - Due, CashBy(dbTrades), Slack(Faults, paperBoots - 1))
      BY <1>2 DEF Agreement, CashAgrees, CashOnFile
    <3>6. Near(Restored', CashBy(dbTrades) + Due, Slack(Faults, paperBoots))
      BY <1>1, <3>1, <3>3, <3>5 DEF Numbers, Near
    <3>7. FileAgrees'
      BY <1>2, <2>1, <3>1, <3>2, <3>6 DEF FileAgrees
    <3> QED BY <2>2, <3>4, <3>7 DEF Agreement
  <2>4. CASE SaveHolding
    <3>1. /\ saving = "holding" /\ saving' = "trade" /\ dbCash' = dbCash /\ dbTrades' = dbTrades
      BY <2>4 DEF SaveHolding
    <3>2. Due' = Due /\ Unlogged' = Unlogged /\ Restored' = Restored
      BY <1>2, <2>1, <3>1 DEF Due, Unlogged, Restored
    <3>3. CashOnFile' /\ FileAgrees' /\ DueBounded' /\ CoinsAgree'
      BY <1>2, <2>1, <3>1, <3>2 DEF Agreement, CashOnFile, FileAgrees, DueBounded, CoinsAgree
    <3> QED BY <2>2, <3>3 DEF Agreement
  <2>5. CASE SaveTrade
    <3> DEFINE t == Last(trades)
    <3>1. /\ saving = "trade" /\ saving' = "no" /\ dbCash' = dbCash /\ dbHoldings' = dbHoldings
          /\ dbTrades' = Append(dbTrades, t)
      BY <1>1, <1>4, <2>5 DEF SaveTrade, Statement, PaperTypeOK
    <3>2. t \in Trades
      BY <1>1, <1>2 DEF DatabaseInv, TypeInv, SavingATrade, Last, PaperTypeOK
    <3>3. Due = Flow(t) /\ Unlogged = Flow(t) /\ Due' = 0 /\ Unlogged' = 0
      BY <1>2, <3>1 DEF Due, Unlogged
    <3>4. Restored' = Restored
      BY <3>1 DEF Restored
    <3> HIDE DEF t
    <3>5. CashBy(dbTrades') = CashBy(dbTrades) + Flow(t)
      <4>1. dbTrades \in Seq(Trades)
        BY <1>1 DEF PaperTypeOK
      <4>2. CashBy(Append(dbTrades, t)) = CashBy(dbTrades) + Flow(t)
        BY <3>2, <4>1, LongerBy
      <4> QED BY <3>1, <4>2
    <3>6. CashOnFile'
      BY <1>1, <1>2, <2>1, <3>3, <3>5 DEF Agreement, CashOnFile, Numbers, Near
    <3>7. FileAgrees'
      BY <1>1, <1>2, <2>1, <3>3, <3>4, <3>5 DEF Agreement, FileAgrees, Numbers, Near
    <3>8. DueBounded'
      BY <1>1, <3>3 DEF DueBounded, Numbers, Near
    <3>9. CoinsAgree'
      <4> SUFFICES ASSUME Faults = 0, NEW c \in Coins
                   PROVE  holdings[c] = CoinsBy(trades, c) /\ dbHoldings[c] = CoinsBy(dbTrades', c)
        BY <2>1, <3>1 DEF CoinsAgree
      <4>1. holdings[c] = CoinsBy(trades, c)
        BY <1>2 DEF Agreement, CoinsAgree
      <4>2. failedStatements = 0
        BY <1>1 DEF Faults, PaperTypeOK
      <4>3. dbHoldings[c] = holdings[c] /\ dbTrades' = trades
        BY <1>2, <1>4, <2>1, <3>1, <4>2 DEF DatabaseInv, Trailing
      <4> QED BY <4>1, <4>3
    <3> QED BY <2>2, <3>6, <3>7, <3>8, <3>9 DEF Agreement
  <2> QED BY <2>3, <2>4, <2>5
<1> QED BY <1>3, <1>4 DEF SaveBalance, SaveHolding, SaveTrade, Statement

LEMMA StopAgrees ==
    ASSUME DatabaseInv, DatabaseInv', Agreement, Stop PROVE Agreement'
<1>1. Numbers /\ Numbers' /\ PaperTypeOK
  BY NumbersHold, PTL DEF DatabaseInv, TypeInv
<1>2. /\ ~paperUp' /\ paperUp /\ Due' = Due /\ Unlogged' = 0 /\ Restored' = Restored
      /\ paperBoots' = paperBoots /\ dbTrades' = dbTrades /\ dbHoldings' = dbHoldings
  BY DEF Stop, Due, Unlogged, Restored, wallet, database
<1>3. CASE saving = "no"
  <2>1. Faults' = Faults /\ Unlogged = 0
    BY <1>3 DEF Stop, Faults, Unlogged
  <2> QED BY <1>2, <1>3, <2>1 DEF Agreement, CashAgrees, CashOnFile, FileAgrees, DueBounded,
                                  CoinsAgree
<1>4. CASE saving # "no"
  <2>1. Faults' = Faults + 1
    BY <1>1, <1>4 DEF Stop, Faults, PaperTypeOK
  <2>2. Slack(Faults', paperBoots) = Slack(Faults, paperBoots) + MaxAmount
    BY <2>1, AnotherFault
  <2>3. FileAgrees'
    BY <1>1, <1>2, <2>2 DEF Agreement, FileAgrees, DueBounded, Numbers, Near
  <2>4. CoinsAgree'
    BY <1>1, <2>1 DEF CoinsAgree, Numbers
  <2> QED BY <1>2, <2>3, <2>4 DEF Agreement, CashAgrees, CashOnFile, DueBounded
<1> QED BY <1>3, <1>4


\* A start has the balance on file, or none, and so the history on file, or none.
LEMMA BootAgrees ==
    ASSUME DatabaseInv, DatabaseInv', Agreement, PaperBoot PROVE Agreement'
<1>1. Numbers /\ Numbers' /\ PaperTypeOK
  BY NumbersHold, PTL DEF DatabaseInv, TypeInv
<1>2. /\ ~paperUp /\ paperUp' /\ paperBoots' = paperBoots + 1 /\ saving' = "no"
      /\ Due' = 0 /\ Unlogged = 0 /\ Unlogged' = 0 /\ tornSaves' = tornSaves
  BY DEF PaperBoot, Due, Unlogged
<1>3. paperBoots' > 0 /\ paperBoots' - 1 = paperBoots
  BY <1>1, <1>2 DEF Numbers
<1>4. Near(Restored, CashBy(dbTrades), Slack(Faults, paperBoots))
  BY <1>1, <1>2 DEF Agreement, FileAgrees, Numbers
<1>5. /\ CashBy(<< >>) = StartingBalance /\ StartingBalance \in Nat
      /\ \A c \in Coins : CoinsBy(<< >>, c) = 0 /\ NoCoins[c] = 0
  BY NothingTraded, PaperAssumption DEF NoCoins
<1>6. DueBounded'
  BY <1>1, <1>2 DEF DueBounded, Numbers, Near
<1>7. /\ Slack(Faults, paperBoots + 1) = Slack(Faults, paperBoots) + (Grain \div 2)
      /\ Slack(Faults, paperBoots + 1) \in Nat
  <2>1. Slack(Faults, paperBoots + 1) = Slack(Faults, paperBoots) + (Grain \div 2)
    BY <1>1, SlackGrows DEF Numbers
  <2> QED BY <1>1, <2>1 DEF Numbers
<1>12. Near(Restored, CashBy(dbTrades), Slack(Faults, paperBoots + 1))
  BY <1>1, <1>4, <1>7 DEF Numbers, Near
<1>8. ASSUME dbHoldings' = dbHoldings, dbTrades' = dbTrades, Faults' = 0 => Faults = 0,
             \/ holdings' = dbHoldings /\ trades' = dbTrades
             \/ holdings' = NoCoins /\ trades' = << >>
      PROVE  CoinsAgree'
  <2>1. Faults = 0 => \A c \in Coins : dbHoldings[c] = CoinsBy(dbTrades, c)
    BY <1>2 DEF Agreement, CoinsAgree
  <2> QED BY <1>2, <1>5, <1>8, <2>1 DEF CoinsAgree
<1>9. CASE Load
  <2>1. /\ Faults' = Faults /\ cash' = Restored /\ Restored' = Restored
        /\ holdings' = dbHoldings /\ trades' = dbTrades /\ UNCHANGED <<dbHoldings, dbTrades>>
    BY <1>2, <1>9 DEF Load, Faults, Restored, database
  <2>2. CashAgrees' /\ CashOnFile'
    BY <1>1, <1>2, <1>3, <1>4, <2>1 DEF CashAgrees, CashOnFile, Numbers
  <2>3. FileAgrees'
    BY <1>1, <1>2, <1>12, <2>1 DEF FileAgrees, Numbers
  <2>4. CoinsAgree'
    <3>1. (Faults' = 0 => Faults = 0) /\ holdings' = dbHoldings /\ trades' = dbTrades
      BY <2>1
    <3>2. dbHoldings' = dbHoldings /\ dbTrades' = dbTrades
      BY <2>1
    <3> QED BY <1>8, <3>1, <3>2
  <2> QED BY <1>6, <2>2, <2>3, <2>4 DEF Agreement
<1>10. CASE StartWithout
  <2>1. /\ Faults' = Faults /\ cash' = StartingBalance /\ Restored' = Restored /\ ~initialized'
        /\ holdings' = NoCoins /\ trades' = << >> /\ UNCHANGED <<dbHoldings, dbTrades>>
    BY <1>2, <1>10 DEF StartWithout, NoSavedState, Faults, Restored, database
  <2>2. CashAgrees' /\ CashOnFile'
    BY <1>1, <1>2, <1>3, <1>5, <1>12, <2>1 DEF CashAgrees, CashOnFile, Numbers, Near
  <2>3. FileAgrees'
    BY <1>1, <1>2, <1>12, <2>1 DEF FileAgrees, Numbers
  <2> QED BY <1>6, <1>8, <2>1, <2>2, <2>3 DEF Agreement
<1>11. CASE StartFresh
  <2>1. /\ cash' = StartingBalance /\ Restored = StartingBalance
        /\ holdings' = NoCoins /\ trades' = << >> /\ UNCHANGED <<dbHoldings, dbTrades>>
    BY <1>11 DEF StartFresh, NoSavedState, Restored
  <2>2. \/ Restored' = Stored(StartingBalance) /\ Faults' = Faults
        \/ Restored' = Restored /\ Faults' = Faults + 1
    <3> DEFINE b == Stored(StartingBalance)
    <3>1. CASE dbCash' = <<b>> /\ failedStatements' = failedStatements
      <4>1. <<b>> # << >> /\ <<b>>[1] = b
        OBVIOUS
      <4> HIDE DEF b
      <4>2. Restored' = b
        BY <3>1, <4>1 DEF Restored
      <4>3. Faults' = Faults
        BY <1>2, <3>1 DEF Faults
      <4> QED BY <4>2, <4>3 DEF b
    <3>2. CASE dbCash' = dbCash /\ failedStatements' = failedStatements + 1
      <4>1. Restored' = Restored
        BY <3>2 DEF Restored
      <4>2. Faults' = Faults + 1
        BY <1>1, <1>2, <3>2 DEF Faults, PaperTypeOK
      <4> QED BY <4>1, <4>2
    <3> QED BY <1>11, <3>1, <3>2 DEF StartFresh
  <2>3. Slack(Faults, paperBoots) <= Slack(Faults', paperBoots) /\ Slack(Faults', paperBoots) \in Nat
    <3>1. CASE Faults' = Faults
      BY <1>1, <3>1 DEF Numbers
    <3>2. CASE Faults' = Faults + 1
      <4>1. Slack(Faults', paperBoots) = Slack(Faults, paperBoots) + MaxAmount
        BY <3>2, AnotherFault
      <4> QED BY <1>1, <4>1 DEF Numbers
    <3> QED BY <2>2, <3>1, <3>2
  <2>4. CashAgrees'
    BY <1>1, <1>2, <1>3, <1>5, <1>12, <2>1 DEF CashAgrees, Numbers, Near
  <2>5. Near(StartingBalance, CashBy(dbTrades), Slack(Faults', paperBoots))
    <3> DEFINE x == Slack(Faults', paperBoots)
               y == Slack(Faults, paperBoots)
    <3>1. x \in Nat /\ y \in Nat /\ y <= x /\ Near(Restored, CashBy(dbTrades), y)
      BY <1>1, <1>4, <2>3 DEF Numbers
    <3> HIDE DEF x, y
    <3>2. Near(Restored, CashBy(dbTrades), x)
      BY <1>1, <3>1 DEF Near, Numbers
    <3> QED BY <2>1, <3>2 DEF x
  <2>6. CashOnFile'
    BY <1>1, <1>2, <1>3, <1>5, <2>1, <2>5 DEF CashOnFile
  <2>7. Near(Stored(StartingBalance), StartingBalance, Grain \div 2) /\ Stored(StartingBalance) \in Nat
    BY <1>5, StoredNear, StoredType
  <2>8. Near(Restored', StartingBalance, Grain \div 2)
    <3>1. CASE Restored' = StartingBalance
      BY <1>1, <1>5, <3>1 DEF Near, Numbers
    <3>2. CASE Restored' = Stored(StartingBalance)
      BY <2>7, <3>2
    <3> QED BY <2>1, <2>2, <3>1, <3>2
  <2>9. Slack(Faults', paperBoots + 1) = Slack(Faults', paperBoots) + (Grain \div 2)
    BY <1>1, SlackGrows DEF Numbers
  <2>10. Near(Restored', CashBy(dbTrades), Slack(Faults', paperBoots + 1))
    <3> DEFINE x == Slack(Faults', paperBoots)
               y == Slack(Faults', paperBoots + 1)
               g == Grain \div 2
    <3>1. x \in Nat /\ g \in Nat /\ y = x + g
      BY <1>1, <2>3, <2>9 DEF Numbers
    <3>2. Near(StartingBalance, CashBy(dbTrades), x) /\ Near(Restored', StartingBalance, g)
      BY <2>5, <2>8
    <3> HIDE DEF x, y, g
    <3>3. Near(Restored', CashBy(dbTrades), y)
      <4>1. StartingBalance \in Int /\ CashBy(dbTrades) \in Int /\ Restored' \in Int
        BY <1>1, <1>5 DEF Numbers
      <4>2. Near(Restored', CashBy(dbTrades), x + g)
        BY <3>1, <3>2, <4>1, NearTwice
      <4> QED BY <3>1, <4>2
    <3> QED BY <3>3 DEF y
  <2>11. FileAgrees'
    BY <1>1, <1>2, <2>1, <2>10 DEF FileAgrees, Numbers
  <2>12. Faults' = 0 => Faults = 0
    BY <1>1, <2>2 DEF Numbers
  <2> QED BY <1>6, <1>8, <2>1, <2>4, <2>6, <2>11, <2>12 DEF Agreement
<1> QED BY <1>9, <1>10, <1>11 DEF PaperBoot

LEMMA BooksInvariant == PaperSpec => []BooksInv
<1>1. PaperInit => Agreement
  <2> SUFFICES ASSUME PaperInit PROVE Agreement
    OBVIOUS
  <2>1. /\ Due = 0 /\ Unlogged = 0 /\ Restored = StartingBalance /\ Faults = 0 /\ paperBoots = 0
        /\ ~paperUp /\ dbTrades = << >> /\ \A c \in Coins : dbHoldings[c] = 0
    BY DEF PaperInit, Due, Unlogged, Restored, Faults, NoCoins
  <2>2. CashBy(<< >>) = StartingBalance /\ \A c : CoinsBy(<< >>, c) = 0
    BY NothingTraded
  <2>3. Slack(0, 0) \in Nat /\ MaxAmount \in Nat /\ StartingBalance \in Nat
    BY SlackGrows, PaperAssumption
  <2>4. FileAgrees /\ DueBounded
    BY <2>1, <2>2, <2>3 DEF FileAgrees, DueBounded, Near
  <2> QED BY <2>1, <2>2, <2>4 DEF Agreement, CashAgrees, CashOnFile, CoinsAgree
<1>2. DatabaseInv /\ DatabaseInv' /\ Agreement /\ [PaperNext]_paperVars => Agreement'
  <2> SUFFICES ASSUME DatabaseInv, DatabaseInv', Agreement, [PaperNext]_paperVars
               PROVE  Agreement'
    OBVIOUS
  <2>1. CASE UNCHANGED paperVars
    BY <2>1 DEF paperVars, wallet, database, Agreement, CashAgrees, CashOnFile, FileAgrees,
                DueBounded, CoinsAgree, Due, Unlogged, Restored, Faults
  <2> QED BY <2>1, BootAgrees, TradeAgrees, SaveAgrees, StopAgrees DEF PaperNext
<1> QED BY <1>1, <1>2, DatabaseInvariant, PTL DEF PaperSpec, BooksInv

\* The wallet agrees with the history of its trades: the balance to one trade
\* for each save that failed or was torn and half a grain for each restart,
\* the coins exactly unless a save failed or was torn (buy, sell, loadState
\* and the three saves, paper_trading.cpp:405, 495 and 139).
THEOREM BooksAgree == PaperSpec => []BooksMatchHistory
<1>1. BooksInv => BooksMatchHistory
  <2> SUFFICES ASSUME BooksInv, paperUp
               PROVE  /\ Distance(cash, CashBy(trades)) <= Slack(Faults, paperBoots - 1)
                      /\ tornSaves = 0 /\ failedStatements = 0 =>
                             \A c \in Coins : holdings[c] = CoinsBy(trades, c)
    BY DEF BooksMatchHistory, Slack, Faults
  <2>1. Numbers
    BY NumbersHold DEF BooksInv
  <2>2. paperBoots > 0 /\ Near(cash, CashBy(trades), Slack(Faults, paperBoots - 1))
    BY DEF BooksInv, Agreement, CashAgrees
  <2>3. Distance(cash, CashBy(trades)) <= Slack(Faults, paperBoots - 1)
    BY <2>1, <2>2 DEF Numbers, Near, Distance
  <2>4. tornSaves = 0 /\ failedStatements = 0 => Faults = 0
    BY DEF Faults
  <2> QED BY <2>3, <2>4 DEF BooksInv, Agreement, CoinsAgree
<1> QED BY <1>1, BooksInvariant, PTL
=============================================================================
