---------------------------- MODULE PaperTrading ----------------------------
(***************************************************************************)
(* MKPaperTrading (crypto/paper_trading.cpp): a wallet of play money, the  *)
(* coins it holds and the trades it made, kept in memory and written       *)
(* through to three tables of an SQLite file.  A trade is applied to       *)
(* memory at once and then saved by three statements, each its own         *)
(* transaction, whose errors are ignored.                                  *)
(*                                                                         *)
(* Money and quantities are whole numbers.  Prices and slippage decide     *)
(* only which quantity or which proceeds a trade has, so those are chosen  *)
(* freely from the bounds below.                                           *)
(***************************************************************************)
EXTENDS Integers, Sequences, SequencesExt, Lists

CONSTANTS
    Coins,
    StartingBalance,    \* STARTING_BALANCE
    Fees,               \* gas and DEX fees a trade may cost
    Grain,              \* the step to_string() rounds the saved balance to
    MaxAmount,          \* bound: dollars a trade spends or yields
    MaxQuantity,        \* bound: units one buy gets
    MaxTrades,          \* bound: trades in the history
    MaxPaperBoots,      \* bound: starts of the process
    MaxFailedStatements \* bound: statements that fail

ASSUME PaperAssumption ==
    /\ StartingBalance \in Nat /\ Fees \subseteq Nat
    /\ Grain \in Nat /\ Grain > 0
    /\ MaxAmount \in Nat /\ MaxQuantity \in Nat /\ MaxTrades \in Nat
    /\ MaxPaperBoots \in Nat /\ MaxFailedStatements \in Nat

VARIABLES
    paperUp, paperBoots,
    initialized,        \* initialized_: the database could be opened
    cash,               \* cashBalance_
    holdings,           \* holdings_: coin -> quantity, 0 for a coin not held
    trades,             \* tradeHistory_
    saving, coin,       \* next statement of the trade being saved, and its coin
    dbCash,             \* paper_balance: its rows' cash_usd (no row or one)
    dbHoldings,         \* paper_portfolio, 0 for a coin without a row
    dbTrades,           \* paper_trades, by id
    failedStatements,        \* history: statements that failed
    tornSaves           \* history: stops between the statements of a trade

wallet   == <<cash, holdings, trades>>
database == <<dbCash, dbHoldings, dbTrades>>
paperVars == <<paperUp, paperBoots, initialized, wallet, saving, coin, database,
               failedStatements, tornSaves>>

Trades == [side : {"buy", "sell"}, symbol : Coins, quantity : Nat, total : Nat]

NoCoins == [c \in Coins |-> 0]

\* A balance is saved with six decimals, to the nearest.
Stored(balance) == ((balance + (Grain \div 2)) \div Grain) * Grain

-----------------------------------------------------------------------------
(* The constructor: with a saved balance everything is loaded; without one *)
(* the wallet is new and its balance is saved; without a database it is    *)
(* new and nothing is saved.                                               *)

NoSavedState ==
    /\ cash' = StartingBalance
    /\ holdings' = NoCoins
    /\ trades' = << >>

\* Variant: the trade history is not loaded.
LoadWithoutHistory ==
    /\ initialized' = TRUE /\ dbCash # << >>
    /\ cash' = dbCash[1]
    /\ holdings' = dbHoldings
    /\ trades' = << >>
    /\ UNCHANGED <<database, failedStatements>>

Load ==
    /\ initialized' = TRUE /\ dbCash # << >>
    /\ cash' = dbCash[1]
    /\ holdings' = dbHoldings
    /\ trades' = dbTrades
    /\ UNCHANGED <<database, failedStatements>>

StartFresh ==
    /\ initialized' = TRUE /\ dbCash = << >>
    /\ NoSavedState
    /\ \/ dbCash' = <<Stored(StartingBalance)>> /\ UNCHANGED failedStatements
       \/ /\ failedStatements < MaxFailedStatements
          /\ failedStatements' = failedStatements + 1
          /\ UNCHANGED dbCash
    /\ UNCHANGED <<dbHoldings, dbTrades>>

StartWithout ==
    /\ initialized' = FALSE
    /\ NoSavedState
    /\ UNCHANGED <<database, failedStatements>>

PaperInit ==
    /\ paperUp = FALSE
    /\ paperBoots = 0
    /\ initialized = FALSE
    /\ cash = StartingBalance
    /\ holdings = NoCoins
    /\ trades = << >>
    /\ saving = "no"
    /\ coin \in Coins
    /\ dbCash = << >>
    /\ dbHoldings = NoCoins
    /\ dbTrades = << >>
    /\ failedStatements = 0
    /\ tornSaves = 0

PaperBoot ==
    /\ ~paperUp /\ paperBoots < MaxPaperBoots
    /\ paperUp' = TRUE
    /\ paperBoots' = paperBoots + 1
    /\ Load \/ StartFresh \/ StartWithout
    /\ saving' = "no"
    /\ UNCHANGED <<coin, tornSaves>>

-----------------------------------------------------------------------------
(* Trading.                                                                *)

\* tradeHistory_.push_back, then the three saves, which do nothing without a
\* database.
Recorded(side, c, quantity, total) ==
    /\ Len(trades) < MaxTrades
    /\ trades' = Append(trades, [side |-> side, symbol |-> c,
                                 quantity |-> quantity, total |-> total])
    /\ coin' = c
    /\ saving' = IF initialized THEN "balance" ELSE "no"
    /\ UNCHANGED <<paperUp, paperBoots, initialized, database, failedStatements,
                   tornSaves>>

\* Variant: the balance is charged what is left after the fees.
BuyCharged(c, amount, fee, quantity) ==
    /\ amount <= cash
    /\ fee < amount
    /\ cash' = cash - (amount - fee)
    /\ holdings' = [holdings EXCEPT ![c] = @ + quantity]
    /\ Recorded("buy", c, quantity, amount)

\* buy: refused without the funds, without a price, or when the fees eat it up.
BuyOf(c, amount, fee, quantity) ==
    /\ amount <= cash
    /\ fee < amount
    /\ cash' = cash - amount
    /\ holdings' = [holdings EXCEPT ![c] = @ + quantity]
    /\ Recorded("buy", c, quantity, amount)

Buy ==
    /\ paperUp /\ saving = "no"
    /\ \E c \in Coins, amount \in 1..MaxAmount, fee \in Fees,
          quantity \in 1..MaxQuantity : BuyOf(c, amount, fee, quantity)

\* What sell(symbol, requested) sells: all for 0, or when more is asked for.
SellQuantity(c, requested) ==
    IF requested = 0 \/ requested >= holdings[c] THEN holdings[c] ELSE requested

\* What is received: never less than nothing.
Proceeds(gross, fee) == IF gross < fee THEN 0 ELSE gross - fee

\* sell: refused for a coin that is not held, or without a price.
SellOf(c, quantity, proceeds) ==
    /\ holdings[c] > 0
    /\ cash' = cash + proceeds
    /\ holdings' = [holdings EXCEPT ![c] = @ - quantity]
    /\ Recorded("sell", c, quantity, proceeds)

Sell ==
    /\ paperUp /\ saving = "no"
    /\ \E c \in Coins, requested \in 0..MaxQuantity, gross \in 0..MaxAmount,
          fee \in Fees :
         SellOf(c, SellQuantity(c, requested), Proceeds(gross, fee))

-----------------------------------------------------------------------------
(* saveBalance, saveHolding, saveTrade.  A statement that fails changes    *)
(* nothing, and the next one is tried all the same.                        *)

\* The statement succeeds or fails.
Statement(success, rows) ==
    \/ success /\ UNCHANGED failedStatements
    \/ /\ failedStatements < MaxFailedStatements
       /\ failedStatements' = failedStatements + 1
       /\ UNCHANGED rows

SaveBalance ==
    /\ paperUp /\ saving = "balance"
    /\ Statement(dbCash' = <<Stored(cash)>>, dbCash)
    /\ saving' = "holding"
    /\ UNCHANGED <<paperUp, paperBoots, initialized, wallet, coin, dbHoldings,
                   dbTrades, tornSaves>>

\* Variant: the row is updated, and a coin without one gets none.
SaveHoldingUpdated ==
    /\ paperUp /\ saving = "holding"
    /\ Statement(dbHoldings' = [dbHoldings EXCEPT ![coin] =
                     IF @ = 0 THEN @ ELSE holdings[coin]],
                 dbHoldings)
    /\ saving' = "trade"
    /\ UNCHANGED <<paperUp, paperBoots, initialized, wallet, coin, dbCash, dbTrades,
                   tornSaves>>

\* The coin's row is replaced, or deleted when nothing is held any more.
SaveHolding ==
    /\ paperUp /\ saving = "holding"
    /\ Statement(dbHoldings' = [dbHoldings EXCEPT ![coin] = holdings[coin]],
                 dbHoldings)
    /\ saving' = "trade"
    /\ UNCHANGED <<paperUp, paperBoots, initialized, wallet, coin, dbCash, dbTrades,
                   tornSaves>>

SaveTrade ==
    /\ paperUp /\ saving = "trade"
    /\ Statement(dbTrades' = Append(dbTrades, Last(trades)), dbTrades)
    /\ saving' = "no"
    /\ UNCHANGED <<paperUp, paperBoots, initialized, wallet, coin, dbCash, dbHoldings,
                   tornSaves>>

\* The process ends or dies: nothing is saved on the way out.
Stop ==
    /\ paperUp
    /\ paperUp' = FALSE
    /\ tornSaves' = IF saving = "no" THEN tornSaves ELSE tornSaves + 1
    /\ UNCHANGED <<paperBoots, initialized, wallet, saving, coin, database,
                   failedStatements>>

PaperNext ==
    PaperBoot \/ Buy \/ Sell \/ SaveBalance \/ SaveHolding \/ SaveTrade \/ Stop

PaperSpec == PaperInit /\ [][PaperNext]_paperVars

-----------------------------------------------------------------------------
(* What should hold.                                                       *)

\* Types; in them, that the balance and the quantities held never fall below
\* zero, whatever is restored after whatever crash.
PaperTypeOK ==
    /\ paperUp \in BOOLEAN /\ paperBoots \in Nat /\ initialized \in BOOLEAN
    /\ cash \in Nat
    /\ holdings \in [Coins -> Nat]
    /\ trades \in Seq(Trades)
    /\ saving \in {"no", "balance", "holding", "trade"}
    /\ coin \in Coins
    /\ dbCash \in Seq(Nat) /\ Len(dbCash) <= 1
    /\ dbHoldings \in [Coins -> Nat]
    /\ dbTrades \in Seq(Trades)
    /\ failedStatements \in Nat /\ tornSaves \in Nat

\* Between trades, and unless a statement has failed, the three tables hold
\* what memory holds (the balance to its rounding).
DatabaseFollows ==
    (initialized /\ saving = "no" /\ failedStatements = 0) =>
        /\ dbCash \in {<<cash>>, <<Stored(cash)>>}
        /\ dbHoldings = holdings
        /\ dbTrades = trades

\* A trade whose call has returned is there after a restart, and of a trade
\* that was being saved at most itself is missing.
RestartKeepsTrades ==
    [][(PaperBoot /\ initialized /\ initialized' /\ failedStatements = 0) =>
         trades' = IF saving = "no" THEN trades ELSE Front(trades)]_paperVars

Distance(a, b) == IF a < b THEN b - a ELSE a - b

\* What a trade does to the balance and to what is held of a coin.
Flow(t)    == IF t.side = "buy" THEN - t.total ELSE t.total
Gain(t, c) == IF t.symbol # c THEN 0 ELSE IF t.side = "buy" THEN t.quantity ELSE - t.quantity

\* What a history of trades says the wallet holds.
CashBy(history)     == StartingBalance + AddedUp([i \in DOMAIN history |-> Flow(history[i])])
CoinsBy(history, c) == AddedUp([i \in DOMAIN history |-> Gain(history[i], c)])

\* The wallet agrees with the history of its trades: the balance but for one
\* trade per torn or failed save, and half a grain per restart; the coins
\* exactly, as long as no save was torn or failed.
BooksMatchHistory ==
    paperUp =>
        /\ Distance(cash, CashBy(trades))
               <= (tornSaves + failedStatements) * MaxAmount
                      + (paperBoots - 1) * (Grain \div 2)
        /\ (tornSaves = 0 /\ failedStatements = 0) =>
                \A c \in Coins : holdings[c] = CoinsBy(trades, c)

\* "compare effective sell price to avg cost" (paper_trading.cpp:666): the
\* statistics find, for each sale, an average cost to compare it with.  Average
\* costs are kept for the coins that are held.
SalesHaveACost ==
    \A i \in DOMAIN trades : trades[i].side = "sell" => holdings[trades[i].symbol] > 0
=============================================================================
