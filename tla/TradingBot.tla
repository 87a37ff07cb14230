----------------------------- MODULE TradingBot -----------------------------
(***************************************************************************)
(* The scan cycle of MKTradingBot over MKRiskManager and                   *)
(* MKPortfolioManager: what the portfolio holds and believes it is worth,  *)
(* the paper account beside it, the pauses and stop-losses of the risk     *)
(* manager, and the database the portfolio is restored from.  A scan takes *)
(* the coins of the watchlist one by one, each with a price from the       *)
(* network, so the process may end, and a price may be missing, between    *)
(* any two of them.  Amounts are whole numbers.                            *)
(***************************************************************************)
EXTENDS Integers, FiniteSetsExt, Functions

CONSTANTS
    Watchlist,      \* the coins of the watchlist
    Prices,         \* the prices a coin may have
    StartCash,      \* config_.paperBalance
    BreakerLosses,  \* CIRCUIT_BREAKER_LOSSES
    DcaAmount,      \* dollars a savings schedule invests
    MaxScans,       \* bound on the scans of one process
    MaxBotDays,     \* bound on the days that pass
    MaxBotBoots     \* bound on the starts of the process

ASSUME TradingAssumption ==
    /\ Prices \subseteq Nat \ {0}
    /\ {StartCash, BreakerLosses, DcaAmount} \subseteq Nat \ {0}
    /\ {MaxScans, MaxBotDays, MaxBotBoots} \subseteq Nat

VARIABLES
    (* MKTradingBot *)
    botMode, botCash, paperHeld,
    (* MKPortfolioManager: amount and currentValue of each holding, savings *)
    held, value, dca,
    (* MKRiskManager *)
    peak, lastTotal, paused, startOfDay, newDay, limitReached, losses, stopLoss,
    (* the scan: the coins still to be analysed, or those due for saving *)
    scan, todo,
    (* the database, and what the world did *)
    dbHeld, dbDca, scans, botDays, botBoots,
    (* history: what a start restored, and the net live trades since *)
    restored, liveNet

account    == <<botMode, botCash, paperHeld>>
portfolio  == <<held, value, dca>>
risk       == <<peak, lastTotal, paused, startOfDay, newDay, limitReached, losses, stopLoss>>
scanVars   == <<scan, todo>>
botWorld   == <<scans, botDays, botBoots>>
botHistory == <<restored, liveNet>>
botVars    == <<account, portfolio, risk, scanVars, dbHeld, dbDca, botWorld, botHistory>>

NoStop   == 0
BotModes == {"PAPER", "LIVE", "ANALYSIS"}

(* getTotalValue plus the paper cash: what the bot believes it is worth. *)
Believed == FoldFunction(+, botCash, value)

BotInit ==
    /\ botMode = "PAPER" /\ botCash = StartCash
    /\ paperHeld = [c \in Watchlist |-> 0]
    /\ held = [c \in Watchlist |-> 0] /\ value = [c \in Watchlist |-> 0] /\ dca = {}
    /\ peak = 0 /\ lastTotal = 0 /\ paused = FALSE /\ startOfDay = 0 /\ newDay = FALSE
    /\ limitReached = FALSE /\ losses = 0
    /\ stopLoss = [c \in Watchlist |-> NoStop]
    /\ scan = "idle" /\ todo = {}
    /\ dbHeld = held /\ dbDca = {}
    /\ scans = 0 /\ botDays = 0 /\ botBoots = 1
    /\ restored = held /\ liveNet = held

-----------------------------------------------------------------------------
(* updatePortfolioValue and the pause that follows from it. *)

DrawdownReached(total, top) == 100 * (top - total) >= 10 * top
DailyLossReached(total) ==
    startOfDay > 0 /\ 100 * (startOfDay - total) >= 5 * startOfDay

ScanBegin ==
    /\ scan = "idle" /\ scans < MaxScans
    /\ scans' = scans + 1
    /\ LET total == Believed
           top   == Max({peak, total})
       IN  /\ peak' = top /\ lastTotal' = total
           /\ paused' = (paused \/ (top > 0 /\ DrawdownReached(total, top)))
           /\ IF newDay
                THEN startOfDay' = total /\ limitReached' = FALSE
                ELSE /\ UNCHANGED startOfDay
                     /\ limitReached' = (limitReached \/ DailyLossReached(total))
    /\ newDay' = FALSE
    /\ IF paused' \/ limitReached'
         THEN UNCHANGED scanVars
         ELSE scan' = "analyse" /\ todo' = Watchlist
    /\ UNCHANGED <<account, portfolio, losses, stopLoss, dbHeld, dbDca,
                   botDays, botBoots, botHistory>>

-----------------------------------------------------------------------------
(* Trades.  paper(q) and real(q) are the amounts that change hands. *)

(* saveHolding follows every change of a holding; currentValue stays as the  *)
(* last price update left it.                                                *)
Hold(c, amount) ==
    /\ held' = [held EXCEPT ![c] = amount]
    /\ dbHeld' = [dbHeld EXCEPT ![c] = amount]

NoTrade == UNCHANGED <<botCash, paperHeld, held, dbHeld, liveNet>>

(* executePaperTrade: a purchase the cash cannot pay is cut down to it. *)
PaperBuy(c, p, q) ==
    LET bought == Min({q, botCash \div p})
    IN  IF bought <= 0
          THEN NoTrade
          ELSE /\ botCash' = botCash - bought * p
               /\ paperHeld' = [paperHeld EXCEPT ![c] = @ + bought]
               /\ Hold(c, held[c] + bought)
               /\ UNCHANGED liveNet

PaperSell(c, p, q) ==
    LET sold == Min({q, paperHeld[c]})
    IN  IF paperHeld[c] <= 0
          THEN NoTrade
          ELSE /\ botCash' = botCash + sold * p
               /\ paperHeld' = [paperHeld EXCEPT ![c] = @ - sold]
               /\ Hold(c, held[c] - sold)
               /\ UNCHANGED liveNet

(* executeLiveTrade, which a missing connection or a rejection leaves undone. *)
LiveBuy(c, q) ==
    /\ Hold(c, held[c] + q)
    /\ liveNet' = [liveNet EXCEPT ![c] = @ + q]
    /\ UNCHANGED <<botCash, paperHeld>>

LiveSell(c, q) ==
    /\ Hold(c, held[c] - Min({q, held[c]}))
    /\ liveNet' = [liveNet EXCEPT ![c] = @ - Min({q, held[c]})]
    /\ UNCHANGED <<botCash, paperHeld>>

BotBuy(c, p, q) ==
    \/ botMode = "PAPER" /\ PaperBuy(c, p, q) /\ UNCHANGED stopLoss
    \/ botMode = "LIVE"  /\ NoTrade /\ UNCHANGED stopLoss
    \/ /\ botMode = "LIVE" /\ LiveBuy(c, q)
       /\ stopLoss' = [stopLoss EXCEPT ![c] = (92 * p) \div 100]
    \/ botMode = "ANALYSIS" /\ NoTrade /\ UNCHANGED stopLoss

BotSell(c, p, q) ==
    \/ botMode = "PAPER" /\ PaperSell(c, p, q)
    \/ botMode = "LIVE"  /\ (NoTrade \/ LiveSell(c, q))
    \/ botMode = "ANALYSIS" /\ NoTrade

-----------------------------------------------------------------------------
(* analyzeSymbol for the coin c of the scan. *)

Done(c) ==
    /\ todo' = todo \ {c}
    /\ scan' = IF todo = {c} THEN "save" ELSE scan

(* No price, or too little data. *)
Skip(c) ==
    /\ scan = "analyse" /\ c \in todo
    /\ Done(c)
    /\ UNCHANGED <<account, portfolio, risk, dbHeld, dbDca, botWorld, botHistory>>

Triggered(c, p) == stopLoss[c] # NoStop /\ p <= stopLoss[c]

(* updatePrice, which finds only coins with a holding. *)
Priced(c, p) == value' = [value EXCEPT ![c] = held[c] * p]

StopOut(c, p) ==
    /\ scan = "analyse" /\ c \in todo /\ Triggered(c, p)
    /\ Priced(c, p)
    /\ IF held[c] > 0
         THEN /\ BotSell(c, p, held[c])
              /\ losses' = losses + 1
              /\ stopLoss' = [stopLoss EXCEPT ![c] = NoStop]
         ELSE NoTrade /\ UNCHANGED <<losses, stopLoss>>
    /\ Done(c)
    /\ UNCHANGED <<botMode, dca, peak, lastTotal, paused, startOfDay, newDay, limitReached,
                   dbDca, botWorld, restored>>

(* checkOrder: at most 7.5% of the portfolio, cut down to what a coin may    *)
(* have of it (20%), less where prices swing or coins move together.         *)
OrderSizes(c, p) ==
    LET total    == FoldFunction(+, botCash, [value EXCEPT ![c] = held[c] * p])
        headroom == total \div 5 - held[c] * p
    IN  IF paused \/ limitReached \/ losses >= BreakerLosses
          THEN {}
          ELSE {q \in 1 .. total : q \in Nat /\ 40 * q * p <= 3 * total /\ q * p <= headroom}

ActOn(c, p) ==
    \/ NoTrade /\ UNCHANGED <<losses, stopLoss>>      \* hold, weak or rejected
    \/ /\ botMode # "ANALYSIS"
       /\ \E q \in OrderSizes(c, p) : BotBuy(c, p, q)
       /\ UNCHANGED losses
    \/ /\ botMode # "ANALYSIS" /\ held[c] > 0
       /\ \E q \in {held[c], (held[c] + 1) \div 2} : BotSell(c, p, q)
       /\ losses' \in {0, losses + 1}                 \* reportWin or reportLoss
       /\ UNCHANGED stopLoss

Analyse(c, p) ==
    /\ scan = "analyse" /\ c \in todo /\ ~ Triggered(c, p)
    /\ Priced(c, p)
    /\ ActOn(c, p)
    /\ Done(c)
    /\ UNCHANGED <<botMode, dca, peak, lastTotal, paused, startOfDay, newDay, limitReached,
                   dbDca, botWorld, restored>>

-----------------------------------------------------------------------------
(* Savings schedules that are due are bought without a risk check, and stay  *)
(* due: nothing advances nextExecution.                                      *)

Due == {s.coin : s \in {d \in dca : d.due}}

Saving ==
    /\ scan = "save" /\ todo = {}
    /\ IF Due = {}
         THEN /\ scan' = "idle" /\ UNCHANGED todo
         ELSE /\ scan' = "saving" /\ todo' = Due
    /\ UNCHANGED <<account, portfolio, risk, dbHeld, dbDca, botWorld, botHistory>>

SaveInto(c, p) ==
    /\ scan = "saving" /\ c \in todo
    /\ (DcaAmount \div p > 0 /\ BotBuy(c, p, DcaAmount \div p)) \/ (NoTrade /\ UNCHANGED stopLoss)
    /\ todo' = todo \ {c}
    /\ scan' = IF todo = {c} THEN "idle" ELSE scan
    /\ UNCHANGED <<botMode, value, dca, peak, lastTotal, paused, startOfDay, newDay, limitReached,
                   losses, dbDca, botWorld, restored>>

-----------------------------------------------------------------------------
(* Commands, time and restarts between scans. *)

SetMode(m) ==
    /\ scan = "idle" /\ botMode' = m
    /\ UNCHANGED <<botCash, paperHeld, portfolio, risk, scanVars, dbHeld, dbDca,
                   botWorld, botHistory>>

AddSavings(c) ==
    /\ scan = "idle"
    /\ dca' = dca \cup {[coin |-> c, due |-> FALSE]}
    /\ dbDca' = {d \in dbDca : d.coin # c} \cup {[coin |-> c, due |-> FALSE]}
    /\ UNCHANGED <<account, held, value, risk, scanVars, dbHeld, botWorld, botHistory>>

Resume ==
    /\ scan = "idle"
    /\ paused' = FALSE /\ limitReached' = FALSE /\ losses' = 0
    /\ peak' = lastTotal
    /\ UNCHANGED <<account, portfolio, lastTotal, startOfDay, newDay, stopLoss, scanVars,
                   dbHeld, dbDca, botWorld, botHistory>>

DayPasses ==
    /\ scan = "idle" /\ botDays < MaxBotDays
    /\ botDays' = botDays + 1
    /\ newDay' = TRUE
    /\ dca' = {[d EXCEPT !.due = TRUE] : d \in dca}
    /\ dbDca' = {[d EXCEPT !.due = TRUE] : d \in dbDca}
    /\ UNCHANGED <<account, held, value, peak, lastTotal, paused, startOfDay, limitReached,
                   losses, stopLoss, scanVars, dbHeld, scans, botBoots, botHistory>>

\* Variant: the paper account is taken over from the process before.
RestartKeepsPaper ==
    /\ botBoots < MaxBotBoots /\ botBoots' = botBoots + 1
    /\ botMode' = "PAPER" /\ botCash' = StartCash
    /\ paperHeld' = paperHeld
    /\ held' = dbHeld /\ value' = [c \in Watchlist |-> 0] /\ dca' = dbDca
    /\ peak' = 0 /\ lastTotal' = 0 /\ paused' = FALSE /\ startOfDay' = 0 /\ newDay' = FALSE
    /\ limitReached' = FALSE /\ losses' = 0
    /\ stopLoss' = [c \in Watchlist |-> NoStop]
    /\ scan' = "idle" /\ todo' = {} /\ scans' = 0
    /\ restored' = dbHeld /\ liveNet' = [c \in Watchlist |-> 0]
    /\ UNCHANGED <<dbHeld, dbDca, botDays>>

(* The portfolio is restored; the paper account, pauses and stops are not. *)
BotRestart ==
    /\ botBoots < MaxBotBoots /\ botBoots' = botBoots + 1
    /\ botMode' = "PAPER" /\ botCash' = StartCash
    /\ paperHeld' = [c \in Watchlist |-> 0]
    /\ held' = dbHeld /\ value' = [c \in Watchlist |-> 0] /\ dca' = dbDca
    /\ peak' = 0 /\ lastTotal' = 0 /\ paused' = FALSE /\ startOfDay' = 0 /\ newDay' = FALSE
    /\ limitReached' = FALSE /\ losses' = 0
    /\ stopLoss' = [c \in Watchlist |-> NoStop]
    /\ scan' = "idle" /\ todo' = {} /\ scans' = 0
    /\ restored' = dbHeld /\ liveNet' = [c \in Watchlist |-> 0]
    /\ UNCHANGED <<dbHeld, dbDca, botDays>>

BotNext ==
    \/ ScanBegin \/ Saving
    \/ \E c \in Watchlist : Skip(c) \/ AddSavings(c)
    \/ \E c \in Watchlist, p \in Prices : StopOut(c, p) \/ Analyse(c, p) \/ SaveInto(c, p)
    \/ \E m \in BotModes : SetMode(m)
    \/ Resume \/ DayPasses \/ BotRestart

BotSpec == BotInit /\ [][BotNext]_botVars

-----------------------------------------------------------------------------
(* Whatever the portfolio holds was restored from its database, bought on    *)
(* paper or bought live: the paper account and the portfolio, which are told *)
(* of each trade separately and each cut amounts down in their own way, never *)
(* drift apart, in any mixture of modes, stop-losses, savings and restarts.  *)
PositionsExplained ==
    \A c \in Watchlist : held[c] = restored[c] + paperHeld[c] + liveNet[c]

(* "Portfolio dropped ...% from peak - trading paused" (updatePortfolioValue) *)
(* says that a pause answers a loss.  Trades cost nothing here, so with a    *)
(* single price that never moves there is no loss to answer.                 *)
PauseNeedsPriceMove == Cardinality(Prices) = 1 => ~ paused
=============================================================================
