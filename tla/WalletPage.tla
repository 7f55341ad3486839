----------------------------- MODULE WalletPage -----------------------------
(***************************************************************************)
(* The student's wallet (Wallet.jsx): the balance, which the first read, the *)
(* answer to a top-up and wallet:updated all write, and the pages of the     *)
(* ledger.  What moves the money is the marketplace; here it is one more row *)
(* of the ledger.  A balance is told apart by the number of rows it sums,    *)
(* and a page by its number and by how many rows there were.                 *)
(***************************************************************************)
EXTENDS Naturals, Sequences, FiniteSets

CONSTANTS
    WalletMoves,    \* money moved, presses, pages turned, dropped connections
    WalletFaults    \* calls lost, pricing that cannot be read

ASSUME WalletAssumption == {WalletMoves, WalletFaults} \subseteq Nat

VARIABLES
    entries,      \* wallet_transactions of this student
    committed,    \* top-ups whose handler has not come back from its commit, by row
    updates,      \* wallet:updated frames on their way
    linked,       \* is the tab's socket connected
    purse,        \* wallet.balance, 0 before the first read
    walletError,  \* is the page's place taken by an error
    pricing,      \* have the packages been read
    reading,      \* GET /wallet in flight
    buying,       \* POST /wallet/topup in flight, as is inFlight.current
    turned,       \* ledgerQuery.page
    ledger,       \* the page shown
    ledgerError,  \* is the list's place taken by an error
    paging,       \* the effect's GET /wallet/transactions
    retrying,     \* the one begun by hand
    highlight,    \* the row of this tab's last top-up
    heard,        \* history: the latest balance that reached the tab
    overtaken,    \* history: the last balance that landed was an older one
    untold,       \* history: rows of which the tab is never told
    strayed,      \* history: the page that landed last was asked for by hand
    walletMoved, walletFailed

balances    == <<purse, walletError, pricing, reading, buying, heard, overtaken>>
listing     == <<turned, ledger, ledgerError, paging, retrying, highlight, strayed>>
atServer    == <<entries, committed, updates, linked, untold>>
walletCount == <<walletMoved, walletFailed>>
walletVars  == <<balances, listing, atServer, walletCount>>

WalletMove  == walletMoved < WalletMoves /\ walletMoved' = walletMoved + 1
WalletFault == walletFailed < WalletFaults /\ walletFailed' = walletFailed + 1

FIRST_PAGE == 1
NoCall     == [at |-> "none", page |-> 0, rows |-> 0]
NoPage     == [page |-> 0, rows |-> 0]
Asked(page) == [at |-> "sent", page |-> page, rows |-> 0]
Read(call)  == [call EXCEPT !.at = "done", !.rows = entries]
Fallen(call) == [call EXCEPT !.at = "failed"]

WalletInit ==
    /\ entries = 1 /\ committed = {} /\ updates = <<>> /\ linked = TRUE /\ untold = {}
    /\ purse = 0 /\ walletError = FALSE /\ pricing = FALSE /\ reading = Asked(0) /\ buying = NoCall
    /\ heard = 0 /\ overtaken = FALSE
    /\ turned = FIRST_PAGE /\ ledger = NoPage /\ ledgerError = FALSE /\ paging = Asked(FIRST_PAGE) /\ retrying = NoCall
    /\ highlight = 0 /\ strayed = FALSE
    /\ walletMoved = 0 /\ walletFailed = 0

-----------------------------------------------------------------------------
(* The server                                                               *)

\* A charge or a refund: "they do not raise it".
SessionPays ==
    /\ WalletMove
    /\ entries' = entries + 1
    /\ untold' = untold \cup {entries'}
    /\ UNCHANGED <<committed, updates, linked, balances, listing, walletFailed>>

\* topUpBalance up to its commit.
CreditWallet == entries' = entries + 1 /\ committed' = committed \cup {entries'}

AnotherTabTopsUp ==
    /\ WalletMove
    /\ CreditWallet
    /\ UNCHANGED <<updates, linked, untold, balances, listing, walletFailed>>

TopUpCommits ==
    /\ buying.at = "sent"
    /\ CreditWallet
    /\ buying' = [buying EXCEPT !.at = "taken", !.rows = entries']
    /\ UNCHANGED <<updates, linked, untold, purse, walletError, pricing, reading, heard, overtaken,
                   listing, walletCount>>

\* emitWalletUpdated, after the commit, and then the answer: two handlers may
\* come back in either order.
emitWalletUpdated(row) ==
    IF linked THEN updates' = Append(updates, row) /\ UNCHANGED untold
              ELSE untold' = untold \cup {row} /\ UNCHANGED updates

TopUpAnswers(row) ==
    /\ row \in committed
    /\ committed' = committed \ {row}
    /\ emitWalletUpdated(row)
    /\ buying' = IF buying.at = "taken" /\ buying.rows = row THEN [buying EXCEPT !.at = "done"] ELSE buying
    /\ UNCHANGED <<entries, linked, purse, walletError, pricing, reading, heard, overtaken, listing, walletCount>>

WalletReads ==
    /\ \/ reading.at = "sent" /\ reading' = Read(reading) /\ UNCHANGED <<paging, retrying>>
       \/ paging.at = "sent" /\ paging' = Read(paging) /\ UNCHANGED <<reading, retrying>>
       \/ retrying.at = "sent" /\ retrying' = Read(retrying) /\ UNCHANGED <<reading, paging>>
    /\ UNCHANGED <<atServer, purse, walletError, pricing, buying, heard, overtaken,
                   turned, ledger, ledgerError, highlight, strayed, walletCount>>

\* A top-up that was taken is credited and announced whoever waits for it.
WalletCallLost ==
    /\ WalletFault
    /\ \/ reading.at \in {"sent", "done"} /\ reading' = Fallen(reading) /\ UNCHANGED <<buying, paging, retrying>>
       \/ buying.at \in {"sent", "taken", "done"} /\ buying' = Fallen(buying) /\ UNCHANGED <<reading, paging, retrying>>
       \/ paging.at \in {"sent", "done"} /\ paging' = Fallen(paging) /\ UNCHANGED <<reading, buying, retrying>>
       \/ retrying.at \in {"sent", "done"} /\ retrying' = Fallen(retrying) /\ UNCHANGED <<reading, buying, paging>>
    /\ UNCHANGED <<atServer, purse, walletError, pricing, heard, overtaken,
                   turned, ledger, ledgerError, highlight, strayed, walletMoved>>

WalletLink ==
    /\ \/ /\ linked
          /\ WalletMove
          /\ updates' = <<>>
          /\ untold' = untold \cup {updates[i] : i \in DOMAIN updates}
       \/ ~linked /\ UNCHANGED <<updates, untold, walletMoved>>
    /\ linked' = ~linked
    /\ UNCHANGED <<entries, committed, balances, listing, walletFailed>>

-----------------------------------------------------------------------------
(* The balance                                                              *)

\* A balance reaches the tab.
Tells(row) ==
    /\ heard' = IF row > heard THEN row ELSE heard
    /\ overtaken' = (row < heard)

ReadReturns ==
    /\ \/ /\ reading.at = "done"
          /\ purse' = reading.rows
          /\ Tells(reading.rows)
          /\ UNCHANGED walletError
       \/ /\ reading.at = "failed"
          /\ walletError' = TRUE
          /\ UNCHANGED <<purse, heard, overtaken>>
    /\ reading' = NoCall
    /\ \/ pricing' = TRUE /\ UNCHANGED walletFailed
       \/ pricing' = FALSE /\ WalletFault
    /\ UNCHANGED <<buying, listing, atServer, walletMoved>>

PageStands == reading = NoCall /\ ~walletError

\* Offered when the wallet or the prices could not be read.
LoadAgain ==
    /\ reading = NoCall
    /\ walletError \/ ~pricing
    /\ reading' = Asked(0)
    /\ walletError' = FALSE
    /\ UNCHANGED <<purse, pricing, buying, heard, overtaken, listing, atServer, walletCount>>

Merged_WhenQuiet(row) == IF purse = 0 \/ buying # NoCall THEN purse ELSE row

Merged(row) == IF purse = 0 THEN 0 ELSE row

HearUpdated ==
    /\ updates # <<>>
    /\ updates' = Tail(updates)
    /\ purse' = Merged(Head(updates))
    /\ Tells(Head(updates))
    /\ UNCHANGED <<entries, committed, linked, untold, walletError, pricing, reading, buying, listing, walletCount>>

handleTopUp ==
    /\ WalletMove
    /\ PageStands /\ pricing
    /\ buying = NoCall
    /\ buying' = Asked(0)
    /\ UNCHANGED <<purse, walletError, pricing, reading, heard, overtaken, listing, atServer, walletFailed>>

-----------------------------------------------------------------------------
(* The ledger                                                               *)

\* ledgerQuery changes: the effect cancels its former read, and no other.
SetQuery(page) ==
    /\ turned' = page
    /\ paging' = Asked(page)
    /\ ledgerError' = FALSE

\* From the second page on, a top-up goes back to the first.
ReadsAgain_IfElsewhere(page) ==
    IF turned = page THEN UNCHANGED <<turned, paging, ledgerError>> ELSE SetQuery(page)

ReadsAgain(page) == SetQuery(page)

TopUpReturns ==
    /\ \/ /\ buying.at = "done"
          /\ purse' = buying.rows
          /\ Tells(buying.rows)
          /\ highlight' = buying.rows
          /\ ReadsAgain(FIRST_PAGE)
       \/ buying.at = "failed" /\ UNCHANGED <<purse, heard, overtaken, highlight, turned, paging, ledgerError>>
    /\ buying' = NoCall
    /\ UNCHANGED <<walletError, pricing, reading, ledger, retrying, strayed, atServer, walletCount>>

onPageChange(page) ==
    /\ WalletMove
    /\ PageStands
    /\ ledger # NoPage /\ ~ledgerError /\ page # turned
    /\ SetQuery(page)
    /\ UNCHANGED <<ledger, retrying, highlight, strayed, balances, atServer, walletFailed>>

\* An answer shows its page, and leaves an error that another read met.
Shows(call) == ledger' = [page |-> call.page, rows |-> call.rows] /\ UNCHANGED ledgerError

PageReturns ==
    /\ \/ paging.at = "done" /\ Shows(paging) /\ strayed' = FALSE
       \/ paging.at = "failed" /\ ledgerError' = TRUE /\ UNCHANGED <<ledger, strayed>>
    /\ paging' = NoCall
    /\ UNCHANGED <<turned, retrying, highlight, balances, atServer, walletCount>>

\* loadLedger by hand, from the error: nothing cancels it.
RetryPage ==
    /\ PageStands
    /\ ledgerError /\ retrying = NoCall
    /\ ledgerError' = FALSE
    /\ retrying' = Asked(turned)
    /\ UNCHANGED <<turned, ledger, paging, highlight, strayed, balances, atServer, walletCount>>

RetryReturns ==
    /\ \/ retrying.at = "done" /\ Shows(retrying) /\ strayed' = TRUE
       \/ retrying.at = "failed" /\ ledgerError' = TRUE /\ UNCHANGED <<ledger, strayed>>
    /\ retrying' = NoCall
    /\ UNCHANGED <<turned, paging, highlight, balances, atServer, walletCount>>

-----------------------------------------------------------------------------
WalletNext ==
    \/ SessionPays \/ AnotherTabTopsUp \/ TopUpCommits \/ WalletReads \/ WalletCallLost \/ WalletLink
    \/ \E row \in committed : TopUpAnswers(row)
    \/ ReadReturns \/ LoadAgain \/ HearUpdated \/ handleTopUp \/ TopUpReturns
    \/ \E page \in {1, 2} : onPageChange(page)
    \/ PageReturns \/ RetryPage \/ RetryReturns

WalletSpec == WalletInit /\ [][WalletNext]_walletVars

-----------------------------------------------------------------------------
\* The balance is the last one, unless a later row is one the tab is never
\* told of, or an older balance landed on a newer one.
BalanceIsCurrent ==
    (purse # 0 /\ committed = {} /\ updates = <<>> /\ reading = NoCall /\ buying = NoCall)
        => \/ purse = entries
           \/ \E row \in untold : row > purse
           \/ overtaken

\* The list is the page the pager shows, and the first page has the row that
\* this tab's top-up has created, unless the read that came last had been
\* begun by hand.
NewRowIsListed ==
    (ledger # NoPage /\ ~ledgerError /\ paging = NoCall /\ retrying = NoCall)
        => \/ /\ ledger.page = turned
              /\ turned = FIRST_PAGE => ledger.rows >= highlight
           \/ strayed

(* Once everything has come through, the page says what the wallet has: the *)
(* balance, whichever of its writers came first, and the list, whatever     *)
(* page it was on when the top-up returned.  The exceptions are real: the   *)
(* comment has it that "whichever lands last is still right".               *)
WalletIsCurrent == BalanceIsCurrent /\ NewRowIsListed
=============================================================================
