------------------------------ MODULE Reconcile ------------------------------
(***************************************************************************)
(* scripts/reconcile.mjs: five queries against the tables, each of which   *)
(* returns the rows that are wrong.  The script is meant for a database at *)
(* rest; here each query may be asked at any instant, between any two      *)
(* transactions of the marketplace.                                        *)
(***************************************************************************)
EXTENDS Promises

(* The sum of a user's wallet_transactions: beside the top-ups, a student's charges    *)
(* and refunds belong to the sessions they own, a teacher's earnings to those they     *)
(* taught.                                                                             *)
ledgerOf(u) == topup[u] + (IF u \in Students THEN SumFunctionOnSet(Net, Owned(u))
                                             ELSE SumFunctionOnSet(Earned, Taught(u)))

(* 1. wallets whose balance disagrees with their ledger *)
wrongWallets == {u \in Users : wallet[u] # ledgerOf(u)}

(* 2. sessions whose total_charged disagrees with their blocks *)
wrongCharges == {s \in Sessions : /\ session[s].status # "PENDING"
                                  /\ session[s].totalCharged # SumFunction(Amounts(s))}

Over       == {"ENDED", "RATED"}
NoSplit(s) == session[s].fee = 0 /\ session[s].earning = 0

(* 3. sessions whose split does not add up, unless the money went back *)
wrongSplits ==
  {s \in Sessions :
    \/ /\ session[s].status \in Over
       /\ session[s].fee + session[s].earning # session[s].totalCharged
       /\ ~NoSplit(s)
    \/ session[s].status = "NO_SHOW" /\ ~NoSplit(s)}

(* 4. sessions whose ledger rows disagree with their columns *)
wrongLedgers ==
  {s \in Sessions :
    /\ session[s].status # "PENDING"
    /\ \/ ledger[s].charge # session[s].totalCharged
       \/ session[s].status = "NO_SHOW" /\ ledger[s].refund # session[s].totalCharged
       \/ session[s].status \in Over /\ ledger[s].earning # session[s].earning
       \/ /\ session[s].status \in Over
          /\ NoSplit(s)
          /\ session[s].totalCharged > 0
          /\ ledger[s].refund # session[s].totalCharged}

(* 5. teachers left IN_SESSION with no session running *)
leftInSession ==
  {t \in Teachers : teacher[t] = "IN_SESSION" /\ With(t, "ACTIVE") = {}}

-----------------------------------------------------------------------------
(* Reconciled at every instant: whenever one of the five queries is asked, between any *)
(* two transactions of the handlers, sweeps and ticks, it returns no row; the fifth as *)
(* long as no sweep has strayed.  And beyond what the script asks, the wallets and the *)
(* sessions together hold what was topped up: no credit is made or lost.               *)
BooksBalance ==
  /\ wrongWallets = {}
  /\ wrongCharges = {}
  /\ wrongSplits = {}
  /\ wrongLedgers = {}
  /\ ~stray => leftInSession = {}
  /\ NoCreditIsLost
=============================================================================
