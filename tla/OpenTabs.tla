------------------------------ MODULE OpenTabs ------------------------------
(***************************************************************************)
(* What an open tab keeps: a teacher's presence at the server, the forms     *)
(* with a teacher's edits, a student's wallet.  Nothing passes between the   *)
(* three, so that a behaviour is a behaviour of one of them, with the others *)
(* at rest.                                                                  *)
(***************************************************************************)
EXTENDS Presence, TeacherForms, WalletPage

VARIABLE about

tabVars == <<about, vars, formVars, walletVars>>

\* The one module that can start in several ways rests in one.
FormsRest == profile.topicIds = {}

TabsInit ==
    /\ Init /\ FormInit /\ WalletInit
    /\ about \in {"presence", "forms", "wallet"}
    /\ about # "forms" => FormsRest

TabsNext ==
    /\ UNCHANGED about
    /\ \/ about = "presence" /\ Next /\ UNCHANGED <<formVars, walletVars>>
       \/ about = "forms" /\ FormNext /\ UNCHANGED <<vars, walletVars>>
       \/ about = "wallet" /\ WalletNext /\ UNCHANGED <<vars, formVars>>

\* The fairness is presence's (its FairSpec): of the behaviours of the two
\* others nothing but safety is asked.
TabsSpec ==
    /\ TabsInit /\ [][TabsNext]_tabVars
    /\ WF_vars(Tick) /\ WF_vars(Writes) /\ WF_vars(Job)
=============================================================================
