--------------------------- MODULE CryptoPayments ---------------------------
(***************************************************************************)
(* Crypto payments of one network as they run: the coroutines that create  *)
(* invoices (UniqueAmount) and the payment job (CryptoJob) share the       *)
(* cryptopayments table and are interleaved at every await.  The job sees  *)
(* rows whose creation is not finished, and the amounts it copied may      *)
(* change under it.                                                        *)
(***************************************************************************)
EXTENDS UniqueAmount, CryptoJob

systemVars == <<rows, credits, now, creator, chain, job>>

SystemTypeOK == UniqueTypeOK /\ JobTypeOK

SystemInit == UniqueInit /\ JobInit

Creating == (\E o \in Orders : CreatorStep(o) \/ DbError(o)) /\ UNCHANGED <<chain, job>>
Settling == JobNext /\ UNCHANGED creator
Outside == World /\ UNCHANGED creator

(* One process holds the creators and the job. *)
ProcessRestart == Restart /\ job' = IdleJob /\ UNCHANGED chain

SystemNext == Creating \/ Settling \/ Outside \/ ProcessRestart

SystemSpec == SystemInit /\ [][SystemNext]_systemVars

SystemFairSpec ==
    /\ SystemSpec
    /\ \A o \in Orders : WF_systemVars(CreatorStep(o) /\ UNCHANGED <<chain, job>>)
    /\ WF_systemVars(JobStep /\ UNCHANGED creator)

-----------------------------------------------------------------------------
(* Seen from the table and the creators, the job does nothing but what      *)
(* UniqueAmount assumed of it, so what was shown there holds here.          *)
JobKeepsToItsPart == UniqueInit /\ [][UniqueNext]_<<rows, credits, creator>>

(* "Jobs accept a transfer within this distance of the invoice amount"      *)
(* (cryptopayments.py): the amount of a paid invoice is within the          *)
(* tolerance of the transfer that paid it.                                  *)
PaidAmountMatches ==
    \A o \in Orders : rows[o].status = "Paid" =>
        AmountMatches(rows[o].amount, chain[rows[o].tx_hash].amount)
=============================================================================
