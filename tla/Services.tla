------------------------------ MODULE Services ------------------------------
(***************************************************************************)
(* The services beside the event pipeline that keep state of their own. They *)
(* share none of it: one state machine with a `subject` explores each of    *)
(* them in turn, under its own fairness.                                    *)
(***************************************************************************)
EXTENDS LotTenancy, NotificationMail, Faucet, BanxaOrder

VARIABLE subject

vars == <<subject, lotVars, mailVars, faucetVars, banxaVars>>
Subjects == {"lots", "mail", "faucet", "banxa"}

Init ==
  /\ subject \in Subjects
  /\ LotInit /\ FaucetInit /\ BanxaInit
  /\ IF subject = "mail" THEN MailInit
     ELSE /\ MailInit
          /\ kind = [n \in Notices |-> "message"] /\ user = [n \in Notices |-> "wanted"]
          /\ formattable = Notices /\ sameAddress

LotsStep == subject = "lots" /\ LotNext /\ UNCHANGED <<subject, mailVars, faucetVars, banxaVars>>
MailsStep == subject = "mail" /\ MailNext /\ UNCHANGED <<subject, lotVars, faucetVars, banxaVars>>
FaucetStep ==
  subject = "faucet" /\ FaucetNext /\ UNCHANGED <<subject, lotVars, mailVars, banxaVars>>
BanxaStep == subject = "banxa" /\ BanxaNext /\ UNCHANGED <<subject, lotVars, mailVars, faucetVars>>

Next == LotsStep \/ MailsStep \/ FaucetStep \/ BanxaStep

(***************************************************************************)
(* Fairness: a refresh that was begun goes on, and an event that was not    *)
(* finished is processed again (the platform restarts the processor); the   *)
(* audit and the mail worker are scheduled again and again; a player who    *)
(* waits for an order keeps asking, and Banxa answers now and then. Nothing *)
(* is assumed of leases, messages, claims, crashes or payments.             *)
(***************************************************************************)
Fairness ==
  /\ WF_lotVars(LotRefresh("processor") \/ Reprocess)
  /\ WF_lotVars(AuditStep)
  /\ WF_mailVars(MailStep)
  /\ \A p \in Pollers : /\ WF_banxaVars(LoadOrder(p) \/ SaveOrder(p))
                        /\ SF_banxaVars(AskBanxa(p) /\ polls'[p].stage = "answered")

Spec == Init /\ [][Next]_vars /\ Fairness

\* Types, of all four services.
TypeOK ==
  /\ agreement \in [LotIndices -> {"none", "running", "expired"}]
  /\ policy \subseteq Policies
  /\ building \in [LotIndices -> BuildingTypes]
  /\ crew \subseteq LotIndices
  /\ array \in [Words -> 0 .. 2^WordBits - 1] \cup {Missing}
  /\ auditQueue \subseteq LotIndices
  /\ notice \in [Notices -> {"none", "due", "old"}]
  /\ read \subseteq Notices /\ mail.todo \cup mail.toSend \cup mail.toPurge \subseteq Notices
  /\ Len(records) <= Cardinality(Claims) /\ now \in 0..MaxTime
  /\ banxa \in DOMAIN Reported \cup {NoOrder}
  /\ order \in {NoOrder, "checkout_created", "pending"} \cup Final
=============================================================================
