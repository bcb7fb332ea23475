-------------------------- MODULE NotificationMail --------------------------
(***************************************************************************)
(* Notifications and the scheduled worker that mails them. One run collects *)
(* the due notifications by address, sends one mail per address, and purges *)
(* what was sent or is not wanted.                                          *)
(* (common/lib/notifications/Processor.js, common/services/Notifications)   *)
(***************************************************************************)
EXTENDS Integers, FiniteSets, Functions

CONSTANTS Notices,         \* notifications that may be created
          MaxSubmissions,  \* times messages are submitted, in all
          MaxMailFailures  \* runs that end in a failure or a crash

VARIABLES
  notice,      \* per notification: "none", "due", "old" (over thirty days)
  kind,        \* "message" (has an address) or "crew" (crew, lease, task)
  user,        \* what its recipient wants: "wanted", "typeOff", "noMail"
  sameAddress, \* the notifications are all for one address
  formattable, \* notifications whose formatter does not throw
  read,        \* messages read in the game
  mail,        \* the run under way
  mailed, submitted, failures  \* history

mailVars == <<notice, kind, user, sameAddress, formattable, read, mail, mailed,
              submitted, failures>>
setting == <<kind, user, sameAddress, formattable>>

NoRun == [stage |-> "none", todo |-> {}, toSend |-> {}, toPurge |-> {}]
DueNotices == {n \in Notices : notice[n] = "due"}
SameMail(n) == IF sameAddress THEN mail.toSend ELSE {n} \cap mail.toSend

-----------------------------------------------------------------------------
\* DirectMessageNotificationService.createOrUpdate: an upsert, on every
\* submission of the message.
MessageNotified(n) ==
  /\ kind[n] = "message" /\ FoldFunction(+, 0, submitted) < MaxSubmissions
  /\ notice' = [notice EXCEPT ![n] = "due"]
  /\ submitted' = [submitted EXCEPT ![n] = @ + 1]
  /\ UNCHANGED <<setting, read, mail, mailed, failures>>

\* The crew, lease and task services ask getCrewToNotify for the crews whose
\* player has mail and wants the type, and store them under `entitities`, a
\* name the schema has not: the document has no recipients.
CrewNotified(n) ==
  /\ kind[n] = "crew" /\ user[n] = "wanted" /\ submitted[n] = 0
  /\ notice' = [notice EXCEPT ![n] = "due"]
  /\ submitted' = [submitted EXCEPT ![n] = 1]
  /\ UNCHANGED <<setting, read, mail, mailed, failures>>

MessageRead(n) ==
  /\ kind[n] = "message" /\ submitted[n] > 0
  /\ read' = read \cup {n}
  /\ UNCHANGED <<notice, setting, mail, mailed, submitted, failures>>

\* _getNotificationsToProcess takes nothing older than thirty days.
NoticeAges(n) ==
  /\ notice[n] = "due"
  /\ notice' = [notice EXCEPT ![n] = "old"]
  /\ UNCHANGED <<setting, read, mail, mailed, submitted, failures>>

-----------------------------------------------------------------------------
GetNotificationsToProcess ==
  /\ mail.stage = "none" /\ DueNotices # {}
  /\ mail' = [NoRun EXCEPT !.stage = "collect", !.todo = DueNotices]
  /\ UNCHANGED <<notice, setting, read, mailed, submitted, failures>>

\* groupAndFilter: no recipients is an error, and ends the run.
GroupAndFilter(n) ==
  /\ mail.stage = "collect" /\ n \in mail.todo
  /\ mail' =
       IF kind[n] = "crew" THEN NoRun
       ELSE [mail EXCEPT
               !.todo = @ \ {n},
               !.toSend = IF n \notin read /\ user[n] = "wanted" THEN @ \cup {n} ELSE @,
               !.toPurge = IF n \in read \/ user[n] = "noMail" THEN @ \cup {n} ELSE @]
  /\ UNCHANGED <<notice, setting, read, mailed, submitted, failures>>

Collected == mail.todo = {} /\ mail.stage \in {"collect", "send"}

\* Mutant: an address with nothing to say ends the loop.
SendNotifications_ReturnsEarly(n) ==
  /\ Collected /\ n \in mail.toSend
  /\ LET sent == SameMail(n) \cap formattable
     IN /\ mailed' = [m \in Notices |-> IF m \in sent THEN mailed[m] + 1 ELSE mailed[m]]
        /\ mail' = [mail EXCEPT !.stage = "send",
                                !.toSend = IF sent = {} THEN {} ELSE @ \ SameMail(n),
                                !.toPurge = IF sent = {} THEN @ ELSE @ \cup SameMail(n)]
  /\ UNCHANGED <<notice, setting, read, submitted, failures>>

\* Mutant: what was mailed is not queued for removal.
SendNotifications_Kept(n) ==
  /\ Collected /\ n \in mail.toSend
  /\ LET sent == SameMail(n) \cap formattable
     IN mailed' = [m \in Notices |-> IF m \in sent THEN mailed[m] + 1 ELSE mailed[m]]
  /\ mail' = [mail EXCEPT !.stage = "send", !.toSend = @ \ SameMail(n)]
  /\ UNCHANGED <<notice, setting, read, submitted, failures>>

\* _sendNotifications: one mail for an address, with what could be formatted;
\* nothing is sent, nor removed, when nothing could.
SendNotifications(n) ==
  /\ Collected /\ n \in mail.toSend
  /\ LET sent == SameMail(n) \cap formattable
     IN /\ mailed' = [m \in Notices |-> IF m \in sent THEN mailed[m] + 1 ELSE mailed[m]]
        /\ mail' = [mail EXCEPT !.stage = "send", !.toSend = @ \ SameMail(n),
                                !.toPurge = IF sent = {} THEN @ ELSE @ \cup SameMail(n)]
  /\ UNCHANGED <<notice, setting, read, submitted, failures>>

PurgeNotifications ==
  /\ Collected /\ mail.toSend = {}
  /\ notice' = [n \in Notices |-> IF n \in mail.toPurge THEN "none" ELSE notice[n]]
  /\ mail' = NoRun
  /\ UNCHANGED <<setting, read, mailed, submitted, failures>>

\* Mutant: the purge runs although the sending threw.
MailFails_Purges ==
  /\ mail.stage # "none" /\ failures < MaxMailFailures
  /\ failures' = failures + 1
  /\ notice' = [n \in Notices |-> IF n \in mail.toPurge \cup mail.toSend
                                  THEN "none" ELSE notice[n]]
  /\ mail' = NoRun
  /\ UNCHANGED <<setting, read, mailed, submitted>>

\* The mail client throws, or the worker stops: what it queued is forgotten.
MailFails ==
  /\ mail.stage # "none" /\ failures < MaxMailFailures
  /\ failures' = failures + 1
  /\ mail' = NoRun
  /\ UNCHANGED <<notice, setting, read, mailed, submitted>>

-----------------------------------------------------------------------------
MailInit ==
  /\ notice = [n \in Notices |-> "none"]
  /\ kind \in [Notices -> {"message", "crew"}]
  /\ user \in [Notices -> {"wanted", "typeOff", "noMail"}]
  /\ sameAddress \in BOOLEAN
  /\ sameAddress => \A n, m \in Notices : user[n] = user[m]
  /\ formattable \in SUBSET Notices
  /\ \A n \in Notices : kind[n] = "crew" => user[n] = "wanted" /\ n \in formattable
  /\ read = {} /\ mail = NoRun /\ failures = 0
  /\ mailed = [n \in Notices |-> 0] /\ submitted = [n \in Notices |-> 0]

MailStep ==
  \/ GetNotificationsToProcess
  \/ \E n \in Notices : GroupAndFilter(n) \/ SendNotifications(n)
  \/ PurgeNotifications

MailNext ==
  \/ \E n \in Notices :
       MessageNotified(n) \/ CrewNotified(n) \/ MessageRead(n) \/ NoticeAges(n)
  \/ MailStep
  \/ MailFails

-----------------------------------------------------------------------------
\* A message is mailed once per submission, and once more for every run that
\* failed between its mail and the purge at the end of the run.
MailedOnce == \A n \in Notices : mailed[n] <= submitted[n] + failures

\* A notification somebody wants is gone only after it was mailed or read,
\* whatever failed on the way. (Two that share a mail are purged together:
\* one that cannot be formatted goes unsent with the other.)
NothingDropped ==
  \A n \in formattable :
    submitted[n] > 0 /\ notice[n] = "none" /\ n \notin read /\ user[n] = "wanted" =>
      mailed[n] > 0

\* A wanted message is mailed, read, or grows too old, unless there is always
\* again a crew, lease or task notification due: those end every run.
MailArrives ==
  []<>(\E m \in DueNotices : kind[m] = "crew")
    \/ \A n \in Notices :
         (notice[n] = "due" /\ user[n] = "wanted" /\ n \in formattable
            ~> mailed[n] > 0 \/ n \in read \/ notice[n] = "old")
=============================================================================
