\* One posting, two requests, two codes and their mails; a clock that moves once.
SPECIFICATION FairSpec
CONSTANTS
  r1 = r1
  r2 = r2
  Requests <- MCRequests
  Mails <- MCMails
  MaxAttempts = 2
  MaxStalled = 0
  MaxTime = 1
INVARIANTS
  TypeOK
  SpentIsGone
PROPERTIES
  ShutForGood
  MailSettles
