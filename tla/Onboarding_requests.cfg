\* Any requests, two at a time, of an owner and of a customer with or without an account.
SPECIFICATION OnboardingSpec
CONSTANTS
    boss = boss  ann = ann
    r1 = r1  r2 = r2
    NoUser = NoUser
    Users = {boss, ann}
    Customers = {ann}
    Owner = boss
    SignIn = {ann}
    MaxActive = 1
    MaxAttempts = 1
    Requests = {r1, r2}
    MaxRequests = 5
    MaxSessions = 2
    MaxInvitations = 2
INVARIANTS
    OnboardingTypeOK OldPasswordIsOut SessionsAreCapped GuessesAreLimited
    MembersHoldNoInvitation OneLink PendingIsNew
CHECK_DEADLOCK FALSE
PROPERTIES TransactionsEnd
