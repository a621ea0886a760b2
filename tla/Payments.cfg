SPECIFICATION Spec
INVARIANTS
    IInv
    PaidWasCovered
    CoveredIsPaid
    RefundsFit
    SummaryNeverOverstates
    BooksAgree
    AnswersAreTrue
CONSTANTS
    MaxInvoices = 2
    MaxPayments = 3
    MaxCalls = 2
    MaxDeliveries = 2
    Intents = {s1}
    Amounts = {1, 2}
    Totals = {2}
    Agent = Agent
CHECK_DEADLOCK FALSE
