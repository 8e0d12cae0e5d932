CONSTANTS
    Asked = 2
    MaxStrays = 1
    MaxPolls = 2
SPECIFICATION Spec
INVARIANTS NeverMoreThanAsked OneActionInClient SafeDigging
PROPERTIES PromisesKept SuccessIsReal ScopeKept TransactionsEnd
