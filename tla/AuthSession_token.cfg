SPECIFICATION AuthSpec
CONSTANTS
    Accounts = {a1, a2}
    Nobody = Nobody
    MaxPosted = 2
INVARIANTS SessionHasToken
CHECK_DEADLOCK FALSE
