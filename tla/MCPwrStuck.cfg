SPECIFICATION FairSpec
CONSTANTS
    Cmd = Cmd
    btc = btc
    u1 = u1
    Tasks = {Cmd}
    Users = {u1}
    MaxRetry = 3
    MaxLate = 4
PROPERTIES
    AlwaysRaises
