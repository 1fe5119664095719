SPECIFICATION FairSpec
CONSTANTS
    Cmd = Cmd
    btc = btc
    u1 = u1
    Tasks = {Cmd, btc}
    Users = {u1}
    MaxRetry = 1
    MaxLate = 1
INVARIANTS TypeOK 
 
