SPECIFICATION DeskSpec
CONSTANTS
    Horizon = 3
    Tokens = {t1, t2}
    Ttl = 1
    NoToken = NoToken
PROPERTIES
    TokenEngages
CHECK_DEADLOCK FALSE
