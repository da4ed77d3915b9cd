SPECIFICATION Spec
CONSTANTS
    Conn = {c1, c2, c3}
    NoConn = NoConn
    Asks <- MCAsks
INVARIANTS AnsweredAsAlone
