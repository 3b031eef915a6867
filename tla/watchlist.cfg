SPECIFICATION Spec
CONSTANTS
    r1 = r1
    tech = tech
    etf = etf
    aapl = aapl
    ann = ann
    r2 = r2
    Requests = {r1, r2}
    Ids = {tech, etf}
    Symbols = {aapl}
    Owners = {ann}
    MaxSymbols = 2
    NoList = NoList
    NoCall = NoCall
    Nobody = Nobody
INVARIANTS
    TablesAreInOrder
PROPERTIES
    ListsKeepPromises
    RequestsAreAnswered
CHECK_DEADLOCK FALSE
