SPECIFICATION FairSpec
CONSTANTS
    app = app
    money = money
    phone = phone
    browser = browser
    Users = {u}
    Surfaces = {app, money}
    Browsers = {browser}
    BrowserOf <- OneBrowser
    Devices = {0, 1, 2}
    Numbers = {0, 1, 2, 3, 4}
    MaxRequests = 2
    MaxTrouble = 1
    None = None
INVARIANTS
    TypeOK
    PromptClientsStayIn
    OwnSession
PROPERTIES
    CookieHeals
CHECK_DEADLOCK FALSE
