SPECIFICATION Spec
CONSTANTS
    None = None
    Slug = {"s"}
    TeamChanges = 1
    TeamLoads = 2
    TeamCalls = 1
    TextField = {"phone"}
    Secret = {"p", "q"}
    Short = {"q"}
    CodeLength = 2
    MaxWait = 1
    EditForm = {"name", "password"}
    UserChanges = 2
    UserCalls = 2
    Hours = 1
    WindowDays = 2
    PageStep = 1
    Picked = {0}
    PagesBack = 1
    GridLoads = 1
    GridChanges = 1
    Cell = {"c"}
    Weeks = 2
    MaxBookings = 2
    MaxScans = 1
    MaxTxns = 2
    MaxPolls = 2
    Request = {"r"}
    MaxAnswers = 1
    ShellChanges = 2
    MaxUnread = 1
    MaxMessages = 3
    PageSize = 1
    MaxFailures = 1
    WizardPicks = 1
    LookupPicks = 2
    AdminLoads = 2
    AdminCalls = 2
    AdminChanges = 1
INVARIANTS
    PagesTypeOK
    NothingWaitsForNothing
    NothingIsDoneTwice
    ErrorsAreCurrent
    ProposedPriceIsOfTheSlots
    SelectionIsBookable
    ChoiceIsOffered
    ThreadIsWhole
    MicrophoneIsHeld
    
    AddressIsOfThePlace
    IdleListsAreCurrent
CHECK_DEADLOCK FALSE
