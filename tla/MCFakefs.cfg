CONSTANTS
    main = main
    helper = helper
    child = child
    file = file
    link = link
    secret = secret
    keep = keep
    gone = gone
    Files = {file, link, secret, gone}
    Kind <- MCKind
    Tids = {main, helper, child}
    Process <- MCProcess
    Root = main
    LinkTarget = file
    Keep = keep
    Original <- MCOriginal
    Asks <- MCAsks
    MaxEnters = 2
    Signalled = {helper}

SPECIFICATION Spec

INVARIANTS
    AnswersAreTruthful
    EndsAfterRoot

PROPERTIES
    ChownTakesEffect
    StopsEnd
