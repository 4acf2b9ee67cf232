SPECIFICATION MCSpec
CONSTANTS
    termOne = termOne
    termTwo = termTwo
    workProfile = workProfile
    homeProfile = homeProfile
    plainPkg = plainPkg
    keyedPkg = keyedPkg
    rulesFile = rulesFile
    serverKey = serverKey
    None = None
    User = User
    Key = Key
    Parts = {"packages", "repos", "session", "pull", "workspace"}
SYMMETRY Symmetry
 
PROPERTIES SessionKept 
CHECK_DEADLOCK FALSE
