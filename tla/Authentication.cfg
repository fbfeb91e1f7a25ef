SPECIFICATION FairSpec
CONSTANTS
    Configurations <- MCConfigurations
    Units = {"A", "B"}
    Names = {"u", "v"}
    Passwords = {"p", "q"}
    Known = {"p"}
    NoUser = NoUser
    MaxDialogues = 2
    MaxChanges = 1
INVARIANTS TypeOK StatusFollowsSlice UsersInPlace ChangeProved
PROPERTIES LoginProved NamesNotTold DialogueEnds
