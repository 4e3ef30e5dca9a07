SPECIFICATION Spec
CONSTANTS
    Server = {1, 2}
    Addr = {"here", "there"}
    EDITS = 2
    None = None
INVARIANTS SupervisorTypeOK FollowsTheList NoGhosts
PROPERTIES OthersUndisturbed CatchesUp LivesOffTheCopy
