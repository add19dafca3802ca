SPECIFICATION Spec
CONSTANTS
    a = a
    b = b
    p = p
    q = q
    Keep = Keep
    Workers = {w1, w2}
    Names = {a, b}
    Passwords = {p, q}
    Founders <- MCFounders
    Applicants <- MCApplicants
    Edits <- MCEdits
    MaxUsers = 2
    MaxTokens = 2
INVARIANTS
    ActsOnLiveOrJustEnded
    TokensSpeakForOneUser
    SessionsAreOwned
    AdminsAreAppointed
PROPERTY LogoutEndsItsSession
SYMMETRY MCSymmetry
