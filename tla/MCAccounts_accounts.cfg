\* A Google and a GitHub account, two sign-ins at a time, edits of the profile.
SPECIFICATION Spec
CONSTANTS
    Procs = {p1, p2}
    GoogleSubjects = {s1}
    GitHubSubjects = {s2}
    Claims = {c1}
    Emails = {e1, e2}
    VerifiedEmails = {e1}
    Names = {n1}
    MaxUsers = 3
SYMMETRY Symmetry
INVARIANTS
    OneAccountPerSubject
    EveryUserCanSignIn
    LocalEditsWin
    VerifiedMeansVerified
PROPERTIES
    SignInRepairs
