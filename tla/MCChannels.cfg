SPECIFICATION Spec
CONSTANTS
    c1 = c1  c2 = c2  c3 = c3
    u1 = u1  u2 = u2
    group = group  call = call
    g1 = g1  g2 = g2  a1 = a1
    None = None  NoClient = NoClient  NoClaims = NoClaims  Refused = Refused
    SigningMethods = {"RS256"}
    UserIDs = {u1, u2}
    Conns = {c1, c2, c3}
    UserOf <- MCUserOf
    Auth <- MCAuth
    GroupKeys = {group}
    CallKeys = {call}
    Chans = {g1, a1}
    KeyOf <- MCKeyOf
SYMMETRY MCSymmetry
CHECK_DEADLOCK FALSE
INVARIANTS KeptLock NoGhostMember MembersHoldHash GuestsStayInGroup
PROPERTIES ReplacementStays
