SPECIFICATION Spec
CONSTANTS
    b1 = b1  b2 = b2  p1 = p1  p2 = p2
    s1 = s1  s2 = s2  s3 = s3  s4 = s4  w1 = w1  w2 = w2
    None = None
    Browsers = {b1, b2}
    Workers = {w1}
    Passwords = {p1, p2}
    Sids = {s1, s2, s3, s4}
    Slashed = {}
    MAX_ATTEMPTS = 5
    MaxKills = 2
SYMMETRY Symmetry
INVARIANTS OneSession 
 
