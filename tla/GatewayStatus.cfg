SPECIFICATION Spec
CONSTANTS
    i1 = i1
    i2 = i2
    Ip = {i1}
    Mentions <- MentionsSelf
    Mac = {m1, m2}
    Token = {t1}
    Worker = {w1, w2}
    Rate = {0, 1}
    MaxNodes = 3
    MaxCopies = 2
    StatusLost = TRUE
INVARIANT RulesAreUnique
