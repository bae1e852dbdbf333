SPECIFICATION RSpec
CONSTANTS
    Ip = {i1}
    Mentions <- MentionsSelf
    Mac = {m1, m2}
    Token = {t1}
    Worker = {w1}
    Rate = {0}
    MaxNodes = 2
    MaxCopies = 1
    StatusLost = FALSE
SYMMETRY SymMac
PROPERTIES AllowedIsLetThrough
