SPECIFICATION Spec
CONSTANTS
    Selections = {s1, s2}
    Tokens = {t1, t2}
    ReuseTokens = FALSE
    None = None
PROPERTY NoAnswerAfterCancel
