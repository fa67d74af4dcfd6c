CONSTANTS
    NUL = NUL
    a = a
    b = b
    BUFF_SIZE = 4
    CODES = 4
    Chars <- MCChars
    char_map <- MCCharMap
SPECIFICATION Spec
PROPERTY ImplementsFifo
