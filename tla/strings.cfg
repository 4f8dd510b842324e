\* What parse_string decodes and print_string_ptr prints, on texts of up to
\* five pieces with all kinds of escapes.
SPECIFICATION Spec
CONSTANTS
    Openings <- MCOpenings
    Pieces <- MCPieces
    MaxPieces = 5
INVARIANT DecodesInsideBlock
INVARIANT DecodesAsRfc8259
INVARIANT PrintedParsesBack
