SPECIFICATION ParserSpec
CONSTANTS
    Readers = {0, 1}
    input_strings <- SomeOptions
    Lines <- SomeLines
    Length = 4
    Waived = {}
INVARIANT OptionsAreAsGiven
