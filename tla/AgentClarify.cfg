SPECIFICATION Spec
CONSTANTS
    write = write
    read = read
    ask = ask
    a1 = a1
    none = none
    Tool <- MCTool
    Arg <- OneArg
    Writes <- JustWrite
    Reads <- JustRead
    WriterName <- NamesWithHint
    Listing <- AllOrOneMissing
    Delegations <- JustAsk
    NoTool = none
    MaxSteps = 3
    NoProgressLimit = 2
INVARIANT AssembledFromAll
