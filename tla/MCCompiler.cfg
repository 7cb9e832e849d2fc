CONSTANTS
    Scripts <- MCScripts
SPECIFICATION CompilerSpec
INVARIANTS
    ErrorsExact
    FlowPreserved
    VariablesApart
PROPERTIES
    EarlierCodeKept
