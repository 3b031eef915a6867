SPECIFICATION Spec
CONSTANTS
    server = server
    cli = cli
    Procs = {server, cli}
    Tools = {cli}
    Files <- ThreeFiles
INVARIANTS
    SchemaIsConsistent
    NoHoles
PROPERTIES
    UpCompletes
