CONSTANTS
    Daemons = {d1, d2, d3}
    Owners = {d1, d2}
    SchemaVersion = 3
    Statements <- MCStatements
    Nobody = Nobody
    Orphan = Orphan
    PluginVersion = 2
    MaxQueries = 1
SPECIFICATION FairSpec
INVARIANTS
    
    NoMigrationRepeated
    NeverStuck
PROPERTIES
    UpInTheEnd
