SPECIFICATION FairSpec
CONSTANTS
    Bauds = {4800, 9600, 115200}
    MaxChanges = 3
    MaxUnplugs = 2
INVARIANTS TypeOK EventsTruthful
PROPERTY Reconnects
