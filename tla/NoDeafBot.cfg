SPECIFICATION Spec
CONSTANTS
    Operations <- MCReset
    MaxUpdates = 2
    MaxGenerations = 2
    MaxSaves = 2
    MaxBotRestarts = 0
INVARIANT NoDeafBot
