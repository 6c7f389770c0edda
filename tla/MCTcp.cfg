SPECIFICATION Spec
CONSTANTS
    Client = client
    Server = server
    None = None
    SeqMod = 16
    Iss <- MCIss
    FirstIss = 6
    MSS = 2
    Window = 2
    ClientSends = 3
    ServerSends = 0
    ToSend <- MCToSend
    MaxOpens = 1
    MaxFaults = 2
    MaxInFlight = 1
INVARIANTS StreamInOrder EndOfStream NoLostNotify UnackedIsQueued
CHECK_DEADLOCK FALSE
