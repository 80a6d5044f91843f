\* Sockets for one message, two answers to a message, two faults.
SPECIFICATION FairSpec
CONSTANTS
    SocketBuffer = 1
    MaxAnswers = 2
    MaxFaults = 2
INVARIANTS TypeOK NeverStranded
PROPERTIES Reconnects NoneStuck
